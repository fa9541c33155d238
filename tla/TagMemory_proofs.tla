--------------------------- MODULE TagMemory_proofs ---------------------------
(***************************************************************************)
(* Proofs about TagMemory, for any number of sessions and any transfers,   *)
(* tags, templates and sizes: first what the folds, the layout of the      *)
(* templates, the walk along a path, the packets and the services promise, *)
(* then the invariant of the sessions that are under way at a time.        *)
(*                                                                         *)
(* The folds are taken one step at a time by induction over a set of       *)
(* numbers, which the well-foundedness of < on Nat gives.                  *)
(***************************************************************************)
EXTENDS TagMemory, WellFoundedInduction, SequenceTheorems, TLAPS

---------------------------------------------------------------------------
\* A set of numbers that is not empty has a least one.
LEMMA LeastNumber ==
  ASSUME NEW T, T \subseteq Nat, T # {}
  PROVE  \E x \in T : \A y \in T : x <= y
  <1> DEFINE R == OpToRel(<, Nat)
  <1>1. IsWellFoundedOn(R, Nat)
    BY NatLessThanWellFounded
  <1>2. \A y \in Nat, x \in Nat : y < x => <<y, x>> \in R
    BY SMT DEF OpToRel
  <1> HIDE DEF R
  <1>3. PICK x \in T : \A y \in T : ~ (<<y, x>> \in R)
    BY <1>1, WFMin
  <1>4. \A y \in T : ~(y < x)
    BY <1>2, <1>3
  <1> QED
    BY <1>4

\* Induction over a set of numbers.
LEMMA SetInduction ==
  ASSUME NEW P, 0 \in P, \A n \in Nat : n \in P => n + 1 \in P
  PROVE  Nat \subseteq P
  <1> SUFFICES ASSUME Nat \ P # {} PROVE FALSE
    OBVIOUS
  <1>1. PICK x \in Nat \ P : \A y \in Nat \ P : x <= y
    BY LeastNumber
  <1>2. x # 0
    BY <1>1
  <1>3. x - 1 \in Nat /\ x - 1 \notin Nat \ P
    BY <1>1, <1>2
  <1>4. (x - 1) + 1 \in P
    BY <1>3
  <1> QED
    BY <1>4, <1>1

\* The greatest number of a set that has the greatest of an interval.
LEMMA MaxTop ==
  ASSUME NEW k \in Nat, NEW s \in SUBSET (1..(k + 1)), k + 1 \in s
  PROVE  Max(s) = k + 1
  <1>1. \A x \in s : (\A y \in s : x >= y) => x = k + 1
    OBVIOUS
  <1>2. k + 1 \in s /\ \A y \in s : k + 1 >= y
    OBVIOUS
  <1> QED
    BY <1>1, <1>2 DEF Max

\* The walker goes through the segments of a path one by one.
WalkBody(g, t, segments, k) ==
  g = [s \in SUBSET (1..k) |-> IF s = {} THEN Root(t)
                               ELSE Step(g[s \ {Max(s)}], segments[Max(s)])]

\* The function behind the fold exists for sequences of any length.
LEMMA WalkBodyExists ==
  ASSUME NEW t, NEW segments
  PROVE  \A k \in Nat : \E g : WalkBody(g, t, segments, k)
  <1> DEFINE P == {k \in Nat : \E g : WalkBody(g, t, segments, k)}
  <1>1. 0 \in P
    <2>1. \A s \in SUBSET (1..0) : s = {}
      OBVIOUS
    <2>2. WalkBody([s \in SUBSET (1..0) |-> Root(t)], t, segments, 0)
      BY <2>1 DEF WalkBody
    <2> QED
      BY <2>2
  <1>2. ASSUME NEW n \in Nat, n \in P
        PROVE  n + 1 \in P
    <2>1. PICK g : WalkBody(g, t, segments, n)
      BY <1>2
    <2> DEFINE h == [s \in SUBSET (1..(n + 1)) |->
                       IF n + 1 \in s THEN Step(g[s \ {n + 1}], segments[n + 1]) ELSE g[s]]
               H(s) == IF s = {} THEN Root(t) ELSE Step(h[s \ {Max(s)}], segments[Max(s)])
    <2>2. \A s \in SUBSET (1..n) : s \in SUBSET (1..(n + 1)) /\ n + 1 \notin s
      OBVIOUS
    <2>3. \A s \in SUBSET (1..n) : h[s] = g[s]
      BY <2>2
    <2>4. ASSUME NEW s \in SUBSET (1..(n + 1))
          PROVE  h[s] = H(s)
      <3>1. CASE n + 1 \in s
        <4>1. Max(s) = n + 1
          BY <3>1, MaxTop
        <4>2. s \ {n + 1} \in SUBSET (1..n)
          OBVIOUS
        <4>3. h[s \ {n + 1}] = g[s \ {n + 1}]
          BY <2>3, <4>2
        <4>4. h[s] = Step(g[s \ {n + 1}], segments[n + 1])
          BY <3>1
        <4> QED
          BY <3>1, <4>1, <4>3, <4>4
      <3>2. CASE n + 1 \notin s
        <4>1. s \in SUBSET (1..n)
          BY <3>2
        <4>2. s \ {Max(s)} \in SUBSET (1..n)
          BY <4>1
        <4>3. h[s] = g[s] /\ h[s \ {Max(s)}] = g[s \ {Max(s)}]
          BY <2>3, <4>1, <4>2
        <4>4. g[s] = IF s = {} THEN Root(t) ELSE Step(g[s \ {Max(s)}], segments[Max(s)])
          BY <2>1, <4>1, Zenon DEF WalkBody
        <4> QED
          BY <4>3, <4>4
      <3> QED
        BY <3>1, <3>2
    <2>5. h = [s \in SUBSET (1..(n + 1)) |-> h[s]]
      BY Zenon
    <2> HIDE DEF h
    <2>6. h = [s \in SUBSET (1..(n + 1)) |-> H(s)]
      BY <2>4, <2>5, Zenon
    <2>7. WalkBody(h, t, segments, n + 1)
      BY <2>6, Zenon DEF WalkBody, H
    <2> QED
      BY <2>7
  <1> HIDE DEF P
  <1>3. Nat \subseteq P
    BY <1>1, <1>2, SetInduction
  <1> QED
    BY <1>3 DEF P

\* The places that the walker comes through, from the root tag on.
LEMMA WalkTrace ==
  ASSUME NEW t, NEW segments, NEW n \in Nat, DOMAIN segments = 1..n
  PROVE  \E tr : /\ tr[0] = Root(t)
                 /\ \A k \in 1..n : tr[k] = Step(tr[k - 1], segments[k])
                 /\ tr[n] = FoldLeft(Step, Root(t), segments)
  <1> DEFINE g == CHOOSE g : WalkBody(g, t, segments, n)
             tr == [k \in 0..n |-> g[1..k]]
  <1>1. WalkBody(g, t, segments, n)
    BY WalkBodyExists, Zenon
  <1>2. FoldLeft(Step, Root(t), segments) = g[1..n]
    BY Zenon DEF FoldLeft, MapThenFoldSet, WalkBody
  <1> HIDE DEF g
  <1>3. tr[0] = Root(t)
    <2>1. 1..0 = {} /\ {} \in SUBSET (1..n)
      OBVIOUS
    <2> QED
      BY <1>1, <2>1 DEF WalkBody
  <1>4. ASSUME NEW k \in 1..n
        PROVE  tr[k] = Step(tr[k - 1], segments[k])
    <2>1. 1..k \in SUBSET (1..n) /\ 1..k # {} /\ (1..k) \ {k} = 1..(k - 1)
      OBVIOUS
    <2>2. Max(1..k) = k
      <3>1. k - 1 \in Nat /\ (k - 1) + 1 = k /\ k \in 1..k
        OBVIOUS
      <3> QED
        BY <3>1, MaxTop, Zenon
    <2>3. g[1..k] = Step(g[1..(k - 1)], segments[k])
      BY <1>1, <2>1, <2>2, Zenon DEF WalkBody
    <2> QED
      BY <2>3
  <1>5. tr[n] = FoldLeft(Step, Root(t), segments)
    BY <1>2
  <1> HIDE DEF tr
  <1> QED
    BY <1>3, <1>4, <1>5

\* The members of a template are placed one by one.
PlaceBody(g, known, members, k) ==
  g = [s \in SUBSET (1..k) |-> IF s = {} THEN Start
                               ELSE Place(known, g[s \ {Max(s)}], members[Max(s)])]

\* The function behind the fold exists for sequences of any length.
LEMMA PlaceBodyExists ==
  ASSUME NEW known, NEW members
  PROVE  \A k \in Nat : \E g : PlaceBody(g, known, members, k)
  <1> DEFINE P == {k \in Nat : \E g : PlaceBody(g, known, members, k)}
  <1>1. 0 \in P
    <2>1. \A s \in SUBSET (1..0) : s = {}
      OBVIOUS
    <2>2. PlaceBody([s \in SUBSET (1..0) |-> Start], known, members, 0)
      BY <2>1 DEF PlaceBody
    <2> QED
      BY <2>2
  <1>2. ASSUME NEW n \in Nat, n \in P
        PROVE  n + 1 \in P
    <2>1. PICK g : PlaceBody(g, known, members, n)
      BY <1>2
    <2> DEFINE h == [s \in SUBSET (1..(n + 1)) |->
                       IF n + 1 \in s THEN Place(known, g[s \ {n + 1}], members[n + 1]) ELSE g[s]]
               H(s) == IF s = {} THEN Start ELSE Place(known, h[s \ {Max(s)}], members[Max(s)])
    <2>2. \A s \in SUBSET (1..n) : s \in SUBSET (1..(n + 1)) /\ n + 1 \notin s
      OBVIOUS
    <2>3. \A s \in SUBSET (1..n) : h[s] = g[s]
      BY <2>2
    <2>4. ASSUME NEW s \in SUBSET (1..(n + 1))
          PROVE  h[s] = H(s)
      <3>1. CASE n + 1 \in s
        <4>1. Max(s) = n + 1
          BY <3>1, MaxTop
        <4>2. s \ {n + 1} \in SUBSET (1..n)
          OBVIOUS
        <4>3. h[s \ {n + 1}] = g[s \ {n + 1}]
          BY <2>3, <4>2
        <4>4. h[s] = Place(known, g[s \ {n + 1}], members[n + 1])
          BY <3>1
        <4> QED
          BY <3>1, <4>1, <4>3, <4>4
      <3>2. CASE n + 1 \notin s
        <4>1. s \in SUBSET (1..n)
          BY <3>2
        <4>2. s \ {Max(s)} \in SUBSET (1..n)
          BY <4>1
        <4>3. h[s] = g[s] /\ h[s \ {Max(s)}] = g[s \ {Max(s)}]
          BY <2>3, <4>1, <4>2
        <4>4. g[s] = IF s = {} THEN Start ELSE Place(known, g[s \ {Max(s)}], members[Max(s)])
          BY <2>1, <4>1, Zenon DEF PlaceBody
        <4> QED
          BY <4>3, <4>4
      <3> QED
        BY <3>1, <3>2
    <2>5. h = [s \in SUBSET (1..(n + 1)) |-> h[s]]
      BY Zenon
    <2> HIDE DEF h
    <2>6. h = [s \in SUBSET (1..(n + 1)) |-> H(s)]
      BY <2>4, <2>5, Zenon
    <2>7. PlaceBody(h, known, members, n + 1)
      BY <2>6, Zenon DEF PlaceBody, H
    <2> QED
      BY <2>7
  <1> HIDE DEF P
  <1>3. Nat \subseteq P
    BY <1>1, <1>2, SetInduction
  <1> QED
    BY <1>3 DEF P

\* Where the members are placed, one after the other.
LEMMA PlaceTrace ==
  ASSUME NEW known, NEW members, NEW n \in Nat, DOMAIN members = 1..n
  PROVE  \E tr : /\ tr[0] = Start
                 /\ \A k \in 1..n : tr[k] = Place(known, tr[k - 1], members[k])
                 /\ tr[n] = PlaceAll(known, members)
  <1> DEFINE g == CHOOSE g : PlaceBody(g, known, members, n)
             tr == [k \in 0..n |-> g[1..k]]
  <1>1. PlaceBody(g, known, members, n)
    BY PlaceBodyExists, Zenon
  <1>2. PlaceAll(known, members) = g[1..n]
    BY Zenon DEF PlaceAll, FoldLeft, MapThenFoldSet, PlaceBody
  <1> HIDE DEF g
  <1>3. tr[0] = Start
    <2>1. 1..0 = {} /\ {} \in SUBSET (1..n)
      OBVIOUS
    <2> QED
      BY <1>1, <2>1 DEF PlaceBody
  <1>4. ASSUME NEW k \in 1..n
        PROVE  tr[k] = Place(known, tr[k - 1], members[k])
    <2>1. 1..k \in SUBSET (1..n) /\ 1..k # {} /\ (1..k) \ {k} = 1..(k - 1)
      OBVIOUS
    <2>2. Max(1..k) = k
      <3>1. k - 1 \in Nat /\ (k - 1) + 1 = k /\ k \in 1..k
        OBVIOUS
      <3> QED
        BY <3>1, MaxTop, Zenon
    <2>3. g[1..k] = Place(known, g[1..(k - 1)], members[k])
      BY <1>1, <2>1, <2>2, Zenon DEF PlaceBody
    <2> QED
      BY <2>3
  <1>5. tr[n] = PlaceAll(known, members)
    BY <1>2
  <1> HIDE DEF tr
  <1> QED
    BY <1>3, <1>4, <1>5

\* The templates are added one by one.
AddBody(g, k) ==
  g = [s \in SUBSET (1..k) |-> IF s = {} THEN <<>>
                               ELSE AddTemplate(g[s \ {Max(s)}], Templates[Max(s)])]

\* The function behind the fold exists for sequences of any length.
LEMMA AddBodyExists ==
  ASSUME TRUE
  PROVE  \A k \in Nat : \E g : AddBody(g, k)
  <1> DEFINE P == {k \in Nat : \E g : AddBody(g, k)}
  <1>1. 0 \in P
    <2>1. \A s \in SUBSET (1..0) : s = {}
      OBVIOUS
    <2>2. AddBody([s \in SUBSET (1..0) |-> <<>>], 0)
      BY <2>1 DEF AddBody
    <2> QED
      BY <2>2
  <1>2. ASSUME NEW n \in Nat, n \in P
        PROVE  n + 1 \in P
    <2>1. PICK g : AddBody(g, n)
      BY <1>2
    <2> DEFINE h == [s \in SUBSET (1..(n + 1)) |->
                       IF n + 1 \in s THEN AddTemplate(g[s \ {n + 1}], Templates[n + 1]) ELSE g[s]]
               H(s) == IF s = {} THEN <<>> ELSE AddTemplate(h[s \ {Max(s)}], Templates[Max(s)])
    <2>2. \A s \in SUBSET (1..n) : s \in SUBSET (1..(n + 1)) /\ n + 1 \notin s
      OBVIOUS
    <2>3. \A s \in SUBSET (1..n) : h[s] = g[s]
      BY <2>2
    <2>4. ASSUME NEW s \in SUBSET (1..(n + 1))
          PROVE  h[s] = H(s)
      <3>1. CASE n + 1 \in s
        <4>1. Max(s) = n + 1
          BY <3>1, MaxTop
        <4>2. s \ {n + 1} \in SUBSET (1..n)
          OBVIOUS
        <4>3. h[s \ {n + 1}] = g[s \ {n + 1}]
          BY <2>3, <4>2
        <4>4. h[s] = AddTemplate(g[s \ {n + 1}], Templates[n + 1])
          BY <3>1
        <4> QED
          BY <3>1, <4>1, <4>3, <4>4
      <3>2. CASE n + 1 \notin s
        <4>1. s \in SUBSET (1..n)
          BY <3>2
        <4>2. s \ {Max(s)} \in SUBSET (1..n)
          BY <4>1
        <4>3. h[s] = g[s] /\ h[s \ {Max(s)}] = g[s \ {Max(s)}]
          BY <2>3, <4>1, <4>2
        <4>4. g[s] = IF s = {} THEN <<>> ELSE AddTemplate(g[s \ {Max(s)}], Templates[Max(s)])
          BY <2>1, <4>1, Zenon DEF AddBody
        <4> QED
          BY <4>3, <4>4
      <3> QED
        BY <3>1, <3>2
    <2>5. h = [s \in SUBSET (1..(n + 1)) |-> h[s]]
      BY Zenon
    <2> HIDE DEF h
    <2>6. h = [s \in SUBSET (1..(n + 1)) |-> H(s)]
      BY <2>4, <2>5, Zenon
    <2>7. AddBody(h, n + 1)
      BY <2>6, Zenon DEF AddBody, H
    <2> QED
      BY <2>7
  <1> HIDE DEF P
  <1>3. Nat \subseteq P
    BY <1>1, <1>2, SetInduction
  <1> QED
    BY <1>3 DEF P

\* The layouts known after each template.
LEMMA AddTrace ==
  ASSUME TRUE, NEW n \in Nat, DOMAIN Templates = 1..n
  PROVE  \E tr : /\ tr[0] = <<>>
                 /\ \A k \in 1..n : tr[k] = AddTemplate(tr[k - 1], Templates[k])
                 /\ tr[n] = Layout
  <1> DEFINE g == CHOOSE g : AddBody(g, n)
             tr == [k \in 0..n |-> g[1..k]]
  <1>1. AddBody(g, n)
    BY AddBodyExists, Zenon
  <1>2. Layout = g[1..n]
    BY Zenon DEF Layout, FoldLeft, MapThenFoldSet, AddBody
  <1> HIDE DEF g
  <1>3. tr[0] = <<>>
    <2>1. 1..0 = {} /\ {} \in SUBSET (1..n)
      OBVIOUS
    <2> QED
      BY <1>1, <2>1 DEF AddBody
  <1>4. ASSUME NEW k \in 1..n
        PROVE  tr[k] = AddTemplate(tr[k - 1], Templates[k])
    <2>1. 1..k \in SUBSET (1..n) /\ 1..k # {} /\ (1..k) \ {k} = 1..(k - 1)
      OBVIOUS
    <2>2. Max(1..k) = k
      <3>1. k - 1 \in Nat /\ (k - 1) + 1 = k /\ k \in 1..k
        OBVIOUS
      <3> QED
        BY <3>1, MaxTop, Zenon
    <2>3. g[1..k] = AddTemplate(g[1..(k - 1)], Templates[k])
      BY <1>1, <2>1, <2>2, Zenon DEF AddBody
    <2> QED
      BY <2>3
  <1>5. tr[n] = Layout
    BY <1>2
  <1> HIDE DEF tr
  <1> QED
    BY <1>3, <1>4, <1>5

\* The answers of a packet are put together one by one.
GatherBody(g, answers_, k) ==
  g = [s \in SUBSET (1..k) |-> IF s = {} THEN <<>>
                               ELSE Gather(g[s \ {Max(s)}], answers_[Max(s)])]

\* The function behind the fold exists for sequences of any length.
LEMMA GatherBodyExists ==
  ASSUME NEW answers_
  PROVE  \A k \in Nat : \E g : GatherBody(g, answers_, k)
  <1> DEFINE P == {k \in Nat : \E g : GatherBody(g, answers_, k)}
  <1>1. 0 \in P
    <2>1. \A s \in SUBSET (1..0) : s = {}
      OBVIOUS
    <2>2. GatherBody([s \in SUBSET (1..0) |-> <<>>], answers_, 0)
      BY <2>1 DEF GatherBody
    <2> QED
      BY <2>2
  <1>2. ASSUME NEW n \in Nat, n \in P
        PROVE  n + 1 \in P
    <2>1. PICK g : GatherBody(g, answers_, n)
      BY <1>2
    <2> DEFINE h == [s \in SUBSET (1..(n + 1)) |->
                       IF n + 1 \in s THEN Gather(g[s \ {n + 1}], answers_[n + 1]) ELSE g[s]]
               H(s) == IF s = {} THEN <<>> ELSE Gather(h[s \ {Max(s)}], answers_[Max(s)])
    <2>2. \A s \in SUBSET (1..n) : s \in SUBSET (1..(n + 1)) /\ n + 1 \notin s
      OBVIOUS
    <2>3. \A s \in SUBSET (1..n) : h[s] = g[s]
      BY <2>2
    <2>4. ASSUME NEW s \in SUBSET (1..(n + 1))
          PROVE  h[s] = H(s)
      <3>1. CASE n + 1 \in s
        <4>1. Max(s) = n + 1
          BY <3>1, MaxTop
        <4>2. s \ {n + 1} \in SUBSET (1..n)
          OBVIOUS
        <4>3. h[s \ {n + 1}] = g[s \ {n + 1}]
          BY <2>3, <4>2
        <4>4. h[s] = Gather(g[s \ {n + 1}], answers_[n + 1])
          BY <3>1
        <4> QED
          BY <3>1, <4>1, <4>3, <4>4
      <3>2. CASE n + 1 \notin s
        <4>1. s \in SUBSET (1..n)
          BY <3>2
        <4>2. s \ {Max(s)} \in SUBSET (1..n)
          BY <4>1
        <4>3. h[s] = g[s] /\ h[s \ {Max(s)}] = g[s \ {Max(s)}]
          BY <2>3, <4>1, <4>2
        <4>4. g[s] = IF s = {} THEN <<>> ELSE Gather(g[s \ {Max(s)}], answers_[Max(s)])
          BY <2>1, <4>1, Zenon DEF GatherBody
        <4> QED
          BY <4>3, <4>4
      <3> QED
        BY <3>1, <3>2
    <2>5. h = [s \in SUBSET (1..(n + 1)) |-> h[s]]
      BY Zenon
    <2> HIDE DEF h
    <2>6. h = [s \in SUBSET (1..(n + 1)) |-> H(s)]
      BY <2>4, <2>5, Zenon
    <2>7. GatherBody(h, answers_, n + 1)
      BY <2>6, Zenon DEF GatherBody, H
    <2> QED
      BY <2>7
  <1> HIDE DEF P
  <1>3. Nat \subseteq P
    BY <1>1, <1>2, SetInduction
  <1> QED
    BY <1>3 DEF P

\* What a client has of a packet after each answer.
LEMMA GatherTrace ==
  ASSUME NEW answers_, NEW n \in Nat, DOMAIN answers_ = 1..n
  PROVE  \E tr : /\ tr[0] = <<>>
                 /\ \A k \in 1..n : tr[k] = Gather(tr[k - 1], answers_[k])
                 /\ tr[n] = FoldLeft(Gather, <<>>, answers_)
  <1> DEFINE g == CHOOSE g : GatherBody(g, answers_, n)
             tr == [k \in 0..n |-> g[1..k]]
  <1>1. GatherBody(g, answers_, n)
    BY GatherBodyExists, Zenon
  <1>2. FoldLeft(Gather, <<>>, answers_) = g[1..n]
    BY Zenon DEF FoldLeft, MapThenFoldSet, GatherBody
  <1> HIDE DEF g
  <1>3. tr[0] = <<>>
    <2>1. 1..0 = {} /\ {} \in SUBSET (1..n)
      OBVIOUS
    <2> QED
      BY <1>1, <2>1 DEF GatherBody
  <1>4. ASSUME NEW k \in 1..n
        PROVE  tr[k] = Gather(tr[k - 1], answers_[k])
    <2>1. 1..k \in SUBSET (1..n) /\ 1..k # {} /\ (1..k) \ {k} = 1..(k - 1)
      OBVIOUS
    <2>2. Max(1..k) = k
      <3>1. k - 1 \in Nat /\ (k - 1) + 1 = k /\ k \in 1..k
        OBVIOUS
      <3> QED
        BY <3>1, MaxTop, Zenon
    <2>3. g[1..k] = Gather(g[1..(k - 1)], answers_[k])
      BY <1>1, <2>1, <2>2, Zenon DEF GatherBody
    <2> QED
      BY <2>3
  <1>5. tr[n] = FoldLeft(Gather, <<>>, answers_)
    BY <1>2
  <1> HIDE DEF tr
  <1> QED
    BY <1>3, <1>4, <1>5

---------------------------------------------------------------------------
\* Layouts.

\* A member lies within the first limit bytes of its structure, of a type that is known.
MemberOK(known, limit, m) ==
  /\ m.offset \in Nat /\ m.elementSize \in Nat /\ m.arraySize \in Nat
  /\ m.offset + m.elementSize <= limit
  /\ \/ m.type = "BOOL" /\ m.elementSize = 0 /\ m.arraySize \in Bits /\ m.offset < limit
     \/ /\ \/ m.type \in DOMAIN AtomicSize /\ m.elementSize = AtomicSize[m.type]
           \/ /\ m.type \notin DOMAIN AtomicSize /\ m.type \in DOMAIN known
              /\ m.elementSize = known[m.type].size
        /\ m.offset + m.arraySize * m.elementSize <= limit

\* What has been placed so far lies below the offset reached, and so does the host byte of
\* the BOOL before.
PlacedOK(known, at) ==
  /\ at = [offset |-> at.offset, bit |-> at.bit, host |-> at.host, hosts |-> at.hosts,
           members |-> at.members]
  /\ at.offset \in Nat /\ at.bit \in 0..ByteBits /\ at.host \in Nat
  /\ at.bit # 0 => at.host < at.offset
  /\ \E S : at.members \in Seq(S) /\ \A m \in S : MemberOK(known, at.offset, m)

\* A template as it is known.
TemplateOK(known, t) ==
  /\ t.size \in Nat /\ t.definition \in Nat \ {0} /\ t.definition % 4 = 0
  /\ t.words = (21 + t.definition + 3) \div 4
  /\ \A n \in DOMAIN t.member : MemberOK(known, t.size, t.member[n])

\* After the first k templates.
KnownOK(known, k) ==
  /\ DOMAIN known = {Templates[j].name : j \in 1..k}
  /\ \A t \in DOMAIN known : TemplateOK(known, known[t])

\* Aligning an offset does not lower it.
LEMMA AlignUpOK ==
  ASSUME NEW o \in Nat, NEW a \in Nat \ {0}
  PROVE  AlignUp(o, a) \in Nat /\ AlignUp(o, a) >= o
  <1> DEFINE q == (o + a - 1) \div a
             r == (o + a - 1) % a
  <1>1. o + a - 1 = a * q + r /\ 0 <= r /\ r <= a - 1 /\ q \in Nat /\ r \in Nat
    OBVIOUS
  <1> HIDE DEF q, r
  <1>2. q * a \in Nat /\ q * a >= o
    BY <1>1
  <1> QED
    BY <1>2 DEF AlignUp, q

\* The length of a structure is a whole number of words.
LEMMA AlignWords ==
  ASSUME NEW o \in Nat
  PROVE  AlignUp(o, 4) % 4 = 0
  BY DEF AlignUp

\* An alignment is not zero.
LEMMA AlignmentOK ==
  ASSUME NEW type \in DOMAIN AtomicSize
  PROVE  TypeAlignment(type) \in Nat \ {0}
  BY TemplatesAssumption DEF TypeAlignment

\* A longer structure has room for what a shorter one has.
LEMMA MemberMonotone ==
  ASSUME NEW known, NEW more, NEW low \in Nat, NEW high \in Nat, low <= high, NEW m,
         MemberOK(known, low, m),
         \A t \in DOMAIN known : t \in DOMAIN more /\ more[t].size = known[t].size
  PROVE  MemberOK(more, high, m)
  <1>1. m.offset + m.elementSize <= high
    BY DEF MemberOK
  <1>2. m.arraySize * m.elementSize \in Nat
    BY DEF MemberOK
  <1> QED
    BY <1>1, <1>2 DEF MemberOK

\* Sequences of one and of no element.
LEMMA ShortSeqs ==
  ASSUME NEW S, NEW x \in S
  PROVE  <<x>> \in Seq(S) /\ <<>> \in Seq(S)
  OBVIOUS

\* Two sequences of one set, one after the other.
LEMMA Concat ==
  ASSUME NEW S, NEW a \in Seq(S), NEW b \in Seq(S)
  PROVE  a \o b \in Seq(S)
  OBVIOUS

\* A BOOL goes into a bit of a byte that is part of the structure.
LEMMA PlaceBoolOK ==
  ASSUME NEW known, NEW at, PlacedOK(known, at), NEW m
  PROVE  PlacedOK(known, PlaceBool(at, m))
  <1> DEFINE full   == at.bit = 0 \/ at.bit >= ByteBits
             host   == IF full THEN at.offset ELSE at.host
             bit    == IF full THEN 0 ELSE at.bit
             byte   == Resolved("host" \o ToString(at.hosts), host, "SINT", 0, 1)
             hidden == IF full THEN <<byte>> ELSE <<>>
             bool   == Resolved(m.name, host, "BOOL", bit, 0)
             end    == IF full THEN at.offset + 1 ELSE at.offset
             new    == at.members \o hidden \o <<bool>>
  <1>1. /\ at.offset \in Nat /\ at.bit \in 0..ByteBits /\ at.host \in Nat
        /\ at.bit # 0 => at.host < at.offset
    BY DEF PlacedOK
  <1>2. ByteBits \in Nat \ {0} /\ "SINT" \in DOMAIN AtomicSize /\ AtomicSize["SINT"] = 1
    BY TemplatesAssumption
  <1>3. /\ end \in Nat /\ at.offset <= end /\ host \in Nat /\ host + 1 <= end
        /\ bit \in Bits /\ bit + 1 \in 0..ByteBits
    BY <1>1, <1>2 DEF Bits
  <1>4. MemberOK(known, end, bool)
    BY <1>3 DEF MemberOK, Resolved, Bits
  <1>5. full => MemberOK(known, end, byte)
    <2>1. /\ byte.offset = host /\ byte.type = "SINT"
          /\ byte.elementSize = 1 /\ byte.arraySize = 0
      BY Zenon DEF Resolved
    <2> HIDE DEF byte
    <2> QED
      BY <1>2, <1>3, <2>1 DEF MemberOK
  <1>6. PICK S : at.members \in Seq(S) /\ \A x \in S : MemberOK(known, at.offset, x)
    BY DEF PlacedOK
  <1> HIDE DEF bool, byte, end
  <1>7. \A x \in S : MemberOK(known, end, x)
    BY <1>1, <1>3, <1>6, MemberMonotone
  <1>8. \E T : new \in Seq(T) /\ \A x \in T : MemberOK(known, end, x)
    <2>1. CASE full
      <3> DEFINE T == S \cup {byte, bool}
      <3>1. at.members \in Seq(T) /\ <<byte>> \in Seq(T) /\ <<bool>> \in Seq(T)
        BY <1>6, SeqMonotonic, ShortSeqs, Zenon
      <3>2. hidden = <<byte>>
        BY <2>1
      <3>3. \A x \in T : MemberOK(known, end, x)
        BY <1>4, <1>5, <1>7, <2>1
      <3> HIDE DEF T, hidden
      <3>4. new \in Seq(T)
        BY <3>1, <3>2, Concat
      <3> HIDE DEF new
      <3> QED
        BY <3>3, <3>4
    <2>2. CASE ~full
      <3> DEFINE T == S \cup {bool}
      <3>1. at.members \in Seq(T) /\ <<bool>> \in Seq(T) /\ <<>> \in Seq(T)
        BY <1>6, SeqMonotonic, ShortSeqs, Zenon
      <3>2. hidden = <<>>
        BY <2>2
      <3>3. \A x \in T : MemberOK(known, end, x)
        BY <1>4, <1>7
      <3> HIDE DEF T, hidden
      <3>4. new \in Seq(T)
        BY <3>1, <3>2, Concat
      <3> HIDE DEF new
      <3> QED
        BY <3>3, <3>4
    <2> QED
      BY <2>1, <2>2
  <1>9. PlaceBool(at, m) = [offset |-> end, bit |-> bit + 1, host |-> host,
                            hosts |-> at.hosts + Len(hidden), members |-> new]
    BY Zenon DEF PlaceBool, byte, bool, end
  <1> HIDE DEF full, new, end, bit, host, hidden
  <1> QED
    BY <1>3, <1>8, <1>9 DEF PlacedOK

\* The types that a member may have when the templates known are added.
TypeKnown(known, type) ==
  type \in DOMAIN AtomicSize \/ (type \in DOMAIN known /\ type \notin DOMAIN AtomicSize)

Sound(known) ==
  \A t \in DOMAIN known : t \notin DOMAIN AtomicSize /\ known[t].size \in Nat

\* A member that is not a bit starts beyond all that is placed and has room for its elements.
LEMMA PlaceOtherOK ==
  ASSUME NEW known, NEW at, PlacedOK(known, at), Sound(known),
         NEW m, m.arraySize \in Nat, TypeKnown(known, m.type)
  PROVE  PlacedOK(known, PlaceOther(known, at, m))
  <1> DEFINE nested == m.type \in DOMAIN known
             size   == IF nested THEN known[m.type].size ELSE AtomicSize[m.type]
             align  == IF nested THEN 4 ELSE TypeAlignment(m.type)
             offset == AlignUp(at.offset, align)
             end    == offset + (IF m.arraySize > 0 THEN m.arraySize * size ELSE size)
             new    == Resolved(m.name, offset, m.type, m.arraySize, size)
  <1>1. at.offset \in Nat
    BY DEF PlacedOK
  <1>2. size \in Nat /\ align \in Nat \ {0}
    BY AlignmentOK, TemplatesAssumption DEF Sound, TypeKnown
  <1> HIDE DEF align
  <1>3. offset \in Nat /\ offset >= at.offset
    BY <1>1, <1>2, AlignUpOK
  <1>4. /\ m.type \in DOMAIN AtomicSize => size = AtomicSize[m.type]
        /\ m.type \notin DOMAIN AtomicSize => nested /\ size = known[m.type].size
    BY DEF Sound, TypeKnown
  <1> HIDE DEF size, offset
  <1> DEFINE room == m.arraySize * size
  <1>5. /\ room \in Nat /\ (m.arraySize > 0 => size <= room)
        /\ m.arraySize = 0 => room = 0
    BY <1>2
  <1>6. /\ end \in Nat /\ at.offset <= end /\ offset + size <= end
        /\ offset + room <= end
    <2>1. end = offset + (IF m.arraySize > 0 THEN room ELSE size)
      BY Zenon
    <2> HIDE DEF room, end
    <2> QED
      BY <1>1, <1>2, <1>3, <1>5, <2>1
  <1> HIDE DEF end
  <1>7. /\ new.offset = offset /\ new.elementSize = size /\ new.arraySize = m.arraySize
        /\ new.type = m.type
    BY Zenon DEF Resolved
  <1> HIDE DEF new
  <1>8. MemberOK(known, end, new)
    BY <1>2, <1>3, <1>4, <1>6, <1>7 DEF MemberOK
  <1>9. PICK S : at.members \in Seq(S) /\ \A x \in S : MemberOK(known, at.offset, x)
    BY DEF PlacedOK
  <1>10. \A x \in S \cup {new} : MemberOK(known, end, x)
    BY <1>1, <1>6, <1>8, <1>9, MemberMonotone
  <1>11. Append(at.members, new) \in Seq(S \cup {new})
    BY <1>9
  <1>12. PlaceOther(known, at, m) = [offset |-> end, bit |-> 0, host |-> at.host,
                             hosts |-> at.hosts, members |-> Append(at.members, new)]
    <2>1. at = [offset |-> at.offset, bit |-> at.bit, host |-> at.host, hosts |-> at.hosts,
                members |-> at.members]
      BY DEF PlacedOK
    <2>2. PlaceOther(known, at, m) =
            [at EXCEPT !.offset = end, !.bit = 0, !.members = Append(@, new)]
      BY Zenon DEF PlaceOther, end, new, offset, size, align
    <2> QED
      BY <2>1, <2>2
  <1>13. ByteBits \in Nat /\ at.host \in Nat
    BY TemplatesAssumption DEF PlacedOK
  <1>14. \E T : Append(at.members, new) \in Seq(T) /\ \A x \in T : MemberOK(known, end, x)
    BY <1>10, <1>11
  <1> QED
    BY <1>6, <1>12, <1>13, <1>14 DEF PlacedOK

\* All the members of a template are in place.
LEMMA PlaceAllOK ==
  ASSUME NEW known, Sound(known), NEW members, NEW n \in Nat, DOMAIN members = 1..n,
         \A k \in 1..n : members[k].arraySize \in Nat /\ TypeKnown(known, members[k].type)
  PROVE  PlacedOK(known, PlaceAll(known, members))
  <1>1. PICK tr : /\ tr[0] = Start
                  /\ \A k \in 1..n : tr[k] = Place(known, tr[k - 1], members[k])
                  /\ tr[n] = PlaceAll(known, members)
    BY PlaceTrace
  <1> DEFINE P == {k \in Nat : k <= n => PlacedOK(known, tr[k])}
  <1>2. 0 \in P
    <2>1. <<>> \in Seq({}) /\ ByteBits \in Nat
      BY TemplatesAssumption
    <2>2. /\ Start.offset = 0 /\ Start.bit = 0 /\ Start.host = 0 /\ Start.members = <<>>
          /\ Start = [offset |-> Start.offset, bit |-> Start.bit, host |-> Start.host,
                      hosts |-> Start.hosts, members |-> Start.members]
      BY DEF Start
    <2>3. \E S : Start.members \in Seq(S) /\ \A m \in S : MemberOK(known, Start.offset, m)
      <3> WITNESS {}
      <3> QED
        BY <2>1, <2>2
    <2>4. /\ Start.offset \in Nat /\ Start.bit \in 0..ByteBits /\ Start.host \in Nat
          /\ Start.bit # 0 => Start.host < Start.offset
      BY <2>1, <2>2 DEF Start
    <2>5. PlacedOK(known, Start)
      BY <2>2, <2>3, <2>4, Zenon DEF PlacedOK
    <2> QED
      BY <1>1, <2>5
  <1>3. ASSUME NEW k \in Nat, k \in P
        PROVE  k + 1 \in P
    <2> SUFFICES ASSUME k + 1 <= n
                 PROVE  PlacedOK(known, tr[k + 1])
      OBVIOUS
    <2>1. PlacedOK(known, tr[k]) /\ k + 1 \in 1..n /\ (k + 1) - 1 = k
      BY <1>3
    <2>2. tr[k + 1] = Place(known, tr[k], members[k + 1])
      BY <1>1, <2>1
    <2>3. members[k + 1].arraySize \in Nat /\ TypeKnown(known, members[k + 1].type)
      BY <2>1
    <2> QED
      BY <2>1, <2>2, <2>3, PlaceBoolOK, PlaceOtherOK DEF Place
  <1> HIDE DEF P
  <1>4. Nat \subseteq P
    BY <1>2, <1>3, SetInduction
  <1>5. n \in P
    BY <1>4
  <1> QED
    BY <1>1, <1>5 DEF P

\* The definition of a template takes a whole number of words, and at least one.
LEMMA DefinitionOK ==
  ASSUME NEW S, NEW members \in Seq(S)
  PROVE  DefinitionBytes(members) \in Nat \ {0} /\ DefinitionBytes(members) % 4 = 0
  <1> DEFINE o == 8 * Len(members) + (NameLength + 3) + Len(members) * (NameLength + 1)
  <1>1. o \in Nat /\ o > 0
    <2>1. Len(members) \in Nat /\ NameLength \in Nat
      BY TemplatesAssumption
    <2>2. Len(members) * (NameLength + 1) \in Nat
      BY <2>1
    <2> QED
      BY <2>1, <2>2
  <1>2. DefinitionBytes(members) = AlignUp(o, 4)
    BY Zenon DEF DefinitionBytes
  <1> HIDE DEF o
  <1>3. AlignUp(o, 4) \in Nat /\ AlignUp(o, 4) >= o /\ AlignUp(o, 4) % 4 = 0
    <2>1. 4 \in Nat \ {0} /\ o \in Nat
      BY <1>1
    <2> QED
      BY <2>1, AlignUpOK, AlignWords
  <1> QED
    BY <1>1, <1>2, <1>3

\* A member looked up by one of the names is one of the members.
LEMMA Selected ==
  ASSUME NEW S, NEW members \in Seq(S),
         NEW n \in {members[i].name : i \in DOMAIN members}
  PROVE  members[SelectInSeq(members, LAMBDA m : m.name = n)] \in S
  <1> DEFINE I == {i \in 1..Len(members) : members[i].name = n}
  <1>1. I \subseteq Nat /\ I # {}
    OBVIOUS
  <1>2. PICK x \in I : \A y \in I : x <= y
    BY <1>1, LeastNumber
  <1>3. SelectInSeq(members, LAMBDA m : m.name = n) = Min(I)
    BY <1>1, Zenon DEF SelectInSeq
  <1>4. Min(I) \in I
    BY <1>1, <1>2, Zenon DEF Min
  <1>5. Min(I) \in 1..Len(members)
    BY <1>4
  <1> QED
    BY <1>3, <1>5

\* Adding a template keeps what is known of the others.
LEMMA AddStep ==
  ASSUME NEW known, NEW k \in 1..Len(Templates), KnownOK(known, k - 1)
  PROVE  KnownOK(AddTemplate(known, Templates[k]), k)
  <1> DEFINE t     == Templates[k]
             end   == PlaceAll(known, t.members)
             size  == AlignUp(end.offset, 4)
             names == {end.members[i].name : i \in DOMAIN end.members}
             new   == [size       |-> size,
                       definition |-> DefinitionBytes(end.members),
                       words      |-> DefinitionWords(end.members),
                       member     |-> [n \in names |->
                          end.members[SelectInSeq(end.members, LAMBDA m : m.name = n)]]]
             more  == [n \in DOMAIN known \cup {t.name} |-> IF n = t.name THEN new ELSE known[n]]
  <1>1. /\ t.name \notin DOMAIN AtomicSize
        /\ \A j \in 1..(k - 1) : Templates[j].name # t.name
        /\ t.members \in Seq([name : STRING, type : STRING, arraySize : Nat])
        /\ \A i \in DOMAIN t.members :
             \/ t.members[i].type \in DOMAIN AtomicSize
             \/ \E j \in 1..(k - 1) : t.members[i].type = Templates[j].name
    <2>1. k \in DOMAIN Templates
      BY TemplatesAssumption
    <2>2. Templates[k] \in [name : STRING,
             members : Seq([name : STRING, type : STRING, arraySize : Nat])]
      BY TemplatesAssumption, ElementOfSeq, Zenon
    <2> QED
      BY <2>1, <2>2, TemplatesAssumption
  <1>2. \A j \in 1..(k - 1) : Templates[j].name \notin DOMAIN AtomicSize
    BY TemplatesAssumption
  <1>3. Sound(known)
    BY <1>2 DEF Sound, KnownOK, TemplateOK
  <1>4. \A i \in DOMAIN t.members :
          t.members[i].arraySize \in Nat /\ TypeKnown(known, t.members[i].type)
    <2> HIDE DEF t
    <2> TAKE i \in DOMAIN t.members
    <2>1. t.members[i].arraySize \in Nat
      <3>1. i \in 1..Len(t.members)
        BY <1>1
      <3>2. t.members[i] \in [name : STRING, type : STRING, arraySize : Nat]
        BY <1>1, <3>1, ElementOfSeq, Zenon
      <3> QED
        BY <3>2
    <2>2. \A j \in 1..(k - 1) : Templates[j].name \in DOMAIN known
      BY DEF KnownOK
    <2> QED
      BY <1>1, <1>2, <2>1, <2>2 DEF TypeKnown
  <1>5. Len(t.members) \in Nat /\ DOMAIN t.members = 1..Len(t.members)
    BY <1>1
  <1> HIDE DEF t
  <1>6. PlacedOK(known, end)
    BY <1>3, <1>4, <1>5, PlaceAllOK
  <1>7. PICK S : end.members \in Seq(S) /\ \A m \in S : MemberOK(known, end.offset, m)
    BY <1>6 DEF PlacedOK
  <1>8. end.offset \in Nat
    BY <1>6 DEF PlacedOK
  <1> HIDE DEF end
  <1>9. size \in Nat /\ size >= end.offset
    <2>1. 4 \in Nat \ {0}
      OBVIOUS
    <2> QED
      BY <1>8, <2>1, AlignUpOK
  <1>10. DOMAIN more = DOMAIN known \cup {t.name} /\ more[t.name] = new
         /\ \A n \in DOMAIN known : more[n] = known[n]
    <2> HIDE DEF new
    <2>1. t.name \notin DOMAIN known
      BY <1>1 DEF KnownOK, t
    <2> QED
      BY <2>1
  <1>11. AddTemplate(known, Templates[k]) = more
    BY Zenon DEF AddTemplate, t, end
  <1> HIDE DEF more
  <1>12. \A m \in S : MemberOK(more, size, m)
    <2>1. \A n \in DOMAIN known : n \in DOMAIN more /\ more[n].size = known[n].size
      BY <1>10
    <2> HIDE DEF size
    <2> QED
      BY <1>7, <1>8, <1>9, <2>1, MemberMonotone
  <1>13. TemplateOK(more, new)
    <2>1. /\ new.size = size /\ new.definition = DefinitionBytes(end.members)
          /\ new.words = (21 + DefinitionBytes(end.members) + 3) \div 4
          /\ DOMAIN new.member = names
          /\ \A n \in names : new.member[n] =
               end.members[SelectInSeq(end.members, LAMBDA m : m.name = n)]
      BY Zenon DEF DefinitionWords
    <2> HIDE DEF new, size
    <2>2. \A n \in names : new.member[n] \in S
      BY <1>7, <2>1, Selected
    <2>3. DefinitionBytes(end.members) \in Nat \ {0} /\ DefinitionBytes(end.members) % 4 = 0
      BY <1>7, DefinitionOK
    <2> QED
      BY <1>9, <1>12, <2>1, <2>2, <2>3 DEF TemplateOK
  <1> HIDE DEF new
  <1>14. ASSUME NEW n \in DOMAIN known
         PROVE  TemplateOK(more, known[n])
    <2>1. TemplateOK(known, known[n])
      BY DEF KnownOK
    <2>2. \A j \in DOMAIN known : j \in DOMAIN more /\ more[j].size = known[j].size
      BY <1>10
    <2>3. known[n].size \in Nat
      BY <2>1 DEF TemplateOK
    <2>4. \A j \in DOMAIN known[n].member : MemberOK(more, known[n].size, known[n].member[j])
      <3>1. \A j \in DOMAIN known[n].member : MemberOK(known, known[n].size, known[n].member[j])
        BY <2>1 DEF TemplateOK
      <3> QED
        BY <2>2, <2>3, <3>1, MemberMonotone
    <2> QED
      BY <2>1, <2>4 DEF TemplateOK
  <1>15. DOMAIN more = {Templates[j].name : j \in 1..k}
    <2>1. DOMAIN known = {Templates[j].name : j \in 1..(k - 1)} /\ t.name = Templates[k].name
      BY DEF KnownOK, t
    <2>2. 1..k = 1..(k - 1) \cup {k}
      OBVIOUS
    <2> QED
      BY <1>10, <2>1, <2>2
  <1>16. \A n \in DOMAIN more : TemplateOK(more, more[n])
    BY <1>10, <1>13, <1>14
  <1> QED
    BY <1>11, <1>15, <1>16 DEF KnownOK

\* Every member of a structure, with all its elements, lies inside the structure; a BOOL of
\* its own is a bit of one of its bytes (add_template).
THEOREM LayoutOK ==
  \A n \in DOMAIN Layout :
    /\ n \notin DOMAIN AtomicSize /\ TemplateOK(Layout, Layout[n])
  <1> DEFINE n == Len(Templates)
  <1>1. n \in Nat /\ DOMAIN Templates = 1..n
    BY TemplatesAssumption
  <1>2. PICK tr : /\ tr[0] = <<>>
                  /\ \A k \in 1..n : tr[k] = AddTemplate(tr[k - 1], Templates[k])
                  /\ tr[n] = Layout
    BY <1>1, AddTrace
  <1> DEFINE P == {k \in Nat : k <= n => KnownOK(tr[k], k)}
  <1>3. 0 \in P
    <2>1. DOMAIN tr[0] = {}
      BY <1>2
    <2> QED
      BY <2>1 DEF KnownOK
  <1>4. ASSUME NEW k \in Nat, k \in P
        PROVE  k + 1 \in P
    <2> SUFFICES ASSUME k + 1 <= n
                 PROVE  KnownOK(tr[k + 1], k + 1)
      OBVIOUS
    <2>1. KnownOK(tr[k], k) /\ k + 1 \in 1..n /\ (k + 1) - 1 = k
      BY <1>1, <1>4
    <2>2. tr[k + 1] = AddTemplate(tr[k], Templates[k + 1])
      BY <1>2, <2>1
    <2> QED
      BY <2>1, <2>2, AddStep
  <1> HIDE DEF P
  <1>5. Nat \subseteq P
    BY <1>3, <1>4, SetInduction
  <1>6. KnownOK(Layout, n)
    BY <1>1, <1>2, <1>5 DEF P
  <1>7. \A j \in 1..n : Templates[j].name \notin DOMAIN AtomicSize
    BY TemplatesAssumption
  <1> QED
    BY <1>6, <1>7 DEF KnownOK

---------------------------------------------------------------------------
\* The walker.

\* span[k] elements differ in the dimensions after the k-th only.
Spans(span, dims) ==
  /\ span \in [0..Len(dims) -> Nat] /\ span[Len(dims)] = 1
  /\ \A k \in DOMAIN dims : span[k - 1] = dims[k] * span[k]

\* The elements that the dimensions left can still choose from lie in the buffer.
RoomLeft(t, at) ==
  \E span : /\ Spans(span, at.pending)
            /\ IF at.bools THEN at.offset = 0 /\ (at.running + 1) * span[0] <= Shape[t].size * ByteBits
               ELSE at.offset + ((at.running + 1) * span[0]) * at.elementSize <= Shape[t].size

\* The fields of a place.
IsPlace(at) ==
  /\ DOMAIN at = {"ok", "offset", "type", "elementSize", "bit", "tpl", "pending", "running",
                  "bools"}
  /\ at.ok \in BOOLEAN /\ at.bools \in BOOLEAN
  /\ at.offset \in Nat /\ at.elementSize \in Nat /\ at.running \in Nat
  /\ at.pending \in Seq(Nat \ {0})

\* A place that the walker comes through.
PlaceOK(t, at) ==
  /\ IsPlace(at)
  /\ at.tpl # NoTemplate => at.tpl \in DOMAIN Layout /\ Layout[at.tpl].size <= at.elementSize
  /\ at.bools => at.tpl = NoTemplate
  /\ at.bools \/ at.bit # NoBit => at.type = "BOOL"
  /\ at.pending = <<>> => at.running = 0
  /\ at.ok => IF at.bit = NoBit
              THEN RoomLeft(t, at) /\ (at.bools => at.pending # <<>>)
              ELSE at.pending = <<>> /\ at.bit \in Bits /\ at.offset < Shape[t].size

\* No place.
LEMMA FailedOK ==
  ASSUME NEW t
  PROVE  PlaceOK(t, Failed)
  <1>1. /\ Failed.ok = FALSE /\ Failed.bools = FALSE /\ Failed.offset = 0
        /\ Failed.elementSize = 0 /\ Failed.running = 0 /\ Failed.pending = <<>>
        /\ Failed.tpl = NoTemplate /\ Failed.bit = NoBit
    BY Zenon DEF Failed
  <1>2. DOMAIN Failed = {"ok", "offset", "type", "elementSize", "bit", "tpl", "pending",
                         "running", "bools"}
    BY DEF Failed
  <1>3. <<>> \in Seq(Nat \ {0})
    OBVIOUS
  <1>4. IsPlace(Failed)
    <2>1. FALSE \in BOOLEAN /\ 0 \in Nat
      OBVIOUS
    <2> QED
      BY <1>1, <1>2, <1>3, <2>1, Zenon DEF IsPlace
  <1> QED
    BY <1>1, <1>4 DEF PlaceOK

\* The whole tag.
LEMMA RootOK ==
  ASSUME NEW t \in Tags
  PROVE  PlaceOK(t, Root(t))
  <1> DEFINE s == Shape[t]
             r == Root(t)
             b == s.type = "BOOL" /\ s.dims # <<>>
  <1>1. /\ r.ok = TRUE /\ r.offset = 0 /\ r.type = s.type /\ r.elementSize = s.elementSize
        /\ r.bit = NoBit /\ r.tpl = s.tpl /\ r.pending = s.dims /\ r.running = 0
        /\ r.bools = b
    BY DEF Root, Failed
  <1>10. DOMAIN r = {"ok", "offset", "type", "elementSize", "bit", "tpl", "pending",
                     "running", "bools"}
    BY DEF Root, Failed
  <1>2. /\ s.size \in Nat /\ s.elementSize \in Nat /\ s.dims \in Seq(Nat \ {0}) /\ HasRoom(s)
        /\ s.tpl # NoTemplate => /\ s.tpl \in DOMAIN Layout /\ s.type # "BOOL"
                                 /\ Layout[s.tpl].size <= s.elementSize
    BY ShapeAssumption DEF Tags
  <1> HIDE DEF r, s
  <1>3. PICK span \in [0..Len(s.dims) -> 0..(s.size * ByteBits)] :
          /\ span[Len(s.dims)] = 1
          /\ \A k \in DOMAIN s.dims : span[k - 1] = s.dims[k] * span[k]
          /\ b \/ span[0] * s.elementSize <= s.size
    BY <1>2 DEF HasRoom
  <1>4. ByteBits \in Nat /\ s.size * ByteBits \in Nat
    BY <1>2, TemplatesAssumption
  <1>5. span[0] \in Nat /\ span[0] <= s.size * ByteBits /\ (0 + 1) * span[0] = span[0]
    <2>1. 0 \in 0..Len(s.dims)
      BY <1>2
    <2> QED
      BY <1>3, <1>4, <2>1
  <1>6. Spans(span, s.dims)
    BY <1>3, <1>4 DEF Spans
  <1>7. RoomLeft(t, r)
    <2>1. IF b THEN r.offset = 0 /\ (r.running + 1) * span[0] <= s.size * ByteBits
          ELSE r.offset + ((r.running + 1) * span[0]) * r.elementSize <= s.size
      <3> DEFINE area == span[0] * s.elementSize
      <3>1. area \in Nat /\ (b \/ area <= s.size) /\ ((0 + 1) * span[0]) * s.elementSize = area
        BY <1>2, <1>3, <1>5
      <3> HIDE DEF area, b
      <3> QED
        BY <1>1, <1>5, <3>1
    <2> QED
      BY <1>1, <1>6, <2>1, Zenon DEF RoomLeft, s
  <1> HIDE DEF b
  <1>8. b => s.tpl = NoTemplate /\ s.dims # <<>> /\ s.type = "BOOL"
    BY <1>2 DEF b
  <1>9. b \in BOOLEAN
    BY DEF b
  <1>11. IsPlace(r)
    <2>1. TRUE \in BOOLEAN /\ 0 \in Nat
      OBVIOUS
    <2> QED
      BY <1>1, <1>2, <1>9, <1>10, <2>1, Zenon DEF IsPlace
  <1> QED
    BY <1>1, <1>2, <1>7, <1>8, <1>11 DEF PlaceOK, r, s

\* There is room for the elements of a member, or for the one.
LEMMA ArrayRoom ==
  ASSUME NEW t, NEW at, NEW m, m.arraySize \in Nat, at.pending = ArrayOf(m), at.running = 0,
         ~at.bools, at.offset \in Nat, at.elementSize \in Nat, Shape[t].size \in Nat,
         at.offset + at.elementSize <= Shape[t].size,
         at.offset + m.arraySize * at.elementSize <= Shape[t].size
  PROVE  RoomLeft(t, at) /\ at.pending \in Seq(Nat \ {0})
  <1>1. CASE m.arraySize > 0
    <2> DEFINE span == [k \in 0..1 |-> IF k = 0 THEN m.arraySize ELSE 1]
    <2>1. at.pending = <<m.arraySize>>
      BY <1>1 DEF ArrayOf
    <2>2. Spans(span, at.pending) /\ span[0] = m.arraySize
      BY <1>1, <2>1 DEF Spans
    <2> HIDE DEF span
    <2>3. ((0 + 1) * span[0]) * at.elementSize = m.arraySize * at.elementSize
      BY <2>2
    <2> QED
      BY <1>1, <2>1, <2>2, <2>3 DEF RoomLeft
  <1>2. CASE ~(m.arraySize > 0)
    <2> DEFINE span == [k \in 0..0 |-> 1]
    <2>1. at.pending = <<>>
      BY <1>2 DEF ArrayOf
    <2>2. Spans(span, at.pending) /\ span[0] = 1
      BY <2>1 DEF Spans
    <2> HIDE DEF span
    <2>3. ((0 + 1) * span[0]) * at.elementSize = at.elementSize
      BY <2>2
    <2> QED
      BY <2>1, <2>2, <2>3 DEF RoomLeft
  <1> QED
    BY <1>1, <1>2

\* A member of the structure reached: a bit of it, a structure in it, or an atomic.
LEMMA DrillOK ==
  ASSUME NEW t \in Tags, NEW at, PlaceOK(t, at), at.ok, at.bit = NoBit, at.pending = <<>>,
         NEW n, HasMember(at.tpl, n)
  PROVE  PlaceOK(t, Drill(at, n))
  <1> DEFINE m == Layout[at.tpl].member[n]
             d == Drill(at, n)
  <1>1. at.tpl # NoTemplate /\ n \in DOMAIN Layout[at.tpl].member
    BY DEF HasMember
  <1>2. /\ at.tpl \in DOMAIN Layout /\ Layout[at.tpl].size <= at.elementSize /\ ~at.bools
        /\ at.offset \in Nat /\ at.elementSize \in Nat /\ at.running = 0
    BY <1>1 DEF PlaceOK, IsPlace
  <1>3. Layout[at.tpl].size \in Nat /\ MemberOK(Layout, Layout[at.tpl].size, m)
    BY <1>1, <1>2, LayoutOK DEF TemplateOK
  <1>4. at.offset + at.elementSize <= Shape[t].size
    <2>1. PICK span : /\ Spans(span, at.pending)
            /\ IF at.bools THEN at.offset = 0 /\ (at.running + 1) * span[0] <= Shape[t].size * ByteBits
               ELSE at.offset + ((at.running + 1) * span[0]) * at.elementSize <= Shape[t].size
      BY DEF PlaceOK, RoomLeft
    <2>2. span[0] = 1
      BY <2>1 DEF Spans
    <2> QED
      BY <1>2, <2>1, <2>2
  <1>5. /\ m.offset \in Nat /\ m.elementSize \in Nat /\ m.arraySize \in Nat
        /\ m.offset + m.elementSize <= at.elementSize
        /\ \/ m.type = "BOOL" /\ m.elementSize = 0 /\ m.arraySize \in Bits
              /\ m.offset < at.elementSize
           \/ /\ \/ m.type \in DOMAIN AtomicSize /\ m.elementSize = AtomicSize[m.type]
                 \/ /\ m.type \notin DOMAIN AtomicSize /\ m.type \in DOMAIN Layout
                    /\ m.elementSize = Layout[m.type].size
              /\ m.offset + m.arraySize * m.elementSize <= at.elementSize
    <2> DEFINE limit == Layout[at.tpl].size
               room  == m.arraySize * m.elementSize
    <2>1. limit \in Nat /\ limit <= at.elementSize /\ MemberOK(Layout, limit, m)
      BY <1>2, <1>3
    <2> HIDE DEF m, limit
    <2>2. m.offset \in Nat /\ m.elementSize \in Nat /\ m.arraySize \in Nat
      BY <2>1 DEF MemberOK
    <2>3. room \in Nat
      BY <2>2
    <2> DEFINE scalar == m.type = "BOOL" /\ m.elementSize = 0 /\ m.arraySize \in Bits
               atomic == m.type \in DOMAIN AtomicSize /\ m.elementSize = AtomicSize[m.type]
               nested == /\ m.type \notin DOMAIN AtomicSize /\ m.type \in DOMAIN Layout
                         /\ m.elementSize = Layout[m.type].size
    <2>4. /\ m.offset + m.elementSize <= limit
          /\ (scalar /\ m.offset < limit) \/ ((atomic \/ nested) /\ m.offset + room <= limit)
      BY <2>1, Zenon DEF MemberOK
    <2>5. /\ m.offset + m.elementSize <= at.elementSize
          /\ m.offset < limit => m.offset < at.elementSize
          /\ m.offset + room <= limit => m.offset + room <= at.elementSize
      <3> HIDE DEF room, scalar, atomic, nested
      <3> QED
        BY <1>2, <2>1, <2>2, <2>3, <2>4
    <2> QED
      BY <2>2, <2>4, <2>5, Zenon
  <1>6. Shape[t].size \in Nat
    BY ShapeAssumption DEF Tags
  <1>7. m.type \in DOMAIN Layout => m.type \notin DOMAIN AtomicSize /\ Layout[m.type].size \in Nat
    BY LayoutOK DEF TemplateOK
  <1>8. \A a \in DOMAIN AtomicSize : AtomicSize[a] \in Nat \ {0}
    BY TemplatesAssumption
  <1>9. IsPlace(at)
    BY DEF PlaceOK
  <1> DEFINE scalar == m.type = "BOOL" /\ m.elementSize = 0
             nested == m.type \in DOMAIN Layout
             here   == [at EXCEPT !.offset = @ + m.offset, !.type = m.type, !.tpl = NoTemplate]
             array  == [here EXCEPT !.pending = ArrayOf(m), !.running = 0]
             size   == IF m.elementSize > 0 THEN m.elementSize ELSE AtomicSize[m.type]
  <1>10. d = IF scalar THEN [here EXCEPT !.bit = m.arraySize, !.elementSize = 1]
             ELSE IF nested THEN [array EXCEPT !.elementSize = Layout[m.type].size, !.tpl = m.type]
             ELSE [array EXCEPT !.elementSize = size]
    BY Zenon DEF Drill
  <1> HIDE DEF m, d
  <1>11. CASE scalar
    <2>1. /\ d.ok = at.ok /\ d.bools = at.bools /\ d.pending = at.pending
          /\ d.running = at.running /\ d.offset = at.offset + m.offset /\ d.elementSize = 1
          /\ d.tpl = NoTemplate /\ d.bit = m.arraySize /\ DOMAIN d = DOMAIN at
          /\ d.type = "BOOL"
      BY <1>9, <1>10, <1>11 DEF IsPlace
    <2>2. m.arraySize \in Bits /\ m.offset < at.elementSize
      BY <1>5, <1>8, <1>11, TemplatesAssumption
    <2>3. m.arraySize # NoBit
      BY <2>2, ShapeAssumption, TemplatesAssumption DEF Bits
    <2> HIDE DEF scalar, here
    <2>4. d.offset \in Nat /\ d.offset < Shape[t].size
      BY <1>2, <1>4, <1>5, <1>6, <2>1, <2>2
    <2>5. IsPlace(d)
      BY <1>9, <2>1, <2>4 DEF IsPlace
    <2>6. PlaceOK(t, d)
      BY <1>2, <2>1, <2>2, <2>3, <2>4, <2>5, Zenon DEF PlaceOK
    <2> QED
      BY <2>6 DEF d
  <1>12. CASE ~scalar
    <2> DEFINE e == IF nested THEN Layout[m.type].size ELSE size
    <2>1. /\ d.ok = at.ok /\ d.bools = at.bools /\ d.pending = ArrayOf(m)
          /\ d.running = 0 /\ d.offset = at.offset + m.offset /\ d.elementSize = e
          /\ d.tpl = (IF nested THEN m.type ELSE NoTemplate) /\ d.bit = at.bit
          /\ DOMAIN d = DOMAIN at
      <3>1. CASE nested
        <4> HIDE DEF scalar, nested
        <4> QED
          BY <1>9, <1>10, <1>12, <3>1 DEF IsPlace
      <3>2. CASE ~nested
        <4> HIDE DEF scalar, nested, size
        <4> QED
          BY <1>9, <1>10, <1>12, <3>2 DEF IsPlace
      <3> QED
        BY <3>1, <3>2
    <2>2. e = m.elementSize /\ m.offset + m.arraySize * m.elementSize <= at.elementSize
      BY <1>5, <1>7, <1>8, <1>12
    <2> HIDE DEF scalar, e, size, here, array
    <2> DEFINE room == m.arraySize * e
    <2>3. room \in Nat /\ m.offset + room <= at.elementSize /\ e \in Nat
      BY <1>5, <2>2
    <2>4. RoomLeft(t, d) /\ d.pending \in Seq(Nat \ {0})
      <3>1. /\ d.offset \in Nat /\ d.elementSize \in Nat /\ d.offset + d.elementSize <= Shape[t].size
            /\ d.offset + room <= Shape[t].size /\ room = m.arraySize * d.elementSize
        <4> HIDE DEF room
        <4>1. /\ d.offset \in Nat /\ d.elementSize \in Nat
              /\ d.offset + d.elementSize <= Shape[t].size
              /\ d.offset + room <= Shape[t].size
          <5>1. /\ at.offset \in Nat /\ at.elementSize \in Nat /\ m.offset \in Nat
                /\ m.offset + e <= at.elementSize
            BY <1>2, <1>5, <2>2
          <5> QED
            BY <1>4, <1>6, <2>1, <2>3, <5>1, SMTT(30)
        <4> QED
          BY <2>1, <4>1 DEF room
      <3> HIDE DEF room
      <3> QED
        BY <1>2, <1>5, <1>6, <2>1, <3>1, ArrayRoom
    <2>5. nested => Layout[m.type].size = e
      BY DEF e
    <2>6. IsPlace(d)
      BY <1>2, <1>5, <1>9, <2>1, <2>3, <2>4, SMTT(30) DEF IsPlace
    <2>7. d.tpl # NoTemplate => d.tpl \in DOMAIN Layout /\ Layout[d.tpl].size <= d.elementSize
      BY <2>1, <2>3, <2>5
    <2>8. d.bit = NoBit /\ ~d.bools /\ d.running = 0
      BY <1>2, <2>1
    <2>9. /\ d.bools => d.tpl = NoTemplate
          /\ d.pending = <<>> => d.running = 0
          /\ d.bools => d.pending # <<>>
          /\ d.bools \/ d.bit # NoBit => d.type = "BOOL"
      BY <2>8
    <2>10. PlaceOK(t, d)
      BY <2>4, <2>6, <2>7, <2>8, <2>9, Zenon DEF PlaceOK
    <2> QED
      BY <2>10 DEF d
  <1> QED
    BY <1>11, <1>12 DEF d

\* An index that is in the range of its dimension leaves room for the dimensions after it;
\* after the last one it is an element, or a bit of the elements.
LEMMA ElementOK ==
  ASSUME NEW t \in Tags, NEW at, PlaceOK(t, at), at.ok, at.bit = NoBit, at.pending # <<>>,
         NEW i \in Nat, i < Head(at.pending)
  PROVE  PlaceOK(t, Element(at, i))
  <1> DEFINE dims    == at.pending
             left    == Tail(dims)
             running == at.running * Head(dims) + i
             rest    == [at EXCEPT !.pending = Tail(@), !.running = running]
             done    == [rest EXCEPT !.running = 0]
             d       == Element(at, i)
  <1>1. /\ at.offset \in Nat /\ at.elementSize \in Nat /\ at.running \in Nat
        /\ at.pending \in Seq(Nat \ {0}) /\ IsPlace(at)
        /\ at.bools => at.tpl = NoTemplate /\ at.type = "BOOL"
        /\ at.tpl # NoTemplate => at.tpl \in DOMAIN Layout /\ Layout[at.tpl].size <= at.elementSize
    BY DEF PlaceOK, IsPlace
  <1>2. /\ Head(dims) \in Nat \ {0} /\ left \in Seq(Nat \ {0}) /\ Len(left) = Len(dims) - 1
        /\ Len(dims) \in Nat \ {0} /\ Head(dims) = dims[1] /\ 1 \in DOMAIN dims
        /\ \A k \in 1..Len(left) : left[k] = dims[k + 1] /\ k + 1 \in DOMAIN dims
        /\ DOMAIN left = 1..Len(left) /\ DOMAIN dims = 1..Len(dims) /\ i < Head(dims)
    BY <1>1
  <1>3. PICK span : /\ Spans(span, dims)
          /\ IF at.bools THEN at.offset = 0 /\ (at.running + 1) * span[0] <= Shape[t].size * ByteBits
             ELSE at.offset + ((at.running + 1) * span[0]) * at.elementSize <= Shape[t].size
    BY DEF PlaceOK, RoomLeft
  <1> DEFINE tail == [k \in 0..Len(left) |-> span[k + 1]]
  <1>4. /\ span[0] \in Nat /\ span[1] \in Nat /\ span[0] = Head(dims) * span[1]
    <2> HIDE DEF dims, left
    <2>1. 0 \in 0..Len(dims) /\ 1 \in 0..Len(dims) /\ 1 - 1 = 0
      BY <1>2
    <2> QED
      BY <1>2, <1>3, <2>1 DEF Spans
  <1>5. Spans(tail, left) /\ tail[0] = span[1]
    <2> HIDE DEF dims, left
    <2>1. /\ span \in [0..Len(dims) -> Nat] /\ span[Len(dims)] = 1
          /\ \A k \in DOMAIN dims : span[k - 1] = dims[k] * span[k]
      BY <1>3 DEF Spans
    <2>2. \A k \in 0..Len(left) : k + 1 \in 0..Len(dims) /\ tail[k] = span[k + 1]
      BY <1>2
    <2>3. tail \in [0..Len(left) -> Nat] /\ 0 \in 0..Len(left) /\ Len(left) \in 0..Len(left)
      BY <1>2, <2>1, <2>2
    <2> HIDE DEF tail
    <2>4. tail[Len(left)] = 1 /\ tail[0] = span[1]
      BY <1>2, <2>1, <2>2, <2>3
    <2>5. ASSUME NEW k \in 1..Len(left)
          PROVE  tail[k - 1] = left[k] * tail[k]
      <3>1. k - 1 \in 0..Len(left) /\ k \in 0..Len(left) /\ (k - 1) + 1 = k /\ (k + 1) - 1 = k
        BY <1>2
      <3>2. tail[k - 1] = span[k] /\ tail[k] = span[k + 1] /\ left[k] = dims[k + 1]
        BY <1>2, <2>2, <3>1
      <3>3. span[(k + 1) - 1] = dims[k + 1] * span[k + 1]
        BY <1>2, <2>1
      <3> QED
        BY <3>1, <3>2, <3>3
    <2> QED
      BY <1>2, <2>3, <2>4, <2>5 DEF Spans
  <1> HIDE DEF dims, left, tail
  <1>6. running \in Nat /\ running + 1 <= (at.running + 1) * Head(dims)
    <2> DEFINE h == Head(dims)
               a == at.running * h
    <2>1. a \in Nat /\ (at.running + 1) * h = a + h /\ h \in Nat /\ i + 1 <= h
      <3> DEFINE n == at.running
      <3>1. n \in Nat /\ h \in Nat /\ i + 1 <= h
        BY <1>1, <1>2
      <3> HIDE DEF n, h
      <3>2. n * h \in Nat /\ (n + 1) * h = n * h + h
        BY <3>1
      <3> QED
        BY <3>1, <3>2 DEF n
    <2>2. running = a + i
      OBVIOUS
    <2> HIDE DEF h, a, running
    <2>3. running \in Nat /\ running + 1 <= (at.running + 1) * h
      BY <2>1, <2>2
    <2> QED
      BY <2>3 DEF h
  <1> HIDE DEF running
  <1> DEFINE more == (running + 1) * span[1]
             had  == (at.running + 1) * span[0]
  <1>7. more \in Nat /\ had \in Nat /\ more <= had
    <2> DEFINE h == (at.running + 1) * Head(dims)
    <2>1. h \in Nat /\ had = h * span[1]
      <3> DEFINE a == at.running + 1
                 b == Head(dims)
                 c == span[1]
      <3>1. a \in Nat /\ b \in Nat /\ c \in Nat /\ span[0] = b * c
        BY <1>1, <1>2, <1>4
      <3>2. h = a * b /\ had = a * span[0]
        OBVIOUS
      <3> HIDE DEF a, b, c, h, had
      <3>3. h \in Nat /\ had = h * c
        BY <3>1, <3>2
      <3> QED
        BY <3>3 DEF c
    <2>2. running + 1 <= h
      BY <1>6
    <2> HIDE DEF h, had
    <2>3. (running + 1) * span[1] <= h * span[1] /\ (running + 1) * span[1] \in Nat
      BY <1>4, <1>6, <2>1, <2>2
    <2> QED
      BY <1>4, <2>1, <2>3
  <1>8. IF at.bools THEN at.offset = 0 /\ more <= Shape[t].size * ByteBits
        ELSE at.offset + more * at.elementSize <= Shape[t].size
    <2>1. more * at.elementSize \in Nat /\ had * at.elementSize \in Nat
          /\ more * at.elementSize <= had * at.elementSize
      <3> HIDE DEF more, had
      <3> QED
        BY <1>1, <1>7, SMTT(30)
    <2>2. Shape[t].size \in Nat /\ ByteBits \in Nat \ {0} /\ Shape[t].size * ByteBits \in Nat
      BY ShapeAssumption, TemplatesAssumption DEF Tags
    <2>3. IF at.bools THEN at.offset = 0 /\ had <= Shape[t].size * ByteBits
          ELSE at.offset + had * at.elementSize <= Shape[t].size
      BY <1>3
    <2> DEFINE a == more * at.elementSize
               b == had * at.elementSize
               c == Shape[t].size * ByteBits
    <2> HIDE DEF more, had, a, b, c
    <2>4. IF at.bools THEN at.offset = 0 /\ more <= c ELSE at.offset + a <= Shape[t].size
      <3>1. a \in Nat /\ b \in Nat /\ a <= b /\ c \in Nat /\ Shape[t].size \in Nat
        BY <2>1, <2>2 DEF a, b, c
      <3>2. IF at.bools THEN at.offset = 0 /\ had <= c ELSE at.offset + b <= Shape[t].size
        BY <2>3 DEF b, c
      <3> QED
        BY <1>1, <1>7, <3>1, <3>2
    <2> QED
      BY <2>4 DEF a, c
  <1> HIDE DEF had
  <1>9. /\ rest.ok = at.ok /\ rest.bools = at.bools /\ rest.pending = left
        /\ rest.running = running /\ rest.offset = at.offset
        /\ rest.elementSize = at.elementSize /\ rest.tpl = at.tpl /\ rest.bit = at.bit
        /\ rest.type = at.type /\ DOMAIN rest = DOMAIN at
    BY <1>1 DEF IsPlace, left, dims
  <1>10. d = IF rest.pending # <<>> THEN rest
             ELSE IF at.bools THEN [done EXCEPT !.offset = @ + running \div ByteBits,
                                                !.bit = running % ByteBits]
             ELSE [done EXCEPT !.offset = @ + running * at.elementSize]
    BY Zenon DEF Element, running, dims
  <1> HIDE DEF rest
  <1>11. CASE left # <<>>
    <2>1. d = rest
      BY <1>9, <1>10, <1>11
    <2>2. RoomLeft(t, rest)
      BY <1>5, <1>8, <1>9 DEF RoomLeft, more
    <2>3. IsPlace(rest)
      BY <1>1, <1>2, <1>6, <1>9 DEF IsPlace
    <2>4. PlaceOK(t, rest)
      BY <1>1, <1>9, <1>11, <2>2, <2>3, Zenon DEF PlaceOK
    <2> QED
      BY <2>1, <2>4 DEF d
  <1>12. CASE left = <<>> /\ at.bools
    <2>1. /\ d.ok = at.ok /\ d.bools = at.bools /\ d.pending = left
          /\ d.running = 0 /\ d.offset = at.offset + running \div ByteBits
          /\ d.elementSize = at.elementSize /\ d.tpl = at.tpl /\ d.bit = running % ByteBits
          /\ d.type = at.type
          /\ DOMAIN d = DOMAIN at
      <3> HIDE DEF d
      <3> QED
        BY <1>1, <1>9, <1>10, <1>12 DEF IsPlace
    <2>2. span[1] = 1
      BY <1>2, <1>3, <1>12 DEF Spans
    <2>3. ByteBits \in Nat \ {0} /\ Shape[t].size \in Nat /\ at.offset = 0
          /\ running + 1 <= Shape[t].size * ByteBits
      BY <1>6, <1>8, <1>12, <2>2, ShapeAssumption, TemplatesAssumption DEF Tags, more
    <2>4. running \div ByteBits < Shape[t].size /\ running \div ByteBits \in Nat
          /\ running % ByteBits \in Bits
      <3> DEFINE q == running \div ByteBits
                 r == running % ByteBits
      <3>1. q \in Nat /\ r \in 0..(ByteBits - 1) /\ running = q * ByteBits + r
        BY <1>6, <2>3
      <3> HIDE DEF q, r
      <3>2. ~(q >= Shape[t].size)
        <4> SUFFICES ASSUME q >= Shape[t].size PROVE FALSE
          OBVIOUS
        <4>1. q * ByteBits >= Shape[t].size * ByteBits
          BY <2>3, <3>1
        <4> QED
          BY <1>6, <2>3, <3>1, <4>1
      <3>3. q < Shape[t].size /\ q \in Nat /\ r \in Bits
        BY <2>3, <3>1, <3>2 DEF Bits
      <3> QED
        BY <3>3 DEF q, r
    <2> HIDE DEF d
    <2>5. d.offset \in Nat /\ d.offset < Shape[t].size /\ d.bit \in Bits
      BY <2>1, <2>3, <2>4
    <2>6. d.bit # NoBit
      BY <2>3, <2>5, ShapeAssumption DEF Bits
    <2>7. IsPlace(d)
      BY <1>1, <1>2, <2>1, <2>5 DEF IsPlace
    <2>8. PlaceOK(t, d)
      BY <1>1, <1>12, <2>1, <2>5, <2>6, <2>7, Zenon DEF PlaceOK
    <2> QED
      BY <2>8 DEF d
  <1>13. CASE left = <<>> /\ ~at.bools
    <2> DEFINE step == running * at.elementSize
    <2>1. /\ d.ok = at.ok /\ d.bools = at.bools /\ d.pending = left
          /\ d.running = 0 /\ d.offset = at.offset + step
          /\ d.elementSize = at.elementSize /\ d.tpl = at.tpl /\ d.bit = at.bit
          /\ d.type = at.type
          /\ DOMAIN d = DOMAIN at
      <3> HIDE DEF d, step
      <3>1. d = [done EXCEPT !.offset = @ + step]
        BY <1>9, <1>10, <1>13, Zenon DEF step
      <3> QED
        BY <1>1, <1>9, <3>1 DEF IsPlace
    <2>2. span[1] = 1
      BY <1>2, <1>3, <1>13 DEF Spans
    <2>3. step \in Nat /\ more * at.elementSize = step + at.elementSize
      <3>1. \A a, b \in Nat : ((a + 1) * 1) * b = a * b + b /\ a * b \in Nat
        OBVIOUS
      <3> QED
        BY <1>1, <1>6, <2>2, <3>1 DEF more
    <2>4. at.offset + more * at.elementSize <= Shape[t].size
      BY <1>8, <1>13
    <2> HIDE DEF d, step
    <2>5. d.offset \in Nat /\ d.offset + ((0 + 1) * 1) * d.elementSize <= Shape[t].size
      <3>1. Shape[t].size \in Nat
        BY ShapeAssumption DEF Tags
      <3>2. d.offset \in Nat /\ d.offset + d.elementSize <= Shape[t].size
        BY <1>1, <2>1, <2>3, <2>4, <3>1
      <3> QED
        BY <1>1, <2>1, <3>2
    <2>6. RoomLeft(t, d)
      <3> DEFINE one == [k \in 0..0 |-> 1]
      <3>1. Spans(one, left) /\ one[0] = 1
        BY <1>13 DEF Spans
      <3> HIDE DEF one
      <3> QED
        BY <1>13, <2>1, <2>5, <3>1 DEF RoomLeft
    <2>7. IsPlace(d)
      BY <1>1, <1>2, <2>1, <2>5 DEF IsPlace
    <2>8. PlaceOK(t, d)
      BY <1>1, <1>13, <2>1, <2>6, <2>7, Zenon DEF PlaceOK
    <2> QED
      BY <2>8 DEF d
  <1> QED
    BY <1>11, <1>12, <1>13

\* One segment of a path.
Segment == [kind : {"symbolic", "element"}, name : STRING, index : Nat]

\* A step of the walker keeps the place inside the tag, or fails.
LEMMA StepOK ==
  ASSUME NEW t \in Tags, NEW at, PlaceOK(t, at), NEW seg \in Segment
  PROVE  PlaceOK(t, Step(at, seg))
  <1> DEFINE legal == /\ at.ok
                      /\ at.bit = NoBit
                      /\ IF seg.kind = "symbolic"
                         THEN at.pending = <<>> /\ HasMember(at.tpl, seg.name)
                         ELSE at.pending # <<>> /\ seg.index < Head(at.pending)
  <1>1. seg.index \in Nat
    BY DEF Segment
  <1>2. CASE ~legal
    <2>1. Step(at, seg) = Failed
      BY <1>2, Zenon DEF Step
    <2> QED
      BY <2>1, FailedOK
  <1>3. CASE legal /\ seg.kind = "symbolic"
    <2>1. Step(at, seg) = Drill(at, seg.name)
      BY <1>3, Zenon DEF Step
    <2> QED
      BY <1>3, <2>1, DrillOK
  <1>4. CASE legal /\ seg.kind # "symbolic"
    <2>1. Step(at, seg) = Element(at, seg.index)
      BY <1>4, Zenon DEF Step
    <2> QED
      BY <1>1, <1>4, <2>1, ElementOK
  <1> QED
    BY <1>2, <1>3, <1>4

\* Where the walk of a path ends.
LEMMA WalkPlace ==
  ASSUME NEW t \in Tags, NEW segments \in Seq(Segment)
  PROVE  PlaceOK(t, Walk(t, segments)) /\ Walk(t, segments).pending = <<>>
  <1> DEFINE n == Len(segments)
             at == FoldLeft(Step, Root(t), segments)
  <1>1. n \in Nat /\ DOMAIN segments = 1..n
    OBVIOUS
  <1>2. PICK tr : /\ tr[0] = Root(t)
                  /\ \A k \in 1..n : tr[k] = Step(tr[k - 1], segments[k])
                  /\ tr[n] = at
    BY <1>1, WalkTrace
  <1> DEFINE P == {k \in Nat : k <= n => PlaceOK(t, tr[k])}
  <1>3. 0 \in P
    BY <1>2, RootOK
  <1>4. ASSUME NEW k \in Nat, k \in P
        PROVE  k + 1 \in P
    <2> SUFFICES ASSUME k + 1 <= n
                 PROVE  PlaceOK(t, tr[k + 1])
      OBVIOUS
    <2>1. PlaceOK(t, tr[k]) /\ k + 1 \in 1..n /\ (k + 1) - 1 = k
      BY <1>1, <1>4
    <2>2. tr[k + 1] = Step(tr[k], segments[k + 1])
      BY <1>2, <2>1
    <2>3. segments[k + 1] \in Segment
      BY <2>1, ElementOfSeq
    <2> QED
      BY <2>1, <2>2, <2>3, StepOK
  <1> HIDE DEF P
  <1>5. Nat \subseteq P
    BY <1>3, <1>4, SetInduction
  <1>6. n \in P
    BY <1>1, <1>5
  <1>7. PlaceOK(t, at)
    BY <1>1, <1>2, <1>6 DEF P
  <1>8. Walk(t, segments) = IF at.pending = <<>> THEN at ELSE Failed
    BY Zenon DEF Walk
  <1>9. Failed.pending = <<>>
    BY DEF Failed
  <1> HIDE DEF at
  <1> QED
    BY <1>7, <1>8, <1>9, FailedOK

\* A place inside a tag: an element of it, or a bit of one of its bytes.
Inside(t, w) ==
  /\ w.offset \in Nat /\ w.elementSize \in Nat
  /\ IF w.bit = NoBit THEN w.offset + w.elementSize <= Shape[t].size
     ELSE w.bit \in Bits /\ w.offset < Shape[t].size

\* A path that the walker accepts ends inside the buffer of the tag, through whatever
\* structures, arrays of them and arrays of BOOL it goes (walk).
THEOREM WalkStaysInside ==
  \A t \in Tags : \A segments \in Seq(Segment) :
    Walk(t, segments).ok => Inside(t, Walk(t, segments))
  <1> SUFFICES ASSUME NEW t \in Tags, NEW segments \in Seq(Segment), Walk(t, segments).ok
               PROVE  Inside(t, Walk(t, segments))
    OBVIOUS
  <1> DEFINE w == Walk(t, segments)
  <1>1. PlaceOK(t, w) /\ w.pending = <<>> /\ w.ok
    BY WalkPlace
  <1> HIDE DEF w
  <1>2. /\ w.offset \in Nat /\ w.elementSize \in Nat /\ w.running = 0
        /\ IF w.bit = NoBit THEN RoomLeft(t, w) /\ ~w.bools
           ELSE w.bit \in Bits /\ w.offset < Shape[t].size
    BY <1>1 DEF PlaceOK, IsPlace
  <1>3. ASSUME w.bit = NoBit
        PROVE  w.offset + w.elementSize <= Shape[t].size
    <2>1. PICK span : /\ Spans(span, w.pending)
            /\ w.offset + ((w.running + 1) * span[0]) * w.elementSize <= Shape[t].size
      BY <1>2, <1>3 DEF RoomLeft
    <2>2. span[0] = 1
      BY <1>1, <2>1 DEF Spans
    <2> QED
      BY <1>2, <2>1, <2>2
  <1> QED
    BY <1>2, <1>3 DEF Inside, w

---------------------------------------------------------------------------
\* The data of a request that goes on, o bytes after the first.
Chunk(r, q) ==
  LET o == r.offset - q.offset
  IN /\ o \in 0..Len(q.bytes) /\ r.bytes = ChunkFrom(q.bytes, o)
     /\ Len(q.bytes) <= ChunkBytes => o = 0

\* The request that a session has out, for request q of its transfer x.
RequestOK(x, r, q) ==
  /\ r \in Request
  /\ r.service = q.service /\ r.tag = q.tag /\ r.by = q.by /\ r.segments = q.segments
  /\ r.elem = q.elem /\ r.cut = q.cut /\ r.type = q.type /\ r.keep = q.keep
  /\ IF q.service = "WriteTagFragmented" THEN Chunk(r, q) ELSE r.bytes = q.bytes
  /\ q.by # "template" => r.count = q.count
  /\ x.rest # <<>> => r = q

PlanOf(r) == Dispatch(r, WalkedTo(r))

\* The first m answers of a packet.
AnswersTo(x, m) == [i \in 1..m |-> Answer(PlanOf(Requests(x)[i]))]

\* Where a handler is, given its plan; more says that the packet has another request.
StageOK(c, p, more) ==
  /\ c = "copyOut" => p.do \in {"read", "modify"}
  /\ c = "copyIn" => p.do \in {"write", "modify"}
  /\ c \in {"setBit", "storeByte"} => p.do = "bit"
  /\ c = "next" => more
  /\ c \in {"reply", "done"} => ~more

\* The handler's copy.
BufferOK(c, p, td, bf) ==
  /\ \A i \in DOMAIN bf : bf[i] \in Byte
  /\ c \in {"copyOut", "copyIn"} => DOMAIN bf \subseteq Bytes(p.at, p.len)
  /\ c = "copyIn" /\ p.do = "write" => bf = [i \in Bytes(p.at, p.len) |-> p.bytes[i - p.at + 1]]
  /\ c = "storeByte" => DOMAIN bf = {p.at}

Busy(x, m, r, c, p, td, bf) ==
  /\ RequestOK(x, r, Requests(x)[m + 1])
  /\ c \in PCs \ {"idle"}
  /\ c # "asked" => p = PlanOf(r) /\ StageOK(c, p, m < Len(x.rest))
  /\ BufferOK(c, p, td, bf)

Row(tr, r, c, p, td, bf, an, g) ==
  /\ td \subseteq Words(p.at, p.len)
  /\ IF tr = {}
     THEN c = "idle" /\ an = <<>> /\ g = <<>> /\ bf = <<>>
     ELSE \E x \in Transfers : \E m \in 0..Len(x.rest) :
            /\ tr = {x} /\ an = AnswersTo(x, m) /\ Busy(x, m, r, c, p, td, bf)
            /\ x.rest = <<>> => g \in Seq(Int)

Control(s) ==
  Row(transfer[s], request[s], pc[s], plan[s], todo[s], buffer[s], answers[s], got[s])

---------------------------------------------------------------------------
\* What the services decide.

Refused(p) == \E status : p = Refuse(status)

\* The early returns of a handler: none of them, or one.
LEMMA CheckedOK ==
  ASSUME NEW returns, Len(returns) \in Nat, NEW p
  PROVE  /\ (\A i \in 1..Len(returns) : ~returns[i][1]) => Checked(returns, p) = p
         /\ (\E i \in 1..Len(returns) : returns[i][1]) => Refused(Checked(returns, p))
  <1> DEFINE I   == {i \in 1..Len(returns) : returns[i][1]}
             hit == SelectInSeq(returns, LAMBDA r : r[1])
  <1>1. hit = IF I # {} THEN Min(I) ELSE 0
    BY Zenon DEF SelectInSeq
  <1>2. Checked(returns, p) = IF hit = 0 THEN p ELSE Refuse(returns[hit][2])
    BY Zenon DEF Checked
  <1> HIDE DEF hit
  <1>3. ASSUME I # {}
        PROVE  hit # 0
    <2>4. I \subseteq Nat
      OBVIOUS
    <2> HIDE DEF I
    <2>1. PICK x \in I : \A y \in I : x <= y
      BY <1>3, <2>4, LeastNumber
    <2>2. Min(I) \in I
      BY <2>1, Zenon DEF Min
    <2>3. \A i \in I : i # 0
      BY DEF I
    <2> QED
      BY <1>1, <1>3, <2>2, <2>3
  <1>4. (\A i \in 1..Len(returns) : ~returns[i][1]) => Checked(returns, p) = p
    BY <1>1, <1>2
  <1>5. (\E i \in 1..Len(returns) : returns[i][1]) => Refused(Checked(returns, p))
    BY <1>2, <1>3 DEF Refused
  <1> QED
    BY <1>4, <1>5

\* The first of two early returns that applies, or the plan.
LEMMA Checked2 ==
  ASSUME NEW a \in BOOLEAN, NEW b \in BOOLEAN, NEW x, NEW y, NEW p
  PROVE  /\ ~a /\ ~b => Checked(<< <<a, x>>, <<b, y>> >>, p) = p
         /\ a \/ b => Refused(Checked(<< <<a, x>>, <<b, y>> >>, p))
  <1> DEFINE r == << <<a, x>>, <<b, y>> >>
  <1>1. Len(r) = 2 /\ (r[1][1] <=> a) /\ (r[2][1] <=> b)
    OBVIOUS
  <1> HIDE DEF r
  <1>2. Len(r) \in Nat /\ 1..Len(r) = {1, 2}
    BY <1>1
  <1>3. /\ (\A i \in {1, 2} : ~r[i][1]) => Checked(r, p) = p
        /\ (\E i \in {1, 2} : r[i][1]) => Refused(Checked(r, p))
    BY <1>2, CheckedOK
  <1>4. /\ ~a /\ ~b => Checked(r, p) = p
        /\ a \/ b => Refused(Checked(r, p))
    BY <1>1, <1>3
  <1> QED
    BY <1>4 DEF r

\* The same of three ...
LEMMA Checked3 ==
  ASSUME NEW a \in BOOLEAN, NEW b \in BOOLEAN, NEW c \in BOOLEAN,
         NEW x, NEW y, NEW z, NEW p
  PROVE  /\ ~a /\ ~b /\ ~c => Checked(<< <<a, x>>, <<b, y>>, <<c, z>> >>, p) = p
         /\ a \/ b \/ c => Refused(Checked(<< <<a, x>>, <<b, y>>, <<c, z>> >>, p))
  <1> DEFINE r == << <<a, x>>, <<b, y>>, <<c, z>> >>
  <1>1. Len(r) = 3 /\ (r[1][1] <=> a) /\ (r[2][1] <=> b) /\ (r[3][1] <=> c)
    OBVIOUS
  <1> HIDE DEF r
  <1>2. Len(r) \in Nat /\ 1..Len(r) = {1, 2, 3}
    BY <1>1
  <1>3. /\ (\A i \in {1, 2, 3} : ~r[i][1]) => Checked(r, p) = p
        /\ (\E i \in {1, 2, 3} : r[i][1]) => Refused(Checked(r, p))
    BY <1>2, CheckedOK
  <1>4. /\ ~a /\ ~b /\ ~c => Checked(r, p) = p
        /\ a \/ b \/ c => Refused(Checked(r, p))
    BY <1>1, <1>3
  <1> QED
    BY <1>4 DEF r

\* ... and of four.
LEMMA Checked4 ==
  ASSUME NEW a \in BOOLEAN, NEW b \in BOOLEAN, NEW c \in BOOLEAN, NEW d \in BOOLEAN,
         NEW x, NEW y, NEW z, NEW u, NEW p
  PROVE  /\ ~a /\ ~b /\ ~c /\ ~d =>
              Checked(<< <<a, x>>, <<b, y>>, <<c, z>>, <<d, u>> >>, p) = p
         /\ a \/ b \/ c \/ d =>
              Refused(Checked(<< <<a, x>>, <<b, y>>, <<c, z>>, <<d, u>> >>, p))
  <1> DEFINE r == << <<a, x>>, <<b, y>>, <<c, z>>, <<d, u>> >>
  <1>1. Len(r) = 4 /\ (r[1][1] <=> a) /\ (r[2][1] <=> b) /\ (r[3][1] <=> c) /\ (r[4][1] <=> d)
    OBVIOUS
  <1> HIDE DEF r
  <1>2. Len(r) \in Nat /\ 1..Len(r) = {1, 2, 3, 4}
    BY <1>1
  <1>3. /\ (\A i \in {1, 2, 3, 4} : ~r[i][1]) => Checked(r, p) = p
        /\ (\E i \in {1, 2, 3, 4} : r[i][1]) => Refused(Checked(r, p))
    BY <1>2, CheckedOK
  <1>4. /\ ~a /\ ~b /\ ~c /\ ~d => Checked(r, p) = p
        /\ a \/ b \/ c \/ d => Refused(Checked(r, p))
    BY <1>1, <1>3
  <1> QED
    BY <1>4 DEF r

\* A request as a client may send it.
WellFormed(r) ==
  /\ r \in Request
  /\ IF r.by = "template" THEN r.tag \in DOMAIN Layout /\ r.service = "TemplateRead"
     ELSE r.tag \in Tags
  /\ r.by = "name" => WalkedTo(r) = Walk(r.tag, r.segments)

\* Where a request leads: a bit of a byte of the tag, or a place with the size of an element.
LEMMA PlaceFacts ==
  ASSUME NEW r, WellFormed(r), r.by # "template"
  PROVE  /\ PlaceOf(r).offset \in Nat /\ PlaceOf(r).elementSize \in Nat
         /\ PlaceOf(r).ok \in BOOLEAN
         /\ PlaceOf(r).ok /\ IsBit(r) => /\ PlaceOf(r).bit \in Bits /\ PlaceOf(r).type = "BOOL"
                                         /\ PlaceOf(r).offset < Shape[r.tag].size
         /\ r.by = "name" /\ r.segments # <<>> => PlaceOf(r) = WalkedTo(r)
         /\ ~(r.by = "name" /\ r.segments # <<>>) =>
              /\ ~IsBit(r) /\ PlaceOf(r).ok /\ PlaceOf(r).type = Shape[r.tag].type
              /\ PlaceOf(r).elementSize = Shape[r.tag].elementSize
              /\ PlaceOf(r).offset =
                   (IF r.by = "instance" THEN r.elem ELSE 0) * Shape[r.tag].elementSize
  <1> DEFINE w == PlaceOf(r)
  <1>1. /\ r.tag \in Tags /\ r.elem \in Nat /\ r.segments \in Seq(Segment)
    BY DEF WellFormed, Request, Segment
  <1>2. CASE r.by = "name" /\ r.segments # <<>>
    <2>1. w = WalkedTo(r) /\ w = Walk(r.tag, r.segments)
      BY <1>2, Zenon DEF PlaceOf, WellFormed
    <2>2. PlaceOK(r.tag, w) /\ w.pending = <<>>
      BY <1>1, <2>1, WalkPlace
    <2> HIDE DEF w
    <2>3. /\ w.offset \in Nat /\ w.elementSize \in Nat /\ w.ok \in BOOLEAN
          /\ w.ok /\ w.bit # NoBit => /\ w.bit \in Bits /\ w.type = "BOOL"
                                      /\ w.offset < Shape[r.tag].size
      BY <2>2 DEF PlaceOK, IsPlace
    <2> QED
      BY <1>2, <2>1, <2>3 DEF w, IsBit
  <1>3. CASE ~(r.by = "name" /\ r.segments # <<>>)
    <2> DEFINE at == (IF r.by = "instance" THEN r.elem ELSE 0) * Shape[r.tag].elementSize
    <2>1. w = [Root(r.tag) EXCEPT !.offset = at]
      BY <1>3, Zenon DEF PlaceOf
    <2>2. at \in Nat
      BY <1>1, ShapeAssumption DEF Tags
    <2> HIDE DEF w, at
    <2>3. /\ w.offset = at /\ w.elementSize = Shape[r.tag].elementSize /\ w.ok = TRUE
          /\ w.bit = NoBit /\ w.type = Shape[r.tag].type
      BY <2>1 DEF Root, Failed
    <2>4. Shape[r.tag].elementSize \in Nat
      BY <1>1, ShapeAssumption DEF Tags
    <2> QED
      BY <1>3, <2>2, <2>3, <2>4 DEF w, at, IsBit
  <1> QED
    BY <1>2, <1>3

\* A path that the walker rejects is refused.
LEMMA DispatchFailed ==
  ASSUME NEW r, WellFormed(r), r.by = "name", r.segments # <<>>, ~PlaceOf(r).ok
  PROVE  Refused(PlanOf(r))
  <1>1. ~WalkedTo(r).ok
    BY PlaceFacts
  <1>2. PlanOf(r) = Refuse("0x05")
    BY <1>1, Zenon DEF PlanOf, Dispatch, DispatchViaWalker
  <1> QED
    BY <1>2 DEF Refused

Through(r) == r.by = "name" /\ r.segments # <<>>
Elem(r)    == IF r.by = "instance" THEN r.elem ELSE 0

\* A path that the walker accepts leads to the services on what it found ...
LEMMA DispatchThrough ==
  ASSUME NEW r, WellFormed(r), Through(r), PlaceOf(r).ok
  PROVE  PlanOf(r) = CASE r.service = "ReadTag"            -> ReadTagAt(r, PlaceOf(r))
                       [] r.service = "WriteTag"           -> WriteTagAt(r, PlaceOf(r))
                       [] r.service = "ReadTagFragmented"  -> ReadTagFragmentedAt(r, PlaceOf(r))
                       [] r.service = "WriteTagFragmented" -> WriteTagFragmentedAt(r, PlaceOf(r))
                       [] OTHER                            -> DispatchTagService(r, 0)
  <1>1. PlaceOf(r) = WalkedTo(r) /\ r.by = "name" /\ r.segments # <<>>
    BY PlaceFacts DEF Through
  <1> QED
    BY <1>1, Zenon DEF PlanOf, Dispatch, DispatchViaWalker

\* ... and any other one to those on a tag or one of its elements.
LEMMA DispatchTagged ==
  ASSUME NEW r, WellFormed(r), r.by # "template", ~Through(r)
  PROVE  PlanOf(r) = DispatchTagService(r, Elem(r))
  <1>1. r.by \in {"name", "instance", "template"}
    BY DEF WellFormed, Request
  <1>2. CASE r.by = "name"
    <2>1. PlanOf(r) = DispatchViaWalker(r, WalkedTo(r))
      BY <1>2, Zenon DEF PlanOf, Dispatch
    <2>2. r.segments = <<>> /\ Elem(r) = 0
      BY <1>2 DEF Through, Elem
    <2> QED
      BY <2>1, <2>2, Zenon DEF DispatchViaWalker
  <1>3. CASE r.by = "instance"
    <2>1. PlanOf(r) = DispatchTagService(r, r.elem)
      BY <1>3 DEF PlanOf, Dispatch
    <2> QED
      BY <1>3, <2>1 DEF Elem
  <1> QED
    BY <1>1, <1>2, <1>3

\* The numbers that a service compares.
LEMMA Numbers ==
  ASSUME NEW r, WellFormed(r), r.by # "template"
  PROVE  /\ r.cut \in BOOLEAN /\ r.count \in Nat /\ r.offset \in Nat
         /\ r.bytes \in Seq(Byte) /\ Len(r.bytes) \in Nat
         /\ r.keep \in Seq(Byte) /\ Len(r.keep) \in Nat
         /\ Total(r) \in Nat /\ Shape[r.tag].size \in Nat
         /\ PlaceOf(r).offset \in Nat /\ PlaceOf(r).ok \in BOOLEAN
         /\ ~Through(r) => /\ ~IsBit(r) /\ PlaceOf(r).ok /\ PlaceOf(r).type = Shape[r.tag].type
                           /\ Total(r) = r.count * Shape[r.tag].elementSize
                           /\ PlaceOf(r).offset = Elem(r) * Shape[r.tag].elementSize
  <1>1. /\ r.cut \in BOOLEAN /\ r.count \in Nat /\ r.offset \in Nat
        /\ r.bytes \in Seq(Byte) /\ r.keep \in Seq(Byte) /\ r.tag \in Tags
    BY DEF WellFormed, Request
  <1>2. Len(r.bytes) \in Nat /\ Len(r.keep) \in Nat
    BY <1>1
  <1>3. PlaceOf(r).elementSize \in Nat
    BY PlaceFacts
  <1>4. Total(r) \in Nat
    BY <1>1, <1>3 DEF Total
  <1>5. Shape[r.tag].size \in Nat
    BY <1>1, ShapeAssumption DEF Tags
  <1>6. PlaceOf(r).offset \in Nat /\ PlaceOf(r).ok \in BOOLEAN
    BY PlaceFacts
  <1>7. ~Through(r) => /\ ~IsBit(r) /\ PlaceOf(r).ok /\ PlaceOf(r).type = Shape[r.tag].type
                       /\ Total(r) = r.count * Shape[r.tag].elementSize
                       /\ PlaceOf(r).offset = Elem(r) * Shape[r.tag].elementSize
    BY PlaceFacts, Zenon DEF Through, Elem, Total
  <1> QED
    BY <1>1, <1>2, <1>4, <1>5, <1>6, <1>7, Zenon

\* What a request is lawful for, service by service.
LEMMA LawfulIs ==
  ASSUME NEW r, r.by # "template"
  PROVE  /\ r.service \in Reading => (Lawful(r) <=> ~r.cut /\ PlaceOf(r).ok /\ LawfulRead(r))
         /\ r.service \in Writing => (Lawful(r) <=> ~r.cut /\ PlaceOf(r).ok /\ LawfulWrite(r))
         /\ r.service = "ReadModifyWrite" =>
              (Lawful(r) <=> /\ ~r.cut /\ PlaceOf(r).ok
                             /\ Len(r.bytes) \in {1, 2, 4, 8, 12} /\ Len(r.keep) >= Len(r.bytes))
         /\ r.service \notin Reading \cup Writing \cup {"ReadModifyWrite"} => ~Lawful(r)
  BY DEF Lawful, Reading, Writing

\* Read Tag.
LEMMA ReadTagPlan ==
  ASSUME NEW r, WellFormed(r), r.by # "template", r.service = "ReadTag"
  PROVE  /\ ~Lawful(r) => Refused(PlanOf(r))
         /\ Lawful(r) /\ IsBit(r) => PlanOf(r) = BitOf(PlaceOf(r), "read", <<>>)
         /\ Lawful(r) /\ ~IsBit(r) =>
              PlanOf(r) = Whole(PlaceOf(r).offset, Total(r), PlaceOf(r).type)
  <1> DEFINE w    == PlaceOf(r)
             many == r.count # 1
             late == w.offset + Total(r) > Shape[r.tag].size
             bit  == BitOf(w, "read", <<>>)
             all  == Whole(w.offset, Total(r), w.type)
  <1>1. Lawful(r) <=> ~r.cut /\ w.ok /\ LawfulRead(r)
    BY LawfulIs DEF Reading
  <1>2. LawfulRead(r) <=> IF IsBit(r) THEN ~many ELSE ~late
    BY Numbers DEF LawfulRead, Fits
  <1>3. r.cut \in BOOLEAN /\ many \in BOOLEAN /\ late \in BOOLEAN
    BY Numbers
  <1> DEFINE returns1 == << <<r.cut, "0x13">>, <<many, "2105">> >>
             returns2 == << <<r.cut, "0x13">>, <<late, "2105">> >>
  <1>4. /\ ~r.cut /\ ~many => Checked(returns1, bit) = bit
        /\ r.cut \/ many => Refused(Checked(returns1, bit))
        /\ ~r.cut /\ ~late => Checked(returns2, all) = all
        /\ r.cut \/ late => Refused(Checked(returns2, all))
    <2> HIDE DEF many, late, bit, all
    <2> QED
      BY <1>3, Checked2
  <1>5. CASE Through(r) /\ ~w.ok
    BY <1>1, <1>5, DispatchFailed DEF Through
  <1>6. CASE Through(r) /\ w.ok
    <2>1. PlanOf(r) = ReadTagAt(r, w)
      BY <1>6, DispatchThrough
    <2>2. PlanOf(r) = IF IsBit(r) THEN Checked(returns1, bit) ELSE Checked(returns2, all)
      BY <2>1, Zenon DEF ReadTagAt, IsBit, Total
    <2> HIDE DEF many, late, bit, all, returns1, returns2
    <2>3. /\ ~Lawful(r) => Refused(PlanOf(r))
          /\ Lawful(r) /\ IsBit(r) => PlanOf(r) = bit
          /\ Lawful(r) /\ ~IsBit(r) => PlanOf(r) = all
      BY <1>1, <1>2, <1>4, <1>6, <2>2, Zenon
    <2> QED
      BY <2>3 DEF bit, all
  <1>7. CASE ~Through(r)
    <2>1. PlanOf(r) = ReadTag(r, Elem(r))
      BY <1>7, DispatchTagged DEF DispatchTagService
    <2>2. /\ ~IsBit(r) /\ w.ok /\ w.type = Shape[r.tag].type
          /\ Total(r) = r.count * Shape[r.tag].elementSize
          /\ w.offset = Elem(r) * Shape[r.tag].elementSize
      BY <1>7, Numbers
    <2>3. PlanOf(r) = Checked(returns2, all)
      BY <2>1, <2>2, Zenon DEF ReadTag
    <2> HIDE DEF many, late, bit, all, returns1, returns2
    <2>4. /\ ~Lawful(r) => Refused(PlanOf(r))
          /\ Lawful(r) /\ IsBit(r) => PlanOf(r) = bit
          /\ Lawful(r) /\ ~IsBit(r) => PlanOf(r) = all
      BY <1>1, <1>2, <1>4, <2>2, <2>3, Zenon
    <2> QED
      BY <2>4 DEF bit, all
  <1> QED
    BY <1>5, <1>6, <1>7

\* Read Tag Fragmented is served for a bit, or from an offset that is before the end.
FragmentLegal(r) ==
  /\ ~r.cut /\ PlaceOf(r).ok
  /\ IF IsBit(r) THEN r.count = 1 /\ r.offset = 0
     ELSE r.offset < Total(r) /\ PlaceOf(r).offset + r.offset < Shape[r.tag].size

\* What Read Tag Fragmented decides.
LEMMA ReadTagFragmentedPlan ==
  ASSUME NEW r, WellFormed(r), r.by # "template", r.service = "ReadTagFragmented"
  PROVE  /\ ~FragmentLegal(r) => Refused(PlanOf(r))
         /\ FragmentLegal(r) /\ IsBit(r) => PlanOf(r) = BitOf(PlaceOf(r), "read", <<>>)
         /\ FragmentLegal(r) /\ ~IsBit(r) =>
              PlanOf(r) = Fragment(PlaceOf(r).offset, r.offset, Total(r), Shape[r.tag].size,
                                   PlaceOf(r).type)
  <1> DEFINE w    == PlaceOf(r)
             many == r.count # 1 \/ r.offset # 0
             past == r.offset >= Total(r)
             late == w.offset + r.offset >= Shape[r.tag].size
             bit  == BitOf(w, "read", <<>>)
             all  == Fragment(w.offset, r.offset, Total(r), Shape[r.tag].size, w.type)
  <1>1. FragmentLegal(r) <=> ~r.cut /\ w.ok /\ IF IsBit(r) THEN ~many ELSE ~past /\ ~late
    BY Numbers DEF FragmentLegal
  <1>2. r.cut \in BOOLEAN /\ many \in BOOLEAN /\ past \in BOOLEAN /\ late \in BOOLEAN
    BY Numbers
  <1> DEFINE returns1 == << <<r.cut, "0x13">>, <<many, "2105">> >>
             returns2 == << <<r.cut, "0x13">>, <<past, "2105">>, <<late, "2105">> >>
  <1>3. /\ ~r.cut /\ ~many => Checked(returns1, bit) = bit
        /\ r.cut \/ many => Refused(Checked(returns1, bit))
        /\ ~r.cut /\ ~past /\ ~late => Checked(returns2, all) = all
        /\ r.cut \/ past \/ late => Refused(Checked(returns2, all))
    <2> HIDE DEF many, past, late, bit, all
    <2> QED
      BY <1>2, Checked2, Checked3
  <1>4. CASE Through(r) /\ ~w.ok
    BY <1>1, <1>4, DispatchFailed DEF Through
  <1>5. CASE Through(r) /\ w.ok
    <2>1. PlanOf(r) = ReadTagFragmentedAt(r, w)
      BY <1>5, DispatchThrough
    <2>2. PlanOf(r) = IF IsBit(r) THEN Checked(returns1, bit) ELSE Checked(returns2, all)
      BY <2>1, Zenon DEF ReadTagFragmentedAt, IsBit, Total
    <2> HIDE DEF many, past, late, bit, all, returns1, returns2
    <2>3. /\ ~FragmentLegal(r) => Refused(PlanOf(r))
          /\ FragmentLegal(r) /\ IsBit(r) => PlanOf(r) = bit
          /\ FragmentLegal(r) /\ ~IsBit(r) => PlanOf(r) = all
      BY <1>1, <1>3, <1>5, <2>2, Zenon
    <2> QED
      BY <2>3 DEF bit, all
  <1>6. CASE ~Through(r)
    <2>1. PlanOf(r) = ReadTagFragmented(r, Elem(r))
      BY <1>6, DispatchTagged DEF DispatchTagService
    <2>2. /\ ~IsBit(r) /\ w.ok /\ w.type = Shape[r.tag].type
          /\ Total(r) = r.count * Shape[r.tag].elementSize
          /\ w.offset = Elem(r) * Shape[r.tag].elementSize
      BY <1>6, Numbers
    <2>3. PlanOf(r) = Checked(returns2, all)
      BY <2>1, <2>2, Zenon DEF ReadTagFragmented
    <2> HIDE DEF many, past, late, bit, all, returns1, returns2
    <2>4. /\ ~FragmentLegal(r) => Refused(PlanOf(r))
          /\ FragmentLegal(r) /\ IsBit(r) => PlanOf(r) = bit
          /\ FragmentLegal(r) /\ ~IsBit(r) => PlanOf(r) = all
      BY <1>1, <1>3, <2>2, <2>3, Zenon
    <2> QED
      BY <2>4 DEF bit, all
  <1> QED
    BY <1>4, <1>5, <1>6

\* Write Tag Fragmented.
LEMMA WriteTagFragmentedPlan ==
  ASSUME NEW r, WellFormed(r), r.by # "template", r.service = "WriteTagFragmented"
  PROVE  /\ ~Lawful(r) => Refused(PlanOf(r))
         /\ Lawful(r) /\ IsBit(r) => PlanOf(r) = BitOf(PlaceOf(r), "bit", r.bytes)
         /\ Lawful(r) /\ ~IsBit(r) => PlanOf(r) = Store(PlaceOf(r).offset + r.offset, r.bytes)
  <1> DEFINE w    == PlaceOf(r)
             type == r.type # w.type
             many == r.count # 1 \/ r.offset # 0 \/ r.bytes = <<>>
             past == r.offset + Len(r.bytes) > Total(r)
             late == (w.offset + r.offset) + Len(r.bytes) > Shape[r.tag].size
             bit  == BitOf(w, "bit", r.bytes)
             all  == Store(w.offset + r.offset, r.bytes)
  <1>1. Lawful(r) <=> ~r.cut /\ w.ok /\ ~type /\ IF IsBit(r) THEN ~many ELSE ~past /\ ~late
    <2>1. Lawful(r) <=> ~r.cut /\ w.ok /\ LawfulWrite(r)
      BY LawfulIs DEF Writing
    <2>2. LawfulWrite(r) <=> ~type /\ IF IsBit(r) THEN ~many ELSE ~past /\ ~late
      BY Numbers, SMTT(30) DEF LawfulWrite, Fits
    <2> QED
      BY <2>1, <2>2, Zenon
  <1>2. /\ r.cut \in BOOLEAN /\ type \in BOOLEAN /\ many \in BOOLEAN /\ past \in BOOLEAN
        /\ late \in BOOLEAN
    BY Numbers
  <1> DEFINE returns1 == << <<r.cut, "0x13">>, <<type, "2107">>, <<many, "0x13">> >>
             returns2 == << <<r.cut, "0x13">>, <<type, "2107">>, <<past, "2104">>,
                            <<late, "2105">> >>
  <1>3. /\ ~r.cut /\ ~type /\ ~many => Checked(returns1, bit) = bit
        /\ r.cut \/ type \/ many => Refused(Checked(returns1, bit))
        /\ ~r.cut /\ ~type /\ ~past /\ ~late => Checked(returns2, all) = all
        /\ r.cut \/ type \/ past \/ late => Refused(Checked(returns2, all))
    <2> HIDE DEF type, many, past, late, bit, all
    <2> QED
      BY <1>2, Checked3, Checked4
  <1>4. CASE Through(r) /\ ~w.ok
    BY <1>1, <1>4, DispatchFailed DEF Through
  <1>5. CASE Through(r) /\ w.ok
    <2>1. PlanOf(r) = WriteTagFragmentedAt(r, w)
      BY <1>5, DispatchThrough
    <2>2. PlanOf(r) = IF IsBit(r) THEN Checked(returns1, bit) ELSE Checked(returns2, all)
      BY <2>1, Zenon DEF WriteTagFragmentedAt, IsBit, Total
    <2> HIDE DEF type, many, past, late, bit, all, returns1, returns2
    <2>3. /\ ~Lawful(r) => Refused(PlanOf(r))
          /\ Lawful(r) /\ IsBit(r) => PlanOf(r) = bit
          /\ Lawful(r) /\ ~IsBit(r) => PlanOf(r) = all
      BY <1>1, <1>3, <1>5, <2>2, Zenon
    <2> QED
      BY <2>3 DEF bit, all
  <1>6. CASE ~Through(r)
    <2>1. PlanOf(r) = WriteTagFragmented(r, Elem(r))
      BY <1>6, DispatchTagged DEF DispatchTagService
    <2>2. /\ ~IsBit(r) /\ w.ok /\ w.type = Shape[r.tag].type
          /\ Total(r) = r.count * Shape[r.tag].elementSize
          /\ w.offset = Elem(r) * Shape[r.tag].elementSize
      BY <1>6, Numbers
    <2>3. PlanOf(r) = Checked(returns2, all)
      BY <2>1, <2>2, Zenon DEF WriteTagFragmented
    <2> HIDE DEF type, many, past, late, bit, all, returns1, returns2
    <2>4. /\ ~Lawful(r) => Refused(PlanOf(r))
          /\ Lawful(r) /\ IsBit(r) => PlanOf(r) = bit
          /\ Lawful(r) /\ ~IsBit(r) => PlanOf(r) = all
      BY <1>1, <1>3, <2>2, <2>3, Zenon
    <2> QED
      BY <2>4 DEF bit, all
  <1> QED
    BY <1>4, <1>5, <1>6

\* The bytes that Write Tag stores: what it was sent, or a SHORT_STRING with its padding.
Short(r)  == ~Through(r) /\ IsShortWrite(r, Total(r))
DataOf(r) == IF Short(r) THEN Padded(r.bytes, Total(r)) ELSE SubSeq(r.bytes, 1, Total(r))

\* Write Tag.
LEMMA WriteTagPlan ==
  ASSUME NEW r, WellFormed(r), r.by # "template", r.service = "WriteTag"
  PROVE  /\ ~Lawful(r) => Refused(PlanOf(r))
         /\ Lawful(r) /\ IsBit(r) => PlanOf(r) = BitOf(PlaceOf(r), "bit", r.bytes)
         /\ Lawful(r) /\ ~IsBit(r) => PlanOf(r) = Store(PlaceOf(r).offset, DataOf(r))
  <1> DEFINE w    == PlaceOf(r)
             type == r.type # w.type
             many == r.count # 1 \/ r.bytes = <<>>
             lack == Len(r.bytes) < Total(r)
             less == ~IsShortWrite(r, Total(r)) /\ Len(r.bytes) < Total(r)
             late == w.offset + Total(r) > Shape[r.tag].size
             bit  == BitOf(w, "bit", r.bytes)
             all  == Store(w.offset, SubSeq(r.bytes, 1, Total(r)))
             some == Store(w.offset, IF IsShortWrite(r, Total(r)) THEN Padded(r.bytes, Total(r))
                                     ELSE SubSeq(r.bytes, 1, Total(r)))
  <1>1. Lawful(r) <=> /\ ~r.cut /\ w.ok /\ ~type
                      /\ IF IsBit(r) THEN ~many ELSE ~late /\ (~lack \/ Short(r))
    <2>1. Lawful(r) <=> ~r.cut /\ w.ok /\ LawfulWrite(r)
      BY LawfulIs DEF Writing
    <2>2. ~many <=> r.count = 1 /\ r.bytes # <<>>
      OBVIOUS
    <2>3. ~late <=> Fits(r, 0, Total(r))
      BY Numbers DEF Fits
    <2>4. ~lack <=> Len(r.bytes) >= Total(r)
      BY Numbers
    <2>5. Short(r) <=> (r.by = "name" => r.segments = <<>>) /\ IsShortWrite(r, Total(r))
      BY DEF Short, Through
    <2> HIDE DEF many, late, lack
    <2>6. LawfulWrite(r) <=> ~type /\ IF IsBit(r) THEN ~many ELSE ~late /\ (~lack \/ Short(r))
      BY <2>2, <2>3, <2>4, <2>5 DEF LawfulWrite
    <2> QED
      BY <2>1, <2>6, Zenon
  <1>2. /\ r.cut \in BOOLEAN /\ type \in BOOLEAN /\ many \in BOOLEAN /\ lack \in BOOLEAN
        /\ less \in BOOLEAN /\ late \in BOOLEAN
    BY Numbers
  <1> DEFINE returns1 == << <<r.cut, "0x13">>, <<type, "2107">>, <<many, "0x13">> >>
             returns2 == << <<r.cut, "0x13">>, <<type, "2107">>, <<lack, "0x13">>,
                            <<late, "2105">> >>
             returns3 == << <<r.cut, "0x13">>, <<type, "2107">>, <<less, "0x13">>,
                            <<late, "2105">> >>
  <1>3. /\ ~r.cut /\ ~type /\ ~many => Checked(returns1, bit) = bit
        /\ r.cut \/ type \/ many => Refused(Checked(returns1, bit))
        /\ ~r.cut /\ ~type /\ ~lack /\ ~late => Checked(returns2, all) = all
        /\ r.cut \/ type \/ lack \/ late => Refused(Checked(returns2, all))
        /\ ~r.cut /\ ~type /\ ~less /\ ~late => Checked(returns3, some) = some
        /\ r.cut \/ type \/ less \/ late => Refused(Checked(returns3, some))
    <2> HIDE DEF type, many, lack, less, late, bit, all, some
    <2> QED
      BY <1>2, Checked3, Checked4
  <1>4. CASE Through(r) /\ ~w.ok
    BY <1>1, <1>4, DispatchFailed DEF Through
  <1>5. CASE Through(r) /\ w.ok
    <2>1. PlanOf(r) = WriteTagAt(r, w)
      BY <1>5, DispatchThrough
    <2>2. PlanOf(r) = IF IsBit(r) THEN Checked(returns1, bit) ELSE Checked(returns2, all)
      BY <2>1, Zenon DEF WriteTagAt, IsBit, Total
    <2>3. ~Short(r)
      BY <1>5 DEF Short
    <2>4. all = Store(w.offset, DataOf(r))
      BY <2>3, Zenon DEF DataOf
    <2> HIDE DEF type, many, lack, late, bit, all, returns1, returns2
    <2>5. /\ ~Lawful(r) => Refused(PlanOf(r))
          /\ Lawful(r) /\ IsBit(r) => PlanOf(r) = bit
          /\ Lawful(r) /\ ~IsBit(r) => PlanOf(r) = all
      BY <1>1, <1>3, <1>5, <2>2, <2>3, Zenon
    <2> QED
      BY <2>4, <2>5 DEF bit
  <1>6. CASE ~Through(r)
    <2>1. PlanOf(r) = WriteTag(r, Elem(r))
      BY <1>6, DispatchTagged DEF DispatchTagService
    <2>2. /\ ~IsBit(r) /\ w.ok /\ w.type = Shape[r.tag].type
          /\ Total(r) = r.count * Shape[r.tag].elementSize
          /\ w.offset = Elem(r) * Shape[r.tag].elementSize
      BY <1>6, Numbers
    <2>3. PlanOf(r) = Checked(returns3, some)
      BY <2>1, <2>2, Zenon DEF WriteTag
    <2>4. Short(r) <=> IsShortWrite(r, Total(r))
      BY <1>6 DEF Short
    <2>5. some = Store(w.offset, DataOf(r))
      BY <2>4, Zenon DEF DataOf
    <2>6. ~less <=> ~lack \/ Short(r)
      BY <2>4
    <2> HIDE DEF type, many, lack, less, late, bit, some, returns1, returns3
    <2>7. /\ ~Lawful(r) => Refused(PlanOf(r))
          /\ Lawful(r) /\ IsBit(r) => PlanOf(r) = bit
          /\ Lawful(r) /\ ~IsBit(r) => PlanOf(r) = some
      BY <1>1, <1>3, <2>2, <2>3, <2>6, Zenon
    <2> QED
      BY <2>5, <2>7 DEF bit
  <1> QED
    BY <1>4, <1>5, <1>6

\* Read Modify Write.
LEMMA ReadModifyWritePlan ==
  ASSUME NEW r, WellFormed(r), r.by # "template", r.service = "ReadModifyWrite"
  PROVE  /\ ~Lawful(r) => Refused(PlanOf(r))
         /\ Lawful(r) =>
              PlanOf(r) = Plan("modify", "ok", 0, Smaller(Len(r.bytes), Shape[r.tag].size), "")
  <1> DEFINE odd == Len(r.bytes) \notin {1, 2, 4, 8, 12}
             few == Len(r.keep) < Len(r.bytes)
             all == Plan("modify", "ok", 0, Smaller(Len(r.bytes), Shape[r.tag].size), "")
             returns == << <<r.cut, "0x13">>, <<odd, "0x03">>, <<few, "0x13">> >>
  <1>1. Lawful(r) <=> ~r.cut /\ PlaceOf(r).ok /\ ~odd /\ ~few
    <2>1. ~few <=> Len(r.keep) >= Len(r.bytes)
      BY Numbers
    <2> QED
      BY <2>1, LawfulIs
  <1>2. r.cut \in BOOLEAN /\ odd \in BOOLEAN /\ few \in BOOLEAN
    BY Numbers
  <1>3. /\ ~r.cut /\ ~odd /\ ~few => Checked(returns, all) = all
        /\ r.cut \/ odd \/ few => Refused(Checked(returns, all))
    <2> HIDE DEF odd, few, all
    <2> QED
      BY <1>2, Checked3
  <1>4. CASE Through(r) /\ ~PlaceOf(r).ok
    BY <1>1, <1>4, DispatchFailed DEF Through
  <1>5. CASE ~(Through(r) /\ ~PlaceOf(r).ok)
    <2>1. PlanOf(r) = ReadModifyWrite(r)
      <3>1. CASE Through(r)
        <4>1. PlanOf(r) = DispatchTagService(r, 0)
          BY <1>5, <3>1, DispatchThrough
        <4> QED
          BY <4>1 DEF DispatchTagService
      <3>2. CASE ~Through(r)
        BY <3>2, DispatchTagged DEF DispatchTagService
      <3> QED
        BY <3>1, <3>2
    <2>2. PlanOf(r) = Checked(returns, all)
      BY <2>1, Zenon DEF ReadModifyWrite
    <2>3. PlaceOf(r).ok
      BY <1>5, Numbers
    <2> HIDE DEF odd, few, all, returns
    <2>4. (~Lawful(r) => Refused(PlanOf(r))) /\ (Lawful(r) => PlanOf(r) = all)
      BY <1>1, <1>3, <2>2, <2>3, Zenon
    <2> QED
      BY <2>4 DEF all
  <1> QED
    BY <1>4, <1>5

\* No other service is known.
LEMMA OtherPlan ==
  ASSUME NEW r, WellFormed(r), r.by # "template",
         r.service \notin Reading \cup Writing \cup {"ReadModifyWrite"}
  PROVE  ~Lawful(r) /\ Refused(PlanOf(r))
  <1>1. ~Lawful(r)
    BY LawfulIs
  <1>2. CASE Through(r) /\ ~PlaceOf(r).ok
    BY <1>1, <1>2, DispatchFailed DEF Through
  <1>3. CASE ~(Through(r) /\ ~PlaceOf(r).ok)
    <2>1. PlanOf(r) = Refuse("0x08")
      <3>1. /\ r.service # "ReadTag" /\ r.service # "WriteTag"
            /\ r.service # "ReadTagFragmented" /\ r.service # "WriteTagFragmented"
            /\ r.service # "ReadModifyWrite"
        BY DEF Reading, Writing
      <3>2. \A e : DispatchTagService(r, e) = Refuse("0x08")
        BY <3>1 DEF DispatchTagService
      <3>3. CASE Through(r)
        <4>1. PlanOf(r) = DispatchTagService(r, 0)
          BY <1>3, <3>1, <3>3, DispatchThrough
        <4> QED
          BY <3>2, <4>1
      <3>4. CASE ~Through(r)
        BY <3>2, <3>4, DispatchTagged
      <3> QED
        BY <3>3, <3>4
    <2> QED
      BY <1>1, <2>1 DEF Refused
  <1> QED
    BY <1>2, <1>3

\* The definition of a template.
LEMMA TemplatePlan ==
  ASSUME NEW r, WellFormed(r), r.by = "template"
  PROVE  LET full  == Layout[r.tag].definition
             chunk == Smaller(Smaller(full - r.offset, r.count), MaxTemplateChunk)
         IN /\ r.cut \/ r.offset >= full => Refused(PlanOf(r))
            /\ ~r.cut /\ r.offset < full =>
                 PlanOf(r) = Plan("definition", IF r.offset + chunk < full THEN "partial" ELSE "ok",
                                  r.offset, chunk, "")
            /\ Lawful(r) <=> ~r.cut
  <1> DEFINE full  == Layout[r.tag].definition
             chunk == Smaller(Smaller(full - r.offset, r.count), MaxTemplateChunk)
             late  == r.offset >= full
             part  == Plan("definition", IF r.offset + chunk < full THEN "partial" ELSE "ok",
                           r.offset, chunk, "")
             returns == << <<r.cut, "0x13">>, <<late, "2105">> >>
  <1>1. r.offset \in Nat /\ full \in Nat /\ r.cut \in BOOLEAN
    BY LayoutOK DEF WellFormed, Request, TemplateOK
  <1>2. late \in BOOLEAN /\ (~late <=> r.offset < full)
    BY <1>1
  <1>3. PlanOf(r) = TemplateRead(r)
    BY DEF PlanOf, Dispatch
  <1>4. PlanOf(r) = Checked(returns, part)
    BY <1>3, Zenon DEF TemplateRead
  <1>5. Lawful(r) <=> ~r.cut
    BY DEF Lawful
  <1> HIDE DEF late, part
  <1>6. /\ ~r.cut /\ ~late => Checked(returns, part) = part
        /\ r.cut \/ late => Refused(Checked(returns, part))
    BY <1>1, <1>2, Checked2
  <1> HIDE DEF returns
  <1>7. /\ r.cut \/ late => Refused(PlanOf(r))
        /\ ~r.cut /\ r.offset < full => PlanOf(r) = part
    BY <1>2, <1>4, <1>6
  <1> QED
    BY <1>5, <1>7, Zenon DEF part, late

---------------------------------------------------------------------------
\* The requests of a transfer are well formed ...
LEMMA RequestsOK ==
  ASSUME NEW x \in Transfers
  PROVE  /\ x.rest \in Seq(Request) /\ Len(x.rest) \in Nat /\ DOMAIN x.rest = 1..Len(x.rest)
         /\ DOMAIN Requests(x) = 1..(Len(x.rest) + 1) /\ Requests(x)[1] = x.request
         /\ \A i \in 1..Len(x.rest) : Requests(x)[i + 1] = x.rest[i]
         /\ \A i \in 1..(Len(x.rest) + 1) :
              /\ WellFormed(Requests(x)[i])
              /\ x.rest # <<>> => /\ Requests(x)[i].by # "template"
                                  /\ Requests(x)[i].service \in {"ReadTag", "WriteTag"}
  <1> DEFINE n == Len(x.rest)
  <1>1. Described(x)
    BY TransfersAssumption
  <1>2. x.request \in Request /\ x.rest \in Seq(Request)
    BY <1>1 DEF Described
  <1>3. n \in Nat /\ DOMAIN x.rest = 1..n
    BY <1>2
  <1>4. /\ Requests(x) \in Seq(Request)
        /\ DOMAIN Requests(x) = 1..(n + 1) /\ Requests(x)[1] = x.request
        /\ \A i \in 1..n : Requests(x)[i + 1] = x.rest[i]
    <2>1. <<x.request>> \in Seq(Request) /\ Len(<<x.request>>) = 1 /\ <<x.request>>[1] = x.request
      BY <1>2
    <2> QED
      BY <1>2, <1>3, <2>1, ConcatProperties, LenProperties DEF Requests
  <1>5. ASSUME NEW i \in 1..(n + 1)
        PROVE  /\ Requests(x)[i] \in Range(Requests(x)) /\ Requests(x)[i] \in Request
               /\ Requests(x)[i] \in {x.request} \cup Range(x.rest)
    <2>1. Requests(x)[i] \in Range(Requests(x)) /\ Requests(x)[i] \in Request
      BY <1>3, <1>4, SMTT(30) DEF Range
    <2>2. CASE i = 1
      BY <1>4, <2>1, <2>2
    <2>3. CASE i # 1
      <3>1. i - 1 \in 1..n /\ i = (i - 1) + 1
        BY <2>3, <1>3
      <3>2. Requests(x)[i] = x.rest[i - 1]
        BY <3>1, <1>4
      <3> QED
        BY <3>1, <3>2, <2>1, <1>3 DEF Range
    <2> QED
      BY <2>2, <2>3
  <1>6. ASSUME NEW i \in 1..(n + 1)
        PROVE  WellFormed(Requests(x)[i])
    <2> DEFINE r == Requests(x)[i]
    <2>1. IF r.by = "template" THEN r.tag \in DOMAIN Layout /\ r.service = "TemplateRead"
          ELSE r.tag \in Tags
      BY <1>1, <1>5 DEF Described
    <2>2. r.by = "name" => WalkedTo(r) = Walk(r.tag, r.segments)
      <3> SUFFICES ASSUME r.by = "name" PROVE WalkedTo(r) = Walk(r.tag, r.segments)
        OBVIOUS
      <3>1. r \in Named
        BY <1>5, Zenon DEF Named
      <3> HIDE DEF r
      <3>2. <<r.tag, r.segments>> \in {<<q.tag, q.segments>> : q \in Named}
        BY <3>1
      <3> DEFINE p == <<r.tag, r.segments>>
      <3>3. p[1] = r.tag /\ p[2] = r.segments
        OBVIOUS
      <3> HIDE DEF p
      <3>4. Walked[p] = Walk(p[1], p[2])
        BY <3>2 DEF Walked, p
      <3>5. Walked[<<r.tag, r.segments>>] = Walk(r.tag, r.segments)
        BY <3>3, <3>4 DEF p
      <3> QED
        BY <3>5 DEF WalkedTo
    <2> QED
      BY <1>5, <2>1, <2>2 DEF WellFormed
  <1>7. ASSUME NEW i \in 1..(n + 1), x.rest # <<>>
        PROVE  Requests(x)[i].by # "template" /\ Requests(x)[i].service \in {"ReadTag", "WriteTag"}
    BY <1>1, <1>5, <1>7, Zenon DEF Described, DescribedPacket
  <1> QED
    BY <1>2, <1>3, <1>4, <1>6, <1>7

\* ... and so are those that a session has out for them; they lead to the same place.
LEMMA OutOK ==
  ASSUME NEW x, NEW q, WellFormed(q), NEW r, RequestOK(x, r, q)
  PROVE  /\ WellFormed(r) /\ PlaceOf(r) = PlaceOf(q) /\ (IsBit(r) <=> IsBit(q))
         /\ q.by # "template" => Total(r) = Total(q)
         /\ r.service = q.service /\ r.tag = q.tag /\ r.by = q.by /\ r.cut = q.cut
         /\ r.type = q.type /\ r.keep = q.keep /\ r.elem = q.elem /\ r.segments = q.segments
         /\ q.by # "template" => r.count = q.count
         /\ x.rest # <<>> => r = q
         /\ q.service # "WriteTagFragmented" => r.bytes = q.bytes
  <1>1. /\ r \in Request /\ r.service = q.service /\ r.tag = q.tag /\ r.by = q.by
        /\ r.segments = q.segments /\ r.elem = q.elem /\ (q.by # "template" => r.count = q.count)
        /\ r.cut = q.cut /\ r.type = q.type /\ r.keep = q.keep
        /\ x.rest # <<>> => r = q
        /\ q.service # "WriteTagFragmented" => r.bytes = q.bytes
    BY DEF RequestOK
  <1>2. WalkedTo(r) = WalkedTo(q)
    BY <1>1, Zenon DEF WalkedTo
  <1>3. PlaceOf(r) = PlaceOf(q)
    BY <1>1, <1>2, Zenon DEF PlaceOf
  <1>4. IsBit(r) <=> IsBit(q)
    BY <1>3, Zenon DEF IsBit
  <1>5. q.by # "template" => Total(r) = Total(q)
    BY <1>1, <1>3, Zenon DEF Total
  <1>6. WellFormed(r)
    BY <1>1, <1>2 DEF WellFormed
  <1> QED
    BY <1>1, <1>3, <1>4, <1>5, <1>6

\* The fields of the plans.
LEMMA PlanFields ==
  ASSUME NEW do, NEW status, NEW at, NEW len, NEW type
  PROVE  LET p == Plan(do, status, at, len, type)
         IN /\ p.do = do /\ p.status = status /\ p.at = at /\ p.len = len /\ p.type = type
            /\ p.bytes = <<>> /\ p.bit = NoBit
  BY DEF Plan

\* The fields of a plan that stores bytes ...
LEMMA StoreFields ==
  ASSUME NEW at, NEW bytes
  PROVE  LET p == Store(at, bytes)
         IN /\ p.do = "write" /\ p.status = "ok" /\ p.at = at /\ p.len = Len(bytes)
            /\ p.bytes = bytes
  BY DEF Store, Plan

\* ... of one for a bit ...
LEMMA BitFields ==
  ASSUME NEW w, NEW do, NEW bytes
  PROVE  LET p == BitOf(w, do, bytes)
         IN /\ p.do = do /\ p.status = "ok" /\ p.at = w.offset /\ p.len = 1 /\ p.type = "BOOL"
            /\ p.bit = w.bit /\ p.bytes = bytes
  BY DEF BitOf, Plan

\* ... and of a refusal.
LEMMA RefusedFields ==
  ASSUME NEW p, Refused(p)
  PROVE  p.do = "nothing" /\ p.at = 0 /\ p.len = 0
  <1>1. PICK status : p = Plan("nothing", status, 0, 0, "")
    BY DEF Refused, Refuse
  <1> QED
    BY <1>1 DEF Plan

\* A reply holds at least one byte of data.
LEMMA ReplyRoom ==
  ASSUME NEW type
  PROVE  Prefix(type) \in Nat /\ MaxReplyData - Prefix(type) \in Nat \ {0}
  BY MemoryAssumption DEF Prefix

\* What Read Tag returns: as much of the range as a reply holds.
LEMMA WholeFields ==
  ASSUME NEW at \in Nat, NEW len \in Nat, NEW type
  PROVE  LET p == Whole(at, len, type)
         IN /\ p.do = "read" /\ p.at = at /\ p.type = type /\ p.len \in 0..len
            /\ p.len = Smaller(len, MaxReplyData - Prefix(type))
            /\ p.status = IF p.len < len THEN "partial" ELSE "ok"
  <1>1. Prefix(type) \in Nat /\ MaxReplyData \in Nat /\ MaxReplyData - Prefix(type) \in Nat \ {0}
    BY ReplyRoom, MemoryAssumption
  <1>2. CASE Prefix(type) + len > MaxReplyData
    <2>1. Whole(at, len, type) = Plan("read", "partial", at, MaxReplyData - Prefix(type), type)
      BY <1>2 DEF Whole, Response
    <2> QED
      BY <1>1, <1>2, <2>1, PlanFields DEF Smaller
  <1>3. CASE ~(Prefix(type) + len > MaxReplyData)
    <2>1. Whole(at, len, type) = Plan("read", "ok", at, len, type)
      BY <1>3 DEF Whole, Response
    <2> QED
      BY <1>1, <1>3, <2>1, PlanFields DEF Smaller
  <1> QED
    BY <1>2, <1>3

\* What Read Tag Fragmented returns: a part that is not empty, and what follows is left.
LEMMA FragmentFields ==
  ASSUME NEW base \in Nat, NEW offset \in Nat, NEW total \in Nat, NEW size \in Nat, NEW type,
         offset < total, base + offset < size
  PROVE  LET p == Fragment(base, offset, total, size, type)
         IN /\ p.do = "read" /\ p.at = base + offset /\ p.type = type
            /\ p.len \in Nat \ {0} /\ p.at + p.len <= size /\ offset + p.len <= total
            /\ p.status = IF offset + p.len < total THEN "partial" ELSE "ok"
            /\ p.len <= MaxReplyData - Prefix(type)
            /\ offset + p.len < total =>
                 p.len = MaxReplyData - Prefix(type) \/ p.at + p.len = size
  <1> DEFINE room      == MaxReplyData - Prefix(type)
             remaining == Smaller(total - offset, size - (base + offset))
             chunk     == Smaller(remaining, room)
  <1>1. room \in Nat \ {0}
    BY ReplyRoom
  <1>2. Fragment(base, offset, total, size, type) =
          Plan("read", IF offset + chunk < total THEN "partial" ELSE "ok", base + offset, chunk, type)
    BY DEF Fragment, Response
  <1> HIDE DEF room
  <1>3. /\ chunk \in Nat \ {0} /\ base + offset + chunk <= size /\ offset + chunk <= total
        /\ chunk <= room
        /\ offset + chunk < total => chunk = room \/ base + offset + chunk = size
    BY <1>1 DEF Smaller
  <1> HIDE DEF chunk
  <1> QED
    BY <1>2, <1>3, PlanFields DEF room

---------------------------------------------------------------------------
\* The requests that are served, one by one.
Served(r) ==
  IF r.by = "template" THEN ~r.cut /\ r.offset < Layout[r.tag].definition
  ELSE IF r.service = "ReadTagFragmented" THEN FragmentLegal(r)
  ELSE Lawful(r)

\* What a plan may be: it stays inside the buffer, and it writes what the request says.
PlanOK(r, p) ==
  /\ p.do \in {"nothing", "read", "write", "modify", "bit", "definition"}
  /\ p.do # "nothing" <=> Served(r)
  /\ p.do = "nothing" => p.at = 0 /\ p.len = 0
  /\ p.do \in {"read", "write", "modify", "bit"} =>
       /\ r.by # "template" /\ p.at \in Nat /\ p.len \in Nat
       /\ p.at + p.len <= Shape[r.tag].size
  /\ p.do = "read" => r.service \in Reading
  /\ p.do = "definition" <=> r.by = "template" /\ Served(r)
  /\ p.do = "write" =>
       /\ r.service \in Writing /\ ~IsBit(r) /\ p.at = From(r) /\ p.len = Width(r)
       /\ p.bytes \in Seq(Byte) /\ Len(p.bytes) = p.len
       /\ \A i \in 1..p.len : p.bytes[i] = IF i <= Len(r.bytes) THEN r.bytes[i] ELSE {}
  /\ p.do = "modify" =>
       /\ r.service = "ReadModifyWrite" /\ p.at = 0 /\ p.len = Width(r)
       /\ p.len <= Len(r.bytes) /\ p.len <= Len(r.keep)
  /\ p.do = "bit" =>
       /\ r.service \in Writing /\ IsBit(r) /\ p.at = PlaceOf(r).offset /\ p.len = 1
       /\ p.bit = PlaceOf(r).bit /\ p.bit \in Bits /\ p.bytes = r.bytes /\ r.bytes # <<>>

\* The bytes that Write Tag stores.
LEMMA DataFields ==
  ASSUME NEW r, WellFormed(r), r.by # "template", r.service = "WriteTag", Lawful(r), ~IsBit(r)
  PROVE  /\ DataOf(r) \in Seq(Byte) /\ Len(DataOf(r)) = Total(r)
         /\ \A i \in 1..Total(r) :
              DataOf(r)[i] = IF i <= Len(r.bytes) THEN r.bytes[i] ELSE {}
  <1>1. Total(r) \in Nat /\ r.bytes \in Seq(Byte) /\ Len(r.bytes) \in Nat
    BY Numbers
  <1>2. CASE Short(r)
    <2>1. DataOf(r) = [i \in 1..Total(r) |-> IF i <= Len(r.bytes) THEN r.bytes[i] ELSE {}]
      BY <1>2 DEF DataOf, Padded
    <2>2. {} \in Byte
      BY DEF Byte
    <2>3. \A i \in 1..Total(r) : (IF i <= Len(r.bytes) THEN r.bytes[i] ELSE {}) \in Byte
      BY <1>1, <2>2
    <2> DEFINE n == Total(r)
               f == [i \in 1..n |-> IF i <= Len(r.bytes) THEN r.bytes[i] ELSE {}]
    <2>4. f \in [1..n -> Byte] /\ DOMAIN f = 1..n
      BY <2>3
    <2>5. \A i \in 1..n : f[i] = IF i <= Len(r.bytes) THEN r.bytes[i] ELSE {}
      OBVIOUS
    <2> HIDE DEF f, n
    <2>6. f \in Seq(Byte) /\ Len(f) = n
      BY <1>1, <2>4 DEF n
    <2> QED
      BY <2>1, <2>5, <2>6 DEF f, n
  <1>3. CASE ~Short(r)
    <2>1. DataOf(r) = SubSeq(r.bytes, 1, Total(r))
      BY <1>3 DEF DataOf
    <2>2. LawfulWrite(r)
      BY LawfulIs DEF Writing
    <2>3. Len(r.bytes) >= Total(r)
      BY <2>2, <1>3 DEF LawfulWrite, Short, Through
    <2>4. \A i \in 1..Total(r) : r.bytes[i] \in Byte
      BY <1>1, <2>3
    <2>5. /\ SubSeq(r.bytes, 1, Total(r)) \in Seq(Byte)
          /\ Len(SubSeq(r.bytes, 1, Total(r))) = IF 1 <= Total(r) THEN Total(r) - 1 + 1 ELSE 0
          /\ \A i \in 1..(Total(r) - 1 + 1) : SubSeq(r.bytes, 1, Total(r))[i] = r.bytes[1 + i - 1]
      BY <1>1, <2>4, SubSeqProperties
    <2> HIDE DEF Total
    <2>6. Len(SubSeq(r.bytes, 1, Total(r))) = Total(r)
      BY <1>1, <2>5
    <2>7. \A i \in 1..Total(r) : SubSeq(r.bytes, 1, Total(r))[i] = r.bytes[i] /\ i <= Len(r.bytes)
      BY <1>1, <2>3, <2>5
    <2> QED
      BY <2>1, <2>5, <2>6, <2>7
  <1> QED
    BY <1>2, <1>3

\* A plan that writes the bytes of a request.
LEMMA StoresOK ==
  ASSUME NEW r, NEW p, r.by # "template", r.service \in Writing, ~IsBit(r), Served(r),
         p.do = "write", p.at \in Nat, p.len \in Nat, p.at + p.len <= Shape[r.tag].size,
         p.at = From(r), p.len = Width(r), p.bytes \in Seq(Byte), Len(p.bytes) = p.len,
         \A i \in 1..p.len : p.bytes[i] = IF i <= Len(r.bytes) THEN r.bytes[i] ELSE {}
  PROVE  PlanOK(r, p)
  <1>1. p.do \notin {"nothing", "read", "modify", "bit", "definition"}
    OBVIOUS
  <1> QED
    BY <1>1, Zenon DEF PlanOK

\* Every plan is one of these: service by service.
LEMMA PlanIs ==
  ASSUME NEW r, WellFormed(r)
  PROVE  PlanOK(r, PlanOf(r))
  <1> DEFINE p == PlanOf(r)
             w == PlaceOf(r)
  <1>1. ASSUME Refused(p), ~Served(r) PROVE PlanOK(r, p)
    <2> HIDE DEF p
    <2>1. p.do = "nothing" /\ p.at = 0 /\ p.len = 0
      BY <1>1, RefusedFields
    <2> QED
      BY <1>1, <2>1 DEF PlanOK
  <1>2. ASSUME r.by # "template"
        PROVE  /\ r.count \in Nat /\ r.offset \in Nat /\ r.bytes \in Seq(Byte)
               /\ Len(r.bytes) \in Nat /\ Len(r.keep) \in Nat
               /\ Total(r) \in Nat /\ Shape[r.tag].size \in Nat /\ w.offset \in Nat
               /\ w.ok /\ IsBit(r) => w.bit \in Bits /\ w.offset < Shape[r.tag].size
    BY <1>2, Numbers, PlaceFacts
  <1>3. CASE r.by = "template"
    <2> DEFINE full  == Layout[r.tag].definition
               chunk == Smaller(Smaller(full - r.offset, r.count), MaxTemplateChunk)
               more  == IF r.offset + chunk < full THEN "partial" ELSE "ok"
    <2>1. /\ r.cut \/ r.offset >= full => Refused(p)
          /\ ~r.cut /\ r.offset < full => p = Plan("definition", more, r.offset, chunk, "")
      BY <1>3, TemplatePlan
    <2>2. Served(r) <=> ~r.cut /\ r.offset < full
      BY <1>3 DEF Served
    <2>3. r.offset \in Nat /\ full \in Nat /\ r.cut \in BOOLEAN
      <3>1. r.offset \in Nat /\ r.cut \in BOOLEAN /\ r.tag \in DOMAIN Layout
        BY <1>3 DEF WellFormed, Request
      <3> QED
        BY <3>1, LayoutOK DEF TemplateOK
    <2> HIDE DEF p, full, chunk, more
    <2>4. CASE Served(r)
      <3>1. p = Plan("definition", more, r.offset, chunk, "")
        BY <2>1, <2>2, <2>4
      <3>2. p.do = "definition"
        BY <3>1 DEF Plan
      <3>3. p.do \notin {"nothing", "read", "write", "modify", "bit"}
        BY <3>2
      <3>4. PlanOK(r, p)
        BY <1>3, <2>4, <3>2, <3>3 DEF PlanOK
      <3> QED
        BY <3>4 DEF p
    <2>5. CASE ~Served(r)
      <3>1. r.offset >= full \/ r.offset < full
        BY <2>3
      <3>2. Refused(p)
        BY <2>1, <2>2, <2>5, <3>1, Zenon
      <3> QED
        BY <3>2, <2>5, <1>1 DEF p
    <2> QED
      BY <2>4, <2>5 DEF p
  <1>4. ASSUME r.by # "template", p.do = "read", r.service \in Reading, Served(r),
               p.at \in Nat, p.len \in Nat, p.at + p.len <= Shape[r.tag].size
        PROVE  PlanOK(r, p)
    <2> HIDE DEF p, w
    <2> QED
      BY <1>4 DEF PlanOK
  <1>5. ASSUME r.by # "template", r.service \in Reading \cup Writing, IsBit(r), w.ok, Served(r)
        PROVE  /\ p = BitOf(w, "read", <<>>) /\ r.service \in Reading => PlanOK(r, p)
               /\ p = BitOf(w, "bit", r.bytes) /\ r.service \in Writing /\ r.bytes # <<>> =>
                    PlanOK(r, p)
    <2>1. w.bit \in Bits /\ w.offset \in Nat /\ w.offset + 1 <= Shape[r.tag].size
      BY <1>2, <1>5
    <2>2. ASSUME p = BitOf(w, "read", <<>>), r.service \in Reading
          PROVE  PlanOK(r, p)
      <3>1. p.do = "read" /\ p.at = w.offset /\ p.len = 1
        BY <2>2, BitFields
      <3> HIDE DEF p, w
      <3> QED
        BY <3>1, <2>1, <2>2, <1>5, <1>4 DEF p
    <2>3. ASSUME p = BitOf(w, "bit", r.bytes), r.service \in Writing, r.bytes # <<>>
          PROVE  PlanOK(r, p)
      <3>1. /\ p.do = "bit" /\ p.at = w.offset /\ p.len = 1 /\ p.bit = w.bit
            /\ p.bytes = r.bytes
        BY <2>3, BitFields
      <3> HIDE DEF p
      <3> QED
        BY <3>1, <2>1, <2>3, <1>5 DEF PlanOK
    <2> QED
      BY <2>2, <2>3
  <1>6. CASE r.by # "template" /\ r.service = "ReadTag"
    <2>1. Served(r) <=> Lawful(r)
      BY <1>6 DEF Served
    <2>2. CASE ~Lawful(r)
      BY <1>1, <1>6, <2>1, <2>2, ReadTagPlan
    <2>3. ASSUME Lawful(r) PROVE w.ok /\ LawfulRead(r)
      BY <1>6, <2>3, LawfulIs DEF Reading
    <2>4. CASE Lawful(r) /\ IsBit(r)
      BY <1>5, <1>6, <2>1, <2>3, <2>4, ReadTagPlan DEF Reading
    <2>5. CASE Lawful(r) /\ ~IsBit(r)
      <3>1. p = Whole(w.offset, Total(r), w.type)
        BY <1>6, <2>5, ReadTagPlan
      <3>2. p.do = "read" /\ p.at = w.offset /\ p.len \in 0..Total(r)
        BY <1>2, <1>6, <3>1, WholeFields
      <3>3. w.offset + Total(r) <= Shape[r.tag].size
        BY <1>2, <1>6, <2>3, <2>5 DEF LawfulRead, Fits
      <3>4. p.at + p.len <= Shape[r.tag].size /\ p.len \in Nat /\ p.at \in Nat
        <4> HIDE DEF p
        <4> QED
          BY <1>2, <1>6, <3>2, <3>3
      <3> QED
        BY <1>4, <1>6, <2>1, <2>5, <3>2, <3>4 DEF Reading
    <2> QED
      BY <2>2, <2>4, <2>5
  <1>7. CASE r.by # "template" /\ r.service = "ReadTagFragmented"
    <2>1. Served(r) <=> FragmentLegal(r)
      BY <1>7 DEF Served
    <2>2. CASE ~FragmentLegal(r)
      BY <1>1, <1>7, <2>1, <2>2, ReadTagFragmentedPlan
    <2>4. CASE FragmentLegal(r) /\ IsBit(r)
      BY <1>5, <1>7, <2>1, <2>4, ReadTagFragmentedPlan DEF Reading, FragmentLegal
    <2>5. CASE FragmentLegal(r) /\ ~IsBit(r)
      <3>1. p = Fragment(w.offset, r.offset, Total(r), Shape[r.tag].size, w.type)
        BY <1>7, <2>5, ReadTagFragmentedPlan
      <3>2. r.offset < Total(r) /\ w.offset + r.offset < Shape[r.tag].size
        BY <2>5 DEF FragmentLegal
      <3>3. /\ p.do = "read" /\ p.at = w.offset + r.offset /\ p.len \in Nat
            /\ p.at + p.len <= Shape[r.tag].size
        <4>1. /\ w.offset \in Nat /\ r.offset \in Nat /\ Total(r) \in Nat
              /\ Shape[r.tag].size \in Nat
          BY <1>2, <1>7
        <4> DEFINE base == w.offset
                   size == Shape[r.tag].size
                   from == r.offset
                   all  == Total(r)
                   type == w.type
                   f    == Fragment(base, from, all, size, type)
        <4>2. /\ base \in Nat /\ from \in Nat /\ all \in Nat /\ size \in Nat
              /\ from < all /\ base + from < size /\ p = f
          BY <4>1, <3>1, <3>2
        <4> HIDE DEF p, base, size, from, all, type
        <4>3. /\ f.do = "read" /\ f.at = base + from
              /\ f.len \in Nat /\ f.at + f.len <= size
          BY <4>2, FragmentFields
        <4> HIDE DEF f
        <4> QED
          BY <4>2, <4>3 DEF base, size, from
      <3>4. p.at \in Nat
        BY <1>2, <1>7, <3>3
      <3> QED
        BY <1>4, <1>7, <2>1, <2>5, <3>3, <3>4 DEF Reading
    <2> QED
      BY <2>2, <2>4, <2>5
  <1>8. CASE r.by # "template" /\ r.service = "WriteTag"
    <2>1. Served(r) <=> Lawful(r)
      BY <1>8 DEF Served
    <2>2. CASE ~Lawful(r)
      BY <1>1, <1>8, <2>1, <2>2, WriteTagPlan
    <2>3. ASSUME Lawful(r) PROVE w.ok /\ LawfulWrite(r)
      BY <1>8, <2>3, LawfulIs DEF Writing
    <2>4. CASE Lawful(r) /\ IsBit(r)
      <3>1. r.bytes # <<>>
        BY <2>3, <2>4 DEF LawfulWrite
      <3> QED
        BY <1>5, <1>8, <2>1, <2>3, <2>4, <3>1, WriteTagPlan DEF Writing
    <2>5. CASE Lawful(r) /\ ~IsBit(r)
      <3>1. p = Store(w.offset, DataOf(r))
        BY <1>8, <2>5, WriteTagPlan
      <3>2. /\ DataOf(r) \in Seq(Byte) /\ Len(DataOf(r)) = Total(r)
            /\ \A i \in 1..Total(r) :
                 DataOf(r)[i] = IF i <= Len(r.bytes) THEN r.bytes[i] ELSE {}
        BY <1>8, <2>5, DataFields
      <3>3. p.do = "write" /\ p.at = w.offset /\ p.len = Total(r) /\ p.bytes = DataOf(r)
        BY <3>1, <3>2, StoreFields
      <3>4. w.offset + Total(r) <= Shape[r.tag].size
        BY <1>2, <1>8, <2>3, <2>5 DEF LawfulWrite, Fits
      <3>5. From(r) = w.offset /\ Width(r) = Total(r)
        BY <1>2, <1>8 DEF From, Width
      <3> HIDE DEF p, w
      <3>6. PlanOK(r, p)
        BY <1>2, <1>8, <2>1, <2>5, <3>2, <3>3, <3>4, <3>5, StoresOK DEF Writing
      <3> QED
        BY <3>6 DEF p
    <2> QED
      BY <2>2, <2>4, <2>5
  <1>9. CASE r.by # "template" /\ r.service = "WriteTagFragmented"
    <2>1. Served(r) <=> Lawful(r)
      BY <1>9 DEF Served
    <2>2. CASE ~Lawful(r)
      BY <1>1, <1>9, <2>1, <2>2, WriteTagFragmentedPlan
    <2>3. ASSUME Lawful(r) PROVE w.ok /\ LawfulWrite(r)
      BY <1>9, <2>3, LawfulIs DEF Writing
    <2>4. CASE Lawful(r) /\ IsBit(r)
      <3>1. r.bytes # <<>>
        BY <2>3, <2>4 DEF LawfulWrite
      <3> QED
        BY <1>5, <1>9, <2>1, <2>3, <2>4, <3>1, WriteTagFragmentedPlan DEF Writing
    <2>5. CASE Lawful(r) /\ ~IsBit(r)
      <3>1. p = Store(w.offset + r.offset, r.bytes)
        BY <1>9, <2>5, WriteTagFragmentedPlan
      <3>3. p.do = "write" /\ p.at = w.offset + r.offset /\ p.len = Len(r.bytes) /\ p.bytes = r.bytes
        BY <3>1, StoreFields
      <3>4. w.offset + r.offset + Len(r.bytes) <= Shape[r.tag].size
        BY <1>2, <1>9, <2>3, <2>5 DEF LawfulWrite, Fits
      <3>5. From(r) = w.offset + r.offset /\ Width(r) = Len(r.bytes)
        BY <1>2, <1>9 DEF From, Width
      <3> HIDE DEF p, w
      <3>6. p.at \in Nat /\ p.len \in Nat
        BY <1>2, <1>9, <3>3
      <3>7. \A i \in 1..p.len : p.bytes[i] = IF i <= Len(r.bytes) THEN r.bytes[i] ELSE {}
        BY <1>2, <1>9, <3>3
      <3>8. PlanOK(r, p)
        BY <1>2, <1>9, <2>1, <2>5, <3>3, <3>4, <3>5, <3>6, <3>7, StoresOK DEF Writing
      <3> QED
        BY <3>8 DEF p
    <2> QED
      BY <2>2, <2>4, <2>5
  <1>10. CASE r.by # "template" /\ r.service = "ReadModifyWrite"
    <2>1. Served(r) <=> Lawful(r)
      BY <1>10 DEF Served
    <2>2. CASE ~Lawful(r)
      BY <1>1, <1>10, <2>1, <2>2, ReadModifyWritePlan
    <2>3. CASE Lawful(r)
      <3>1. p = Plan("modify", "ok", 0, Smaller(Len(r.bytes), Shape[r.tag].size), "")
        BY <1>10, <2>3, ReadModifyWritePlan
      <3>2. p.do = "modify" /\ p.at = 0 /\ p.len = Smaller(Len(r.bytes), Shape[r.tag].size)
        <4> DEFINE f == Plan("modify", "ok", 0, Smaller(Len(r.bytes), Shape[r.tag].size), "")
        <4>1. f.do = "modify" /\ f.at = 0 /\ f.len = Smaller(Len(r.bytes), Shape[r.tag].size)
          BY DEF Plan
        <4> QED
          BY <3>1, <4>1, Zenon
      <3>3. Len(r.keep) >= Len(r.bytes)
        BY <1>10, <2>3, LawfulIs
      <3>4. Width(r) = Smaller(Len(r.bytes), Shape[r.tag].size)
        BY <1>10 DEF Width
      <3>5. Width(r) \in Nat /\ Width(r) <= Len(r.bytes) /\ Width(r) <= Shape[r.tag].size
        BY <1>2, <1>10, <3>4 DEF Smaller
      <3> HIDE DEF p, w
      <3>6. p.do \notin {"nothing", "read", "write", "bit", "definition"}
        BY <3>2
      <3>7. /\ p.at \in Nat /\ p.len \in Nat /\ p.at + p.len <= Shape[r.tag].size
            /\ p.at = 0 /\ p.len = Width(r) /\ p.len <= Len(r.bytes) /\ p.len <= Len(r.keep)
        BY <1>2, <1>10, <3>2, <3>3, <3>4, <3>5
      <3>8. PlanOK(r, p)
        BY <1>10, <2>1, <2>3, <3>2, <3>6, <3>7 DEF PlanOK
      <3> QED
        BY <3>8 DEF p
    <2> QED
      BY <2>2, <2>3
  <1>11. CASE r.by # "template" /\ r.service \notin Reading \cup Writing \cup {"ReadModifyWrite"}
    <2>1. ~Lawful(r) /\ Refused(p)
      BY <1>11, OtherPlan
    <2>2. ~Served(r)
      BY <1>11, <2>1 DEF Served, Reading
    <2> QED
      BY <1>1, <2>1, <2>2
  <1> QED
    BY <1>3, <1>6, <1>7, <1>8, <1>9, <1>10, <1>11 DEF Reading, Writing

---------------------------------------------------------------------------
\* The data of a request that goes on.
LEMMA ChunkOK ==
  ASSUME NEW bytes \in Seq(Byte), NEW o \in 0..Len(bytes)
  PROVE  /\ ChunkFrom(bytes, o) \in Seq(Byte)
         /\ Len(ChunkFrom(bytes, o)) = Smaller(Len(bytes), o + ChunkBytes) - o
         /\ \A i \in 1..Len(ChunkFrom(bytes, o)) : ChunkFrom(bytes, o)[i] = bytes[o + i]
  <1> DEFINE n == Smaller(Len(bytes), o + ChunkBytes)
             c == SubSeq(bytes, o + 1, n)
  <1>1. n \in o..Len(bytes) /\ o \in Nat /\ Len(bytes) \in Nat
    BY MemoryAssumption DEF Smaller
  <1> HIDE DEF n
  <1>2. \A i \in (o + 1)..n : bytes[i] \in Byte
    BY <1>1
  <1>3. /\ c \in Seq(Byte)
        /\ Len(c) = IF o + 1 <= n THEN n - (o + 1) + 1 ELSE 0
        /\ \A i \in 1..(n - (o + 1) + 1) : c[i] = bytes[(o + 1) + i - 1]
    BY <1>1, <1>2, SubSeqProperties
  <1>4. Len(c) = n - o
    BY <1>1, <1>3
  <1>5. \A i \in 1..Len(c) : c[i] = bytes[o + i]
    BY <1>1, <1>3, <1>4
  <1> HIDE DEF c
  <1> QED
    BY <1>3, <1>4, <1>5 DEF ChunkFrom, n, c

\* A client asks for one byte more than the definition of a template has.
LEMMA AskedSizeOK ==
  ASSUME NEW r, WellFormed(r), r.by = "template"
  PROVE  Layout[r.tag].definition \in Nat \ {0} /\ AskedSize(r) = Layout[r.tag].definition + 1
  <1> DEFINE t == Layout[r.tag]
  <1>1. TemplateOK(Layout, t)
    BY LayoutOK DEF WellFormed
  <1>2. t.definition \in Nat \ {0} /\ t.definition % 4 = 0 /\ t.words = (21 + t.definition + 3) \div 4
    BY <1>1 DEF TemplateOK
  <1>3. AskedSize(r) = t.words * 4 - 23
    BY DEF AskedSize, ReadSize
  <1> HIDE DEF t
  <1>4. t.words * 4 = t.definition + 24
    BY <1>2
  <1> QED
    BY <1>2, <1>3, <1>4 DEF t

\* What a client sends first for a transfer.
LEMMA FirstOK ==
  ASSUME NEW x \in Transfers
  PROVE  RequestOK(x, First(x.request), Requests(x)[1])
  <1> DEFINE q == x.request
  <1>1. /\ WellFormed(q) /\ Requests(x)[1] = q
        /\ x.rest # <<>> => q.by # "template" /\ q.service \in {"ReadTag", "WriteTag"}
    <2>1. 1 \in 1..(Len(x.rest) + 1)
      BY RequestsOK
    <2> QED
      BY <2>1, RequestsOK
  <1> HIDE DEF q
  <1>2. q \in Request /\ (q.by = "template" => q.service = "TemplateRead")
    BY <1>1 DEF WellFormed
  <1>3. CASE q.service = "WriteTagFragmented"
    <2> DEFINE b == ChunkFrom(q.bytes, 0)
               r == [q EXCEPT !.bytes = b]
    <2>1. q.bytes \in Seq(Byte) /\ Len(q.bytes) \in Nat /\ q.offset \in Nat
      <3>1. q.bytes \in Seq(Byte) /\ q.offset \in Nat
        BY <1>2 DEF Request
      <3> QED
        BY <3>1
    <2>2. b \in Seq(Byte)
      BY <2>1, ChunkOK
    <2>3. First(q) = r
      BY <1>2, <1>3 DEF First
    <2> HIDE DEF b
    <2>4. /\ r \in Request /\ r.service = q.service /\ r.tag = q.tag /\ r.by = q.by
          /\ r.segments = q.segments /\ r.elem = q.elem /\ r.cut = q.cut /\ r.type = q.type
          /\ r.keep = q.keep /\ r.offset = q.offset /\ r.bytes = b /\ r.count = q.count
      BY <1>2, <2>2 DEF Request
    <2> HIDE DEF r
    <2>5. r.offset - q.offset = 0 /\ 0 \in 0..Len(q.bytes)
      BY <2>1, <2>4
    <2>6. Chunk(r, q)
      BY <2>4, <2>5 DEF Chunk, b
    <2>7. RequestOK(x, r, q)
      BY <1>1, <1>3, <2>4, <2>6 DEF RequestOK
    <2> QED
      BY <1>1, <2>3, <2>7 DEF q
  <1>4. CASE q.service # "WriteTagFragmented" /\ q.by = "template"
    <2> DEFINE n == AskedSize(q)
               r == [q EXCEPT !.count = n]
    <2>1. n \in Nat
      BY <1>1, <1>4, AskedSizeOK
    <2>2. First(q) = r
      BY <1>4 DEF First
    <2> HIDE DEF n
    <2>3. /\ r \in Request /\ r.service = q.service /\ r.tag = q.tag /\ r.by = q.by
          /\ r.segments = q.segments /\ r.elem = q.elem /\ r.cut = q.cut /\ r.type = q.type
          /\ r.keep = q.keep /\ r.bytes = q.bytes
      BY <1>2, <2>1 DEF Request
    <2> HIDE DEF r
    <2>4. RequestOK(x, r, q)
      BY <1>1, <1>4, <2>3 DEF RequestOK
    <2> QED
      BY <1>1, <2>2, <2>4 DEF q
  <1>5. CASE q.service # "WriteTagFragmented" /\ q.by # "template"
    <2>1. First(q) = q
      BY <1>5 DEF First
    <2>2. RequestOK(x, q, q)
      BY <1>2, <1>5 DEF RequestOK
    <2> QED
      BY <1>1, <2>1, <2>2 DEF q
  <1> QED
    BY <1>3, <1>4, <1>5

---------------------------------------------------------------------------
\* The invariant behind the types: the buffers, the rows of the sessions as functions, and
\* for each session where it is in its transfer.
Memory == DOMAIN data = Tags /\ \A t \in Tags : data[t] \in [0..(Shape[t].size - 1) -> Byte]

Rows ==
  /\ transfer \in [Session -> {{}} \cup {{x} : x \in Transfers}]
  /\ pc \in [Session -> PCs] /\ clean \in [Session -> BOOLEAN]
  /\ DOMAIN request = Session /\ DOMAIN plan = Session /\ DOMAIN todo = Session
  /\ DOMAIN buffer = Session /\ DOMAIN answers = Session /\ DOMAIN got = Session

ControlInv == Memory /\ Rows /\ \A s \in Session : Control(s)

\* A step of s leaves the rows of the other sessions alone.
Kept(s) ==
  /\ \E tr \in {{}} \cup {{x} : x \in Transfers} : transfer' = [transfer EXCEPT ![s] = tr]
  /\ \E c : pc' = [pc EXCEPT ![s] = c]
  /\ clean' \in [Session -> BOOLEAN]
  /\ DOMAIN request' = Session /\ DOMAIN plan' = Session /\ DOMAIN todo' = Session
  /\ DOMAIN buffer' = Session /\ DOMAIN answers' = Session /\ DOMAIN got' = Session
  /\ \A c \in Session \ {s} :
       /\ request'[c] = request[c] /\ plan'[c] = plan[c] /\ todo'[c] = todo[c]
       /\ buffer'[c] = buffer[c] /\ answers'[c] = answers[c] /\ got'[c] = got[c]

\* The sessions whose transfers a write disturbs are no longer clean.
LEMMA StillCleanOK ==
  ASSUME NEW s \in Session, NEW after, Rows
  PROVE  StillClean(s, after) \in [Session -> BOOLEAN]
  <1>1. \A c \in Session : (clean[c] /\
          (c = s \/ transfer[c] = {} \/
           \A x \in transfer[c] : Changed(data, after) \cap x.own = {})) \in BOOLEAN
    BY Zenon
  <1> QED
    BY <1>1 DEF StillClean

\* A step of a session touches no row but its own.
LEMMA StepKept ==
  ASSUME NEW s \in Session, Rows, Ask(s) \/ Take(s) \/ Serve(s)
  PROVE  Kept(s)
  <1>0. transfer = [transfer EXCEPT ![s] = transfer[s]] /\ pc = [pc EXCEPT ![s] = pc[s]]
        /\ transfer[s] \in {{}} \cup {{x} : x \in Transfers}
    BY DEF Rows
  <1>1. CASE Ask(s)
    <2>1. \E tr \in {{}} \cup {{x} : x \in Transfers} : transfer' = [transfer EXCEPT ![s] = tr]
      BY <1>1 DEF Ask
    <2>2. pc' = [pc EXCEPT ![s] = "asked"] /\ UNCHANGED <<plan, todo, buffer, answers, got, clean>>
      BY <1>1 DEF Ask
    <2>3. \E r : request' = [request EXCEPT ![s] = r]
      BY <1>1 DEF Ask
    <2> QED
      BY <2>1, <2>2, <2>3 DEF Rows, Kept
  <1>2. CASE Take(s)
    <2>1. UNCHANGED <<transfer, plan, todo, buffer, answers, clean>>
      BY <1>2 DEF Take
    <2>2. Finish(s) => (\E c : pc' = [pc EXCEPT ![s] = c]) /\ request' = request
      BY DEF Finish
    <2>3. /\ \E c : pc' = [pc EXCEPT ![s] = c]
          /\ (\E r : request' = [request EXCEPT ![s] = r]) \/ request' = request
          /\ (\E g : got' = [got EXCEPT ![s] = g]) \/ got' = got
      <3>1. ASSUME TakePacket(s) PROVE <2>3!:
        BY <2>2, <3>1 DEF TakePacket
      <3>2. ASSUME Finish(s) /\ UNCHANGED got PROVE <2>3!:
        BY <2>2, <3>2
      <3>3. ASSUME TakeRead(s) PROVE <2>3!:
        BY <2>2, <3>3 DEF TakeRead
      <3>4. ASSUME TakeDefinition(s) PROVE <2>3!:
        BY <2>2, <3>4 DEF TakeDefinition
      <3>5. ASSUME TakeWrite(s) PROVE <2>3!:
        BY <2>2, <3>5 DEF TakeWrite
      <3> QED
        BY <1>2, <3>1, <3>2, <3>3, <3>4, <3>5, Zenon DEF Take
    <2> QED
      BY <1>0, <2>1, <2>3 DEF Rows, Kept
  <1>3. CASE NextInPacket(s)
    BY <1>0, <1>3 DEF NextInPacket, Rows, Kept
  <1>4. CASE Handle(s)
    <2>1. /\ UNCHANGED <<transfer, request, answers, got, clean>>
          /\ \E c : pc' = [pc EXCEPT ![s] = c]
          /\ \E p : plan' = [plan EXCEPT ![s] = p]
          /\ \E td : todo' = [todo EXCEPT ![s] = td]
          /\ \E bf : buffer' = [buffer EXCEPT ![s] = bf]
      BY <1>4, Zenon DEF Handle
    <2> QED
      BY <1>0, <2>1 DEF Rows, Kept
  <1>5. CASE CopyOut(s)
    <2>1. /\ UNCHANGED <<transfer, request, pc, plan, answers, got, clean>>
          /\ \E td : todo' = [todo EXCEPT ![s] = td]
          /\ \E bf : buffer' = [buffer EXCEPT ![s] = bf]
      BY <1>5, Zenon DEF CopyOut
    <2> QED
      BY <1>0, <2>1 DEF Rows, Kept
  <1>6. CASE CopiedOut(s)
    <2>1. /\ UNCHANGED <<transfer, request, plan, answers, got, clean>>
          /\ \E c : pc' = [pc EXCEPT ![s] = c]
          /\ (\E td : todo' = [todo EXCEPT ![s] = td]) \/ todo' = todo
          /\ (\E bf : buffer' = [buffer EXCEPT ![s] = bf]) \/ buffer' = buffer
      BY <1>6, Zenon DEF CopiedOut
    <2> QED
      BY <1>0, <2>1 DEF Rows, Kept
  <1>7. CASE CopyIn(s)
    <2>1. /\ UNCHANGED <<transfer, request, pc, plan, buffer, answers, got>>
          /\ \E td : todo' = [todo EXCEPT ![s] = td]
          /\ \E after : clean' = StillClean(s, after)
      BY <1>7, Zenon DEF CopyIn
    <2>2. clean' \in [Session -> BOOLEAN]
      BY <2>1, StillCleanOK
    <2> QED
      BY <1>0, <2>1, <2>2 DEF Rows, Kept
  <1>8. CASE CopiedIn(s)
    BY <1>0, <1>8 DEF CopiedIn, Rows, Kept
  <1>9. ASSUME NEW byte, PutByte(s, byte)
        PROVE  /\ \E c : pc' = [pc EXCEPT ![s] = c]
               /\ \E after : clean' = StillClean(s, after)
               /\ buffer' = buffer
    BY <1>9, Zenon DEF PutByte
  <1>10. CASE SetBit(s)
    <2>1. /\ UNCHANGED <<transfer, request, plan, todo, answers, got>>
          /\ \E c : pc' = [pc EXCEPT ![s] = c]
          /\ (\E after : clean' = StillClean(s, after)) \/ clean' = clean
          /\ (\E bf : buffer' = [buffer EXCEPT ![s] = bf]) \/ buffer' = buffer
      BY <1>9, <1>10, Zenon DEF SetBit
    <2>2. clean' \in [Session -> BOOLEAN]
      BY <2>1, StillCleanOK DEF Rows
    <2> QED
      BY <1>0, <2>1, <2>2 DEF Rows, Kept
  <1>11. CASE StoreByte(s)
    <2>1. UNCHANGED <<transfer, request, plan, todo, answers, got>>
      BY <1>11 DEF StoreByte
    <2>2. /\ \E c : pc' = [pc EXCEPT ![s] = c]
          /\ \E after : clean' = StillClean(s, after)
          /\ buffer' = buffer
      BY <1>9, <1>11 DEF StoreByte
    <2>3. clean' \in [Session -> BOOLEAN]
      BY <2>2, StillCleanOK
    <2> QED
      BY <1>0, <2>1, <2>2, <2>3 DEF Rows, Kept
  <1> QED
    BY <1>1, <1>2, <1>3, <1>4, <1>5, <1>6, <1>7, <1>8, <1>10, <1>11 DEF Serve

\* So the rows of all sessions are as they should be when that of s is.
LEMMA RowKept ==
  ASSUME NEW s \in Session, Rows, \A c \in Session : Control(c), Kept(s), Control(s)'
  PROVE  Rows' /\ \A c \in Session : Control(c)'
  <1>1. pc'[s] \in PCs
    <2>1. Row(transfer'[s], request'[s], pc'[s], plan'[s], todo'[s], buffer'[s], answers'[s], got'[s])
      BY DEF Control
    <2> QED
      BY <2>1 DEF Row, Busy, PCs
  <1>2. Rows'
    <2>1. PICK tr \in {{}} \cup {{x} : x \in Transfers} : transfer' = [transfer EXCEPT ![s] = tr]
      BY DEF Kept
    <2>2. PICK c : pc' = [pc EXCEPT ![s] = c]
      BY DEF Kept
    <2> DEFINE T == {{}} \cup {{x} : x \in Transfers}
    <2>3. transfer' \in [Session -> T]
      <3> HIDE DEF T
      <3> QED
        BY <2>1 DEF Rows, T
    <2>4. pc'[s] = c
      BY <2>2 DEF Rows
    <2>5. c \in PCs
      BY <1>1, <2>4
    <2>6. pc' \in [Session -> PCs]
      <3> HIDE DEF T
      <3> QED
        BY <2>2, <2>5 DEF Rows
    <2> QED
      BY <2>3, <2>6, Zenon DEF Rows, Kept
  <1>3. ASSUME NEW c \in Session \ {s}
        PROVE  /\ transfer'[c] = transfer[c] /\ request'[c] = request[c] /\ pc'[c] = pc[c]
               /\ plan'[c] = plan[c] /\ todo'[c] = todo[c] /\ buffer'[c] = buffer[c]
               /\ answers'[c] = answers[c] /\ got'[c] = got[c]
    BY <1>3 DEF Rows, Kept
  <1>4. ASSUME NEW c \in Session \ {s} PROVE Control(c)'
    BY <1>3, <1>4, Zenon DEF Control
  <1> QED
    BY <1>2, <1>4

---------------------------------------------------------------------------
\* Session s is at request m + 1 of transfer x.
Out(s, x, m) ==
  /\ transfer[s] = {x} /\ answers[s] = AnswersTo(x, m)
  /\ Busy(x, m, request[s], pc[s], plan[s], todo[s], buffer[s])
  /\ x.rest = <<>> => got[s] \in Seq(Int)

\* A session that is not idle is at a request of its transfer.
LEMMA Active ==
  ASSUME NEW s \in Session, Control(s), pc[s] # "idle"
  PROVE  \E x \in Transfers : \E m \in 0..Len(x.rest) : Out(s, x, m)
  BY Zenon DEF Control, Row, Out

\* What a session knows of the packet it is in, and of its request and plan.
LEMMA OutFacts ==
  ASSUME NEW s \in Session, NEW x \in Transfers, NEW m \in 0..Len(x.rest), Out(s, x, m)
  PROVE  /\ Len(x.rest) \in Nat /\ m \in Nat /\ Len(answers[s]) = m
         /\ m < Len(x.rest) => Rest(s) = {Requests(x)[m + 2]}
         /\ m = Len(x.rest) => Rest(s) = {}
         /\ ServedPC(s) = IF m < Len(x.rest) THEN "next" ELSE "reply"
         /\ InPacket(s) <=> x.rest # <<>>
         /\ WellFormed(Requests(x)[m + 1]) /\ RequestOK(x, request[s], Requests(x)[m + 1])
         /\ WellFormed(request[s])
         /\ pc[s] # "asked" =>
              /\ plan[s] = PlanOf(request[s]) /\ PlanOK(request[s], plan[s])
              /\ StageOK(pc[s], plan[s], m < Len(x.rest))
         /\ BufferOK(pc[s], plan[s], todo[s], buffer[s])
  <1>1. /\ Len(x.rest) \in Nat /\ DOMAIN x.rest = 1..Len(x.rest)
        /\ \A i \in 1..Len(x.rest) : Requests(x)[i + 1] = x.rest[i]
    BY RequestsOK
  <1>2. m \in Nat /\ m + 1 \in 1..(Len(x.rest) + 1)
    BY <1>1
  <1>3. Len(answers[s]) = m
    BY <1>2 DEF Out, AnswersTo
  <1>4. Rest(s) = {x.rest[i] : i \in {m + 1} \cap DOMAIN x.rest}
    BY <1>3 DEF Rest, Out
  <1>5. ASSUME m < Len(x.rest) PROVE Rest(s) = {Requests(x)[m + 2]}
    <2>1. m + 1 \in 1..Len(x.rest) /\ (m + 1) + 1 = m + 2
      BY <1>1, <1>2, <1>5
    <2>2. {m + 1} \cap DOMAIN x.rest = {m + 1}
      BY <2>1, <1>1
    <2>3. Rest(s) = {x.rest[m + 1]}
      BY <1>4, <2>2
    <2> QED
      BY <1>1, <2>1, <2>3
  <1>6. ASSUME m = Len(x.rest) PROVE Rest(s) = {}
    <2>1. {m + 1} \cap DOMAIN x.rest = {}
      BY <1>1, <1>2, <1>6
    <2> QED
      BY <1>4, <2>1
  <1>7. ServedPC(s) = IF m < Len(x.rest) THEN "next" ELSE "reply"
    <2>1. m < Len(x.rest) => Rest(s) # {}
      BY <1>5
    <2>2. ~(m < Len(x.rest)) => Rest(s) = {}
      BY <1>1, <1>2, <1>6
    <2> QED
      BY <2>1, <2>2, Zenon DEF ServedPC
  <1>8. InPacket(s) <=> x.rest # <<>>
    BY DEF InPacket, Out
  <1>9. /\ WellFormed(Requests(x)[m + 1]) /\ RequestOK(x, request[s], Requests(x)[m + 1])
    BY <1>2, RequestsOK DEF Out, Busy
  <1>10. WellFormed(request[s])
    BY <1>9, OutOK
  <1>11. pc[s] # "asked" =>
           /\ plan[s] = PlanOf(request[s]) /\ PlanOK(request[s], plan[s])
           /\ StageOK(pc[s], plan[s], m < Len(x.rest))
    <2>1. pc[s] # "asked" =>
             plan[s] = PlanOf(request[s]) /\ StageOK(pc[s], plan[s], m < Len(x.rest))
      BY Zenon DEF Out, Busy
    <2>2. PlanOK(request[s], PlanOf(request[s]))
      BY <1>10, PlanIs
    <2> QED
      BY <2>1, <2>2
  <1>12. BufferOK(pc[s], plan[s], todo[s], buffer[s])
    BY DEF Out, Busy
  <1> QED
    BY <1>1, <1>2, <1>3, <1>5, <1>6, <1>7, <1>8, <1>9, <1>10, <1>11, <1>12

\* A session is in its transfer when it has a row that says so.
LEMMA InRow ==
  ASSUME NEW s \in Session, NEW x \in Transfers, NEW m \in 0..Len(x.rest),
         transfer'[s] = {x}, answers'[s] = AnswersTo(x, m),
         x.rest = <<>> => got'[s] \in Seq(Int), todo'[s] \subseteq Words(plan'[s].at, plan'[s].len),
         Busy(x, m, request'[s], pc'[s], plan'[s], todo'[s], buffer'[s])
  PROVE  Control(s)'
  <1>1. transfer'[s] # {}
    OBVIOUS
  <1>2. Row(transfer'[s], request'[s], pc'[s], plan'[s], todo'[s], buffer'[s], answers'[s], got'[s])
    BY <1>1, Zenon DEF Row
  <1> QED
    BY <1>2, Zenon DEF Control

\* The bytes of a buffer.
LEMMA DataByte ==
  ASSUME Memory, NEW t \in Tags, NEW i \in 0..(Shape[t].size - 1)
  PROVE  data[t][i] \in Byte
  BY DEF Memory

\* The bytes that a plan moves are bytes of the tag.
LEMMA PlanBytes ==
  ASSUME NEW r, WellFormed(r), NEW p, PlanOK(r, p), p.do \in {"read", "write", "modify", "bit"}
  PROVE  /\ r.tag \in Tags /\ p.at \in Nat /\ p.len \in Nat /\ Shape[r.tag].size \in Nat
         /\ Bytes(p.at, p.len) \subseteq 0..(Shape[r.tag].size - 1)
  <1>1. r.by # "template" /\ p.at \in Nat /\ p.len \in Nat /\ p.at + p.len <= Shape[r.tag].size
    BY DEF PlanOK
  <1>2. r.tag \in Tags
    BY <1>1 DEF WellFormed
  <1>3. Shape[r.tag].size \in Nat
    BY <1>2, MemoryAssumption
  <1> QED
    BY <1>1, <1>2, <1>3 DEF Bytes

---------------------------------------------------------------------------
\* One step of a session keeps its row.
LEMMA AskControl ==
  ASSUME NEW s \in Session, ControlInv, Ask(s)
  PROVE  Control(s)'
  <1>1. PICK x \in Transfers : /\ transfer' = [transfer EXCEPT ![s] = {x}]
                               /\ request' = [request EXCEPT ![s] = First(x.request)]
    BY DEF Ask
  <1>2. transfer'[s] = {x} /\ request'[s] = First(x.request) /\ pc'[s] = "asked"
    BY <1>1 DEF Ask, ControlInv, Rows
  <1>3. UNCHANGED <<plan, todo, buffer, answers, got>>
    BY DEF Ask
  <1>4. /\ todo[s] \subseteq Words(plan[s].at, plan[s].len)
        /\ answers[s] = <<>> /\ got[s] = <<>> /\ buffer[s] = <<>>
    <2>1. Row(transfer[s], request[s], pc[s], plan[s], todo[s], buffer[s], answers[s], got[s])
      BY DEF ControlInv, Control
    <2>2. pc[s] = "idle"
      BY DEF Ask
    <2>3. transfer[s] = {}
      BY <2>1, <2>2, Zenon DEF Row, Busy
    <2> QED
      BY <2>1, <2>3, Zenon DEF Row
  <1>5. 0 \in 0..Len(x.rest) /\ Len(x.rest) \in Nat
    BY RequestsOK
  <1>6. <<>> = AnswersTo(x, 0) /\ <<>> \in Seq(Int)
    BY DEF AnswersTo
  <1>7. BufferOK("asked", plan[s], todo[s], <<>>)
    BY DEF BufferOK
  <1>8. Busy(x, 0, First(x.request), "asked", plan[s], todo[s], <<>>)
    <2>1. RequestOK(x, First(x.request), Requests(x)[0 + 1])
      BY FirstOK
    <2> QED
      BY <1>7, <2>1 DEF Busy, PCs
  <1> QED
    BY <1>2, <1>3, <1>4, <1>5, <1>6, <1>8, InRow

\* The handler decides: the row is one of a request being served, or answered.
LEMMA HandleControl ==
  ASSUME NEW s \in Session, ControlInv, Handle(s)
  PROVE  Control(s)'
  <1>1. pc[s] = "asked" /\ UNCHANGED <<transfer, request, answers, got>> /\ Control(s)
    BY DEF Handle, ControlInv
  <1>2. PICK x \in Transfers : \E m \in 0..Len(x.rest) : Out(s, x, m)
    BY <1>1, Active
  <1>3. PICK m \in 0..Len(x.rest) : Out(s, x, m)
    BY <1>2
  <1> DEFINE r    == request[s]
             p    == PlanOf(r)
             more == m < Len(x.rest)
             td   == IF p.do = "definition" THEN {} ELSE Words(p.at, p.len)
             bf   == IF p.do = "write" THEN [i \in Bytes(p.at, p.len) |-> p.bytes[i - p.at + 1]]
                     ELSE <<>>
             c    == CASE p.do \in {"read", "modify"} -> "copyOut"
                       [] p.do = "write"   -> "copyIn"
                       [] p.do = "bit"     -> "setBit"
                       [] p.do \in {"nothing", "definition"} -> ServedPC(s)
  <1>4. plan'[s] = p /\ todo'[s] = td /\ buffer'[s] = bf /\ pc'[s] = c
    <2>1. /\ plan' = [plan EXCEPT ![s] = p] /\ pc' = [pc EXCEPT ![s] = c]
          /\ todo' = [todo EXCEPT ![s] = td] /\ buffer' = [buffer EXCEPT ![s] = bf]
      BY Zenon DEF Handle, PlanOf
    <2> HIDE DEF p, c, td, bf
    <2> QED
      BY <2>1 DEF ControlInv, Rows
  <1>5. WellFormed(r) /\ PlanOK(r, p) /\ (ServedPC(s) = IF more THEN "next" ELSE "reply")
    BY <1>3, OutFacts, PlanIs
  <1> HIDE DEF p
  <1>6. /\ c \in {"copyOut", "copyIn", "setBit", "next", "reply"} /\ StageOK(c, p, more)
        /\ c = "copyIn" => p.do = "write"
    <2>1. p.do \in {"nothing", "read", "write", "modify", "bit", "definition"}
      BY <1>5 DEF PlanOK
    <2> QED
      BY <2>1, <1>5 DEF StageOK
  <1>7. td \subseteq Words(p.at, p.len)
    OBVIOUS
  <1>8. BufferOK(c, p, td, bf)
    <2>1. CASE p.do = "write"
      <3>1. /\ p.at \in Nat /\ p.len \in Nat /\ p.bytes \in Seq(Byte) /\ Len(p.bytes) = p.len
        BY <1>5, <2>1 DEF PlanOK
      <3>2. bf = [i \in Bytes(p.at, p.len) |-> p.bytes[i - p.at + 1]]
        BY <2>1
      <3>3. \A i \in Bytes(p.at, p.len) : p.bytes[i - p.at + 1] \in Byte
        BY <3>1 DEF Bytes
      <3>4. c = "copyIn"
        BY <2>1
      <3> QED
        BY <3>2, <3>3, <3>4 DEF BufferOK
    <2>2. CASE p.do # "write"
      <3>1. bf = <<>> /\ c # "storeByte" /\ c # "copyIn"
        BY <1>6, <2>2
      <3> HIDE DEF bf, c, td
      <3> QED
        BY <3>1, <2>2 DEF BufferOK
    <2> QED
      BY <2>1, <2>2
  <1>9. RequestOK(x, r, Requests(x)[m + 1]) /\ c \in PCs \ {"idle"}
    BY <1>3, <1>6, OutFacts DEF PCs
  <1> HIDE DEF c, td, bf
  <1>10. Busy(x, m, r, c, p, td, bf)
    BY <1>6, <1>8, <1>9 DEF Busy, p
  <1>11. /\ transfer'[s] = {x} /\ answers'[s] = AnswersTo(x, m) /\ request'[s] = r
         /\ x.rest = <<>> => got'[s] \in Seq(Int)
    BY <1>1, <1>3 DEF Out
  <1> QED
    BY <1>4, <1>7, <1>10, <1>11, InRow

\* A word is copied out of the tag: the copy holds bytes of the plan only.
LEMMA CopyOutControl ==
  ASSUME NEW s \in Session, ControlInv, CopyOut(s)
  PROVE  Control(s)'
  <1>1. /\ pc[s] = "copyOut" /\ UNCHANGED <<transfer, request, pc, plan, answers, got>>
        /\ Control(s) /\ todo[s] \subseteq Words(plan[s].at, plan[s].len)
    BY DEF CopyOut, ControlInv, Control, Row
  <1>2. PICK x \in Transfers : \E m \in 0..Len(x.rest) : Out(s, x, m)
    BY <1>1, Active
  <1>3. PICK m \in 0..Len(x.rest) : Out(s, x, m)
    BY <1>2
  <1> DEFINE r    == request[s]
             p    == plan[s]
             here(w) == {i \in Bytes(p.at, p.len) : WordOf(i) = w}
  <1>4. PICK w \in todo[s] :
           /\ todo' = [todo EXCEPT ![s] = todo[s] \ {w}]
           /\ buffer' = [buffer EXCEPT ![s] =
                [i \in DOMAIN buffer[s] \cup here(w) |->
                   IF i \in here(w) THEN data[r.tag][i] ELSE buffer[s][i]]]
    BY DEF CopyOut
  <1> DEFINE bf == [i \in DOMAIN buffer[s] \cup here(w) |->
                      IF i \in here(w) THEN data[r.tag][i] ELSE buffer[s][i]]
             td == todo[s] \ {w}
  <1>5. todo'[s] = td /\ buffer'[s] = bf
    BY <1>4 DEF ControlInv, Rows
  <1>6. /\ WellFormed(r) /\ p = PlanOf(r) /\ PlanOK(r, p) /\ StageOK("copyOut", p, m < Len(x.rest))
        /\ BufferOK("copyOut", p, todo[s], buffer[s]) /\ RequestOK(x, r, Requests(x)[m + 1])
    BY <1>1, <1>3, OutFacts
  <1>7. /\ r.tag \in Tags /\ Bytes(p.at, p.len) \subseteq 0..(Shape[r.tag].size - 1)
    <2>1. p.do \in {"read", "modify"}
      BY <1>6 DEF StageOK
    <2> QED
      BY <1>6, <2>1, PlanBytes
  <1>8. BufferOK("copyOut", p, td, bf)
    <2>1. ASSUME NEW i \in here(w) PROVE data[r.tag][i] \in Byte
      BY <1>7, <2>1, DataByte DEF ControlInv
    <2>2. DOMAIN bf = DOMAIN buffer[s] \cup here(w)
      OBVIOUS
    <2>3. (\A i \in DOMAIN buffer[s] : buffer[s][i] \in Byte) /\ DOMAIN buffer[s] \subseteq Bytes(p.at, p.len)
      BY <1>6 DEF BufferOK
    <2>4. \A i \in DOMAIN bf : bf[i] \in Byte
      BY <2>1, <2>3
    <2>5. DOMAIN bf \subseteq Bytes(p.at, p.len)
      BY <2>2, <2>3
    <2> QED
      BY <2>4, <2>5 DEF BufferOK
  <1> HIDE DEF bf, td
  <1>9. Busy(x, m, r, "copyOut", p, td, bf)
    BY <1>6, <1>8 DEF Busy, PCs
  <1>10. td \subseteq Words(p.at, p.len)
    BY <1>1 DEF td
  <1>11. /\ transfer'[s] = {x} /\ answers'[s] = AnswersTo(x, m) /\ request'[s] = r
         /\ x.rest = <<>> => got'[s] \in Seq(Int)
         /\ plan'[s] = p /\ pc'[s] = "copyOut"
    BY <1>1, <1>3 DEF Out
  <1> HIDE DEF r, p
  <1> QED
    BY <1>5, <1>9, <1>10, <1>11, InRow

\* The copy is complete: a modify goes on with the copy back.
LEMMA CopiedOutControl ==
  ASSUME NEW s \in Session, ControlInv, CopiedOut(s)
  PROVE  Control(s)'
  <1>1. /\ pc[s] = "copyOut" /\ UNCHANGED <<transfer, request, plan, answers, got>>
        /\ Control(s) /\ todo[s] \subseteq Words(plan[s].at, plan[s].len)
    BY DEF CopiedOut, ControlInv, Control, Row
  <1>2. PICK x \in Transfers : \E m \in 0..Len(x.rest) : Out(s, x, m)
    BY <1>1, Active
  <1>3. PICK m \in 0..Len(x.rest) : Out(s, x, m)
    BY <1>2
  <1> DEFINE r == request[s]
             p == plan[s]
  <1>4. /\ WellFormed(r) /\ p = PlanOf(r) /\ PlanOK(r, p) /\ StageOK("copyOut", p, m < Len(x.rest))
        /\ BufferOK("copyOut", p, todo[s], buffer[s]) /\ RequestOK(x, r, Requests(x)[m + 1])
        /\ ServedPC(s) = IF m < Len(x.rest) THEN "next" ELSE "reply"
    BY <1>1, <1>3, OutFacts
  <1>5. p.do \in {"read", "modify"}
    BY <1>4 DEF StageOK
  <1>6. /\ transfer'[s] = {x} /\ answers'[s] = AnswersTo(x, m) /\ request'[s] = r
        /\ x.rest = <<>> => got'[s] \in Seq(Int)
        /\ plan'[s] = p
    BY <1>1, <1>3 DEF Out
  <1>7. CASE p.do = "modify"
    <2> DEFINE bf == [i \in DOMAIN buffer[s] |-> (buffer[s][i] \cup r.bytes[i + 1]) \cap r.keep[i + 1]]
               td == Words(p.at, p.len)
    <2>1. pc'[s] = "copyIn" /\ todo'[s] = td /\ buffer'[s] = bf
      <3>1. /\ pc' = [pc EXCEPT ![s] = "copyIn"] /\ todo' = [todo EXCEPT ![s] = td]
            /\ buffer' = [buffer EXCEPT ![s] = bf]
        BY <1>7 DEF CopiedOut
      <3> HIDE DEF bf, td
      <3> QED
        BY <3>1 DEF ControlInv, Rows
    <2>2. /\ \A i \in DOMAIN buffer[s] : buffer[s][i] \in Byte
          /\ DOMAIN buffer[s] \subseteq Bytes(p.at, p.len)
      BY <1>4 DEF BufferOK
    <2>3. /\ r.bytes \in Seq(Byte) /\ p.at = 0 /\ p.len \in Nat /\ p.len <= Len(r.bytes)
          /\ Len(r.bytes) \in Nat
      <3>1. r.by # "template" /\ p.at = 0 /\ p.len \in Nat /\ p.len <= Len(r.bytes)
        BY <1>4, <1>7 DEF PlanOK
      <3> QED
        BY <1>4, <3>1, Numbers
    <2>4. ASSUME NEW i \in DOMAIN buffer[s]
          PROVE  (buffer[s][i] \cup r.bytes[i + 1]) \cap r.keep[i + 1] \in Byte
      <3>1. i + 1 \in 1..Len(r.bytes)
        BY <2>2, <2>3 DEF Bytes
      <3>2. r.bytes[i + 1] \in Byte
        BY <2>3, <3>1, ElementOfSeq
      <3> QED
        BY <2>2, <3>2 DEF Byte
    <2>5. BufferOK("copyIn", p, td, bf)
      <3>1. DOMAIN bf = DOMAIN buffer[s] /\ \A i \in DOMAIN bf : bf[i] \in Byte
        BY <2>4
      <3> HIDE DEF bf
      <3> QED
        BY <3>1, <2>2, <1>7 DEF BufferOK
    <2>6. StageOK("copyIn", p, m < Len(x.rest))
      BY <1>7 DEF StageOK
    <2> HIDE DEF bf
    <2>7. Busy(x, m, r, "copyIn", p, td, bf)
      BY <1>4, <2>5, <2>6 DEF Busy, PCs
    <2> HIDE DEF td, r, p
    <2>8. td \subseteq Words(p.at, p.len)
      BY DEF td
    <2> QED
      BY <1>6, <2>1, <2>7, <2>8, InRow
  <1>8. CASE p.do # "modify"
    <2>1. pc'[s] = ServedPC(s) /\ todo' = todo /\ buffer' = buffer
      BY <1>8 DEF CopiedOut, ControlInv, Rows
    <2>2. pc'[s] = IF m < Len(x.rest) THEN "next" ELSE "reply"
      BY <1>4, <2>1
    <2>3. StageOK(pc'[s], p, m < Len(x.rest)) /\ pc'[s] \in PCs \ {"idle"}
      BY <2>2 DEF StageOK, PCs
    <2>4. BufferOK(pc'[s], p, todo[s], buffer[s])
      BY <1>4, <2>2 DEF BufferOK
    <2>5. Busy(x, m, r, pc'[s], p, todo[s], buffer[s])
      BY <1>4, <2>3, <2>4 DEF Busy
    <2> QED
      BY <1>1, <1>6, <2>1, <2>5, InRow
  <1> QED
    BY <1>7, <1>8

\* The buffers after a byte of one tag was written stay buffers.
LEMMA MemoryPut ==
  ASSUME Memory, NEW t \in Tags, NEW f, f \in [0..(Shape[t].size - 1) -> Byte],
         data' = [data EXCEPT ![t] = f]
  PROVE  Memory'
  BY DEF Memory

\* A word is copied into the tag, whose buffer keeps its size.
LEMMA CopyInControl ==
  ASSUME NEW s \in Session, ControlInv, CopyIn(s)
  PROVE  Control(s)' /\ Memory'
  <1>1. /\ pc[s] = "copyIn" /\ UNCHANGED <<transfer, request, pc, plan, buffer, answers, got>>
        /\ Control(s) /\ todo[s] \subseteq Words(plan[s].at, plan[s].len)
    BY DEF CopyIn, ControlInv, Control, Row
  <1>2. PICK x \in Transfers : \E m \in 0..Len(x.rest) : Out(s, x, m)
    BY <1>1, Active
  <1>3. PICK m \in 0..Len(x.rest) : Out(s, x, m)
    BY <1>2
  <1> DEFINE r    == request[s]
             p    == plan[s]
             f(w) == [i \in DOMAIN data[r.tag] |->
                        IF i \in DOMAIN buffer[s] /\ WordOf(i) = w THEN buffer[s][i]
                        ELSE data[r.tag][i]]
  <1>4. /\ WellFormed(r) /\ p = PlanOf(r) /\ PlanOK(r, p) /\ StageOK("copyIn", p, m < Len(x.rest))
        /\ BufferOK("copyIn", p, todo[s], buffer[s]) /\ RequestOK(x, r, Requests(x)[m + 1])
    BY <1>1, <1>3, OutFacts
  <1>5. PICK w \in todo[s] : /\ data' = [data EXCEPT ![r.tag] = f(w)]
                             /\ todo' = [todo EXCEPT ![s] = todo[s] \ {w}]
    BY DEF CopyIn
  <1>6. r.tag \in Tags
    <2>1. p.do \in {"write", "modify"}
      BY <1>4 DEF StageOK
    <2> QED
      BY <1>4, <2>1, PlanBytes
  <1>7. f(w) \in [0..(Shape[r.tag].size - 1) -> Byte]
    <2>1. data[r.tag] \in [0..(Shape[r.tag].size - 1) -> Byte]
      BY <1>6 DEF ControlInv, Memory
    <2>2. \A i \in DOMAIN buffer[s] : buffer[s][i] \in Byte
      BY <1>4 DEF BufferOK
    <2> QED
      BY <2>1, <2>2
  <1>8. Memory'
    BY <1>5, <1>6, <1>7, MemoryPut DEF ControlInv
  <1> DEFINE td == todo[s] \ {w}
  <1>9. todo'[s] = td
    BY <1>5 DEF ControlInv, Rows
  <1>10. BufferOK("copyIn", p, td, buffer[s])
    BY <1>4 DEF BufferOK
  <1>11. Busy(x, m, r, "copyIn", p, td, buffer[s])
    BY <1>4, <1>10 DEF Busy, PCs
  <1>12. /\ transfer'[s] = {x} /\ answers'[s] = AnswersTo(x, m) /\ request'[s] = r
         /\ x.rest = <<>> => got'[s] \in Seq(Int)
         /\ plan'[s] = p /\ pc'[s] = "copyIn" /\ buffer'[s] = buffer[s]
         /\ td \subseteq Words(p.at, p.len)
    BY <1>1, <1>3 DEF Out
  <1> HIDE DEF r, p, td
  <1>13. Control(s)'
    BY <1>9, <1>11, <1>12, InRow
  <1> QED
    BY <1>8, <1>13

\* A request is served and nothing else of the session changes.
LEMMA ServedControl ==
  ASSUME NEW s \in Session, ControlInv, pc[s] \in {"copyIn", "setBit", "storeByte"},
         UNCHANGED <<transfer, request, plan, todo, buffer, answers, got>>,
         pc' = [pc EXCEPT ![s] = ServedPC(s)]
  PROVE  Control(s)'
  <1>1. Control(s) /\ todo[s] \subseteq Words(plan[s].at, plan[s].len)
    BY DEF ControlInv, Control, Row
  <1>2. PICK x \in Transfers : \E m \in 0..Len(x.rest) : Out(s, x, m)
    BY <1>1, Active
  <1>3. PICK m \in 0..Len(x.rest) : Out(s, x, m)
    BY <1>2
  <1>4. /\ plan[s] = PlanOf(request[s]) /\ BufferOK(pc[s], plan[s], todo[s], buffer[s])
        /\ RequestOK(x, request[s], Requests(x)[m + 1])
        /\ ServedPC(s) = IF m < Len(x.rest) THEN "next" ELSE "reply"
    BY <1>3, OutFacts
  <1>5. pc'[s] = IF m < Len(x.rest) THEN "next" ELSE "reply"
    BY <1>4 DEF ControlInv, Rows
  <1>6. StageOK(pc'[s], plan[s], m < Len(x.rest)) /\ pc'[s] \in PCs \ {"idle"}
    BY <1>5 DEF StageOK, PCs
  <1>7. BufferOK(pc'[s], plan[s], todo[s], buffer[s])
    BY <1>4, <1>5 DEF BufferOK
  <1>8. Busy(x, m, request[s], pc'[s], plan[s], todo[s], buffer[s])
    BY <1>4, <1>6, <1>7 DEF Busy
  <1>9. /\ transfer'[s] = {x} /\ answers'[s] = AnswersTo(x, m) /\ request'[s] = request[s]
        /\ x.rest = <<>> => got'[s] \in Seq(Int)
        /\ plan'[s] = plan[s] /\ buffer'[s] = buffer[s] /\ todo'[s] = todo[s]
    BY <1>3 DEF Out
  <1> QED
    BY <1>1, <1>8, <1>9, InRow

\* The request is served when the last word is in.
LEMMA CopiedInServed ==
  ASSUME NEW s \in Session, ControlInv, CopiedIn(s)
  PROVE  Control(s)'
  BY ServedControl DEF CopiedIn

\* A byte that is set is one of the tag's, and what is put there is a byte.
LEMMA PutByteMemory ==
  ASSUME NEW s \in Session, ControlInv, pc[s] \in {"setBit", "storeByte"}, NEW byte \in Byte,
         PutByte(s, byte)
  PROVE  Memory'
  <1>1. Control(s)
    BY DEF ControlInv
  <1>2. PICK x \in Transfers : \E m \in 0..Len(x.rest) : Out(s, x, m)
    BY <1>1, Active
  <1>3. PICK m \in 0..Len(x.rest) : Out(s, x, m)
    BY <1>2
  <1>4. /\ WellFormed(request[s]) /\ PlanOK(request[s], plan[s])
        /\ StageOK(pc[s], plan[s], m < Len(x.rest))
    BY <1>3, OutFacts
  <1>5. request[s].tag \in Tags
    <2>1. plan[s].do = "bit"
      BY <1>4 DEF StageOK
    <2> QED
      BY <1>4, <2>1, PlanBytes
  <1> DEFINE t == request[s].tag
             f == [data[t] EXCEPT ![plan[s].at] = byte]
  <1>6. data' = [data EXCEPT ![t] = f]
    BY DEF PutByte
  <1>7. f \in [0..(Shape[t].size - 1) -> Byte]
    BY <1>5 DEF ControlInv, Memory
  <1> HIDE DEF f
  <1> QED
    BY <1>5, <1>6, <1>7, MemoryPut DEF ControlInv

\* The byte with the bit.
LEMMA WithBitByte ==
  ASSUME NEW s \in Session, ControlInv, pc[s] = "setBit"
  PROVE  WithBit(s, data[request[s].tag][plan[s].at]) \in Byte
  <1>1. Control(s)
    BY DEF ControlInv
  <1>2. PICK x \in Transfers : \E m \in 0..Len(x.rest) : Out(s, x, m)
    BY <1>1, Active
  <1>3. PICK m \in 0..Len(x.rest) : Out(s, x, m)
    BY <1>2
  <1>4. /\ WellFormed(request[s]) /\ PlanOK(request[s], plan[s])
        /\ StageOK(pc[s], plan[s], m < Len(x.rest))
    BY <1>3, OutFacts
  <1>5. plan[s].do = "bit"
    BY <1>4 DEF StageOK
  <1>6. request[s].tag \in Tags /\ Bytes(plan[s].at, plan[s].len) \subseteq 0..(Shape[request[s].tag].size - 1)
        /\ plan[s].at \in Nat
    BY <1>4, <1>5, PlanBytes
  <1>7. plan[s].len = 1 /\ plan[s].bit \in Bits
    BY <1>4, <1>5 DEF PlanOK
  <1>8. plan[s].at \in 0..(Shape[request[s].tag].size - 1)
    BY <1>6, <1>7 DEF Bytes
  <1>9. data[request[s].tag][plan[s].at] \in Byte
    BY <1>6, <1>8, DataByte DEF ControlInv
  <1> QED
    BY <1>7, <1>9 DEF WithBit, Byte

\* A bit is set in its word, or its byte is loaded.
LEMMA SetBitControl ==
  ASSUME NEW s \in Session, ControlInv, SetBit(s)
  PROVE  Control(s)' /\ Memory'
  <1> DEFINE byte == data[request[s].tag][plan[s].at]
             new  == WithBit(s, byte)
  <1>1. pc[s] = "setBit" /\ UNCHANGED <<transfer, request, plan, todo, answers, got>> /\ new \in Byte
    BY WithBitByte DEF SetBit
  <1>2. CASE WholeWord(s)
    <2>1. PutByte(s, new)
      BY <1>2 DEF SetBit
    <2>2. buffer' = buffer /\ pc' = [pc EXCEPT ![s] = ServedPC(s)]
      BY <2>1 DEF PutByte
    <2> HIDE DEF new
    <2> QED
      BY <1>1, <2>1, <2>2, ServedControl, PutByteMemory
  <1>3. CASE ~WholeWord(s)
    <2> DEFINE bf == [i \in {plan[s].at} |-> new]
    <2>1. /\ buffer' = [buffer EXCEPT ![s] = bf] /\ pc' = [pc EXCEPT ![s] = "storeByte"]
          /\ data' = data
      BY <1>3 DEF SetBit
    <2>2. buffer'[s] = bf /\ pc'[s] = "storeByte"
      <3> HIDE DEF bf
      <3> QED
        BY <2>1 DEF ControlInv, Rows
    <2>3. Control(s) /\ todo[s] \subseteq Words(plan[s].at, plan[s].len)
      BY DEF ControlInv, Control, Row
    <2>4. PICK x \in Transfers : \E m \in 0..Len(x.rest) : Out(s, x, m)
      BY <1>1, <2>3, Active
    <2>5. PICK m \in 0..Len(x.rest) : Out(s, x, m)
      BY <2>4
    <2>6. /\ plan[s] = PlanOf(request[s]) /\ StageOK("setBit", plan[s], m < Len(x.rest))
          /\ RequestOK(x, request[s], Requests(x)[m + 1])
      BY <1>1, <2>5, OutFacts
    <2>7. StageOK("storeByte", plan[s], m < Len(x.rest))
      BY <2>6 DEF StageOK
    <2> HIDE DEF new
    <2>8. BufferOK("storeByte", plan[s], todo[s], bf)
      BY <1>1 DEF BufferOK
    <2> HIDE DEF bf
    <2>9. Busy(x, m, request[s], "storeByte", plan[s], todo[s], bf)
      BY <2>6, <2>7, <2>8 DEF Busy, PCs
    <2>10. /\ transfer'[s] = {x} /\ answers'[s] = AnswersTo(x, m) /\ request'[s] = request[s]
           /\ x.rest = <<>> => got'[s] \in Seq(Int)
           /\ plan'[s] = plan[s] /\ todo'[s] = todo[s]
      BY <1>1, <2>5 DEF Out
    <2>11. Control(s)'
      BY <2>2, <2>3, <2>9, <2>10, InRow
    <2>12. Memory'
      BY <2>1 DEF ControlInv, Memory
    <2> QED
      BY <2>11, <2>12
  <1> QED
    BY <1>2, <1>3

\* The loaded byte is stored, whole.
LEMMA StoreByteControl ==
  ASSUME NEW s \in Session, ControlInv, StoreByte(s)
  PROVE  Control(s)' /\ Memory'
  <1> DEFINE byte == buffer[s][plan[s].at]
  <1>1. /\ pc[s] = "storeByte" /\ UNCHANGED <<transfer, request, plan, todo, answers, got>>
        /\ PutByte(s, byte)
    BY DEF StoreByte
  <1>2. buffer' = buffer /\ pc' = [pc EXCEPT ![s] = ServedPC(s)]
    BY <1>1 DEF PutByte
  <1>3. Control(s)
    BY DEF ControlInv
  <1>4. PICK x \in Transfers : \E m \in 0..Len(x.rest) : Out(s, x, m)
    BY <1>1, <1>3, Active
  <1>5. PICK m \in 0..Len(x.rest) : Out(s, x, m)
    BY <1>4
  <1>6. BufferOK("storeByte", plan[s], todo[s], buffer[s])
    BY <1>1, <1>5, OutFacts
  <1>7. byte \in Byte
    BY <1>6 DEF BufferOK
  <1> HIDE DEF byte
  <1> QED
    BY <1>1, <1>2, <1>7, ServedControl, PutByteMemory

\* The answers of a packet, one more.
LEMMA OneMoreAnswer ==
  ASSUME NEW x, NEW m \in Nat
  PROVE  Append(AnswersTo(x, m), Answer(PlanOf(Requests(x)[m + 1]))) = AnswersTo(x, m + 1)
  <1> DEFINE f(i) == Answer(PlanOf(Requests(x)[i]))
  <1>1. AnswersTo(x, m) = [i \in 1..m |-> f(i)] /\ AnswersTo(x, m + 1) = [i \in 1..(m + 1) |-> f(i)]
    BY DEF AnswersTo
  <1> DEFINE F == [i \in Nat |-> f(i)]
  <1>2. \A i \in Nat : F[i] = f(i)
    OBVIOUS
  <1>3. AnswersTo(x, m) = [i \in 1..m |-> F[i]] /\ AnswersTo(x, m + 1) = [i \in 1..(m + 1) |-> F[i]]
    <2>1. (\A i \in 1..m : F[i] = f(i)) /\ (\A i \in 1..(m + 1) : F[i] = f(i))
      BY <1>2
    <2> HIDE DEF f, F
    <2>2. [i \in 1..m |-> f(i)] = [i \in 1..m |-> F[i]]
      BY <2>1
    <2>3. [i \in 1..(m + 1) |-> f(i)] = [i \in 1..(m + 1) |-> F[i]]
      BY <2>1
    <2> QED
      BY <1>1, <2>2, <2>3
  <1> HIDE DEF f, F
  <1>4. Append([i \in 1..m |-> F[i]], F[m + 1]) = [i \in 1..(m + 1) |-> F[i]]
    OBVIOUS
  <1>5. F[m + 1] = Answer(PlanOf(Requests(x)[m + 1]))
    BY <1>2 DEF f
  <1> QED
    BY <1>3, <1>4, <1>5

\* A packet goes on with its next request, one answer richer.
LEMMA NextInPacketControl ==
  ASSUME NEW s \in Session, ControlInv, NextInPacket(s)
  PROVE  Control(s)'
  <1>1. /\ pc[s] = "next" /\ UNCHANGED <<transfer, plan, todo, buffer, got>>
        /\ Control(s) /\ todo[s] \subseteq Words(plan[s].at, plan[s].len)
    BY DEF NextInPacket, ControlInv, Control, Row
  <1>2. PICK x \in Transfers : \E m \in 0..Len(x.rest) : Out(s, x, m)
    BY <1>1, Active
  <1>3. PICK m \in 0..Len(x.rest) : Out(s, x, m)
    BY <1>2
  <1>4. /\ m \in Nat /\ Len(x.rest) \in Nat
        /\ plan[s] = PlanOf(request[s]) /\ StageOK("next", plan[s], m < Len(x.rest))
        /\ BufferOK("next", plan[s], todo[s], buffer[s]) /\ RequestOK(x, request[s], Requests(x)[m + 1])
        /\ m < Len(x.rest) => Rest(s) = {Requests(x)[m + 2]}
    BY <1>1, <1>3, OutFacts
  <1>5. m < Len(x.rest) /\ x.rest # <<>> /\ (m + 1) + 1 \in 1..(Len(x.rest) + 1) /\ (m + 1) + 1 = m + 2
    <2>1. m < Len(x.rest)
      BY <1>4 DEF StageOK
    <2>2. x.rest # <<>>
      BY <2>1, <1>4
    <2> QED
      BY <2>1, <2>2, <1>4
  <1>6. request[s] = Requests(x)[m + 1]
    BY <1>4, <1>5 DEF RequestOK
  <1> DEFINE q == Requests(x)[(m + 1) + 1]
  <1>7. /\ WellFormed(q) /\ q.by # "template" /\ q.service \in {"ReadTag", "WriteTag"}
    BY <1>5, RequestsOK
  <1>8. RequestOK(x, q, q)
    <2> HIDE DEF q
    <2>1. q \in Request
      BY <1>7 DEF WellFormed
    <2> QED
      BY <1>7, <2>1 DEF RequestOK
  <1>9. answers'[s] = AnswersTo(x, m + 1)
    <2>1. answers' = [answers EXCEPT ![s] = AllAnswers(s)]
      BY DEF NextInPacket
    <2>2. answers'[s] = AllAnswers(s)
      BY <2>1 DEF ControlInv, Rows
    <2>3. answers[s] = AnswersTo(x, m)
      BY <1>3 DEF Out
    <2> QED
      BY <1>4, <1>6, <2>2, <2>3, OneMoreAnswer DEF AllAnswers
  <1>10. request'[s] = q /\ pc'[s] = "asked"
    BY <1>4, <1>5 DEF NextInPacket, ControlInv, Rows
  <1> HIDE DEF q
  <1>11. BufferOK("asked", plan[s], todo[s], buffer[s])
    BY <1>4 DEF BufferOK
  <1>12. Busy(x, m + 1, q, "asked", plan[s], todo[s], buffer[s])
    BY <1>8, <1>11 DEF Busy, PCs, q
  <1>13. m + 1 \in 0..Len(x.rest)
    BY <1>4, <1>5
  <1>14. /\ transfer'[s] = {x} /\ plan'[s] = plan[s] /\ todo'[s] = todo[s] /\ buffer'[s] = buffer[s]
         /\ x.rest = <<>> => got'[s] \in Seq(Int)
    BY <1>1, <1>3 DEF Out
  <1> QED
    BY <1>1, <1>9, <1>10, <1>12, <1>13, <1>14, InRow

\* The items of a reply, and those that are left when a header is taken off.
LEMMA ItemsOK ==
  ASSUME NEW p, p.at \in Nat, p.len \in Nat
  PROVE  /\ ReplyItems(p) \in Seq(Int) /\ Len(ReplyItems(p)) = Prefix(p.type) + p.len
         /\ \A i \in 1..(Prefix(p.type) + p.len) :
              ReplyItems(p)[i] = IF i <= Prefix(p.type) THEN Marker
                                 ELSE p.at + (i - Prefix(p.type) - 1)
  <1> DEFINE k == Prefix(p.type)
             n == k + p.len
             f == [i \in 1..n |-> IF i <= k THEN Marker ELSE p.at + (i - k - 1)]
  <1>1. k \in Nat /\ n \in Nat
    BY ReplyRoom
  <1>2. ReplyItems(p) = f
    BY DEF ReplyItems
  <1> HIDE DEF k, n
  <1>3. f \in [1..n -> Int]
    BY <1>1 DEF Marker
  <1>4. f \in Seq(Int) /\ Len(f) = n
    <2> HIDE DEF f
    <2> QED
      BY <1>1, <1>3
  <1>5. \A i \in 1..n : f[i] = IF i <= k THEN Marker ELSE p.at + (i - k - 1)
    OBVIOUS
  <1> QED
    BY <1>2, <1>4, <1>5 DEF k, n

\* The header that the client takes off has a length.
LEMMA StripOK ==
  ASSUME NEW s \in Session
  PROVE  Strip(s) \in Nat
  BY MemoryAssumption DEF Strip

\* A sequence without its first k elements.
LEMMA Stripped ==
  ASSUME NEW items \in Seq(Int), NEW k \in Nat
  PROVE  /\ SubSeq(items, k + 1, Len(items)) \in Seq(Int)
         /\ Len(SubSeq(items, k + 1, Len(items))) = IF k <= Len(items) THEN Len(items) - k ELSE 0
         /\ \A i \in 1..(Len(items) - k) : SubSeq(items, k + 1, Len(items))[i] = items[k + i]
  <1> DEFINE n == Len(items)
             t == SubSeq(items, k + 1, n)
  <1>1. n \in Nat /\ \A i \in (k + 1)..n : items[i] \in Int
    OBVIOUS
  <1> HIDE DEF n
  <1>2. /\ t \in Seq(Int) /\ Len(t) = IF k + 1 <= n THEN n - (k + 1) + 1 ELSE 0
        /\ \A i \in 1..(n - (k + 1) + 1) : t[i] = items[(k + 1) + i - 1]
    BY <1>1, SubSeqProperties
  <1> HIDE DEF t
  <1>3. Len(t) = IF k <= n THEN n - k ELSE 0
    BY <1>1, <1>2
  <1>4. \A i \in 1..(n - k) : t[i] = items[k + i]
    BY <1>1, <1>2
  <1> QED
    BY <1>2, <1>3, <1>4 DEF n, t

\* The client goes on with its transfer, or is done with it.
LEMMA GoesOn ==
  ASSUME NEW s \in Session, ControlInv, pc[s] = "reply",
         NEW x \in Transfers, NEW m \in 0..Len(x.rest), Out(s, x, m),
         UNCHANGED <<transfer, plan, todo, buffer, answers>>,
         x.rest = <<>> => got'[s] \in Seq(Int),
         \/ pc'[s] = "asked" /\ RequestOK(x, request'[s], Requests(x)[m + 1])
         \/ pc'[s] = "done" /\ request'[s] = request[s]
  PROVE  Control(s)'
  <1>1. Control(s) /\ todo[s] \subseteq Words(plan[s].at, plan[s].len)
    BY DEF ControlInv, Control, Row
  <1>2. /\ plan[s] = PlanOf(request[s]) /\ StageOK("reply", plan[s], m < Len(x.rest))
        /\ BufferOK("reply", plan[s], todo[s], buffer[s])
        /\ RequestOK(x, request[s], Requests(x)[m + 1])
    BY OutFacts
  <1>3. Busy(x, m, request'[s], pc'[s], plan[s], todo[s], buffer[s])
    <2>1. StageOK("done", plan[s], m < Len(x.rest))
      BY <1>2 DEF StageOK
    <2>2. \A c \in {"asked", "done"} : BufferOK(c, plan[s], todo[s], buffer[s])
      BY <1>2 DEF BufferOK
    <2>3. "done" # "asked" /\ {"asked", "done"} \subseteq PCs \ {"idle"}
      BY DEF PCs
    <2>4. CASE pc'[s] = "asked" /\ RequestOK(x, request'[s], Requests(x)[m + 1])
      BY <2>2, <2>3, <2>4, Zenon DEF Busy
    <2>5. CASE pc'[s] = "done" /\ request'[s] = request[s]
      BY <1>2, <2>1, <2>2, <2>3, <2>5, Zenon DEF Busy
    <2> QED
      BY <2>4, <2>5
  <1>4. /\ transfer'[s] = {x} /\ answers'[s] = AnswersTo(x, m)
        /\ plan'[s] = plan[s] /\ buffer'[s] = buffer[s] /\ todo'[s] = todo[s]
    BY DEF Out
  <1> QED
    BY <1>1, <1>3, <1>4, InRow

\* A request with another offset, and another count for the definition of a template, is
\* still out for the same one.
LEMMA OffsetOK ==
  ASSUME NEW x, NEW q, NEW r, RequestOK(x, r, q), q.service # "WriteTagFragmented",
         x.rest = <<>>, NEW o \in Nat
  PROVE  /\ RequestOK(x, [r EXCEPT !.offset = o], q)
         /\ q.by = "template" => \A n \in Nat : RequestOK(x, [r EXCEPT !.offset = o, !.count = n], q)
  <1>1. r \in Request
    BY DEF RequestOK
  <1>2. RequestOK(x, [r EXCEPT !.offset = o], q)
    <2> DEFINE t == [r EXCEPT !.offset = o]
    <2>1. /\ t \in Request /\ t.service = r.service /\ t.tag = r.tag /\ t.by = r.by
          /\ t.segments = r.segments /\ t.elem = r.elem /\ t.cut = r.cut /\ t.type = r.type
          /\ t.keep = r.keep /\ t.bytes = r.bytes /\ t.count = r.count
      BY <1>1 DEF Request
    <2> HIDE DEF t
    <2>2. RequestOK(x, t, q)
      BY <2>1 DEF RequestOK
    <2> QED
      BY <2>2 DEF t
  <1>3. ASSUME q.by = "template", NEW n \in Nat
        PROVE  RequestOK(x, [r EXCEPT !.offset = o, !.count = n], q)
    <2> DEFINE t == [r EXCEPT !.offset = o, !.count = n]
    <2>1. /\ t \in Request /\ t.service = r.service /\ t.tag = r.tag /\ t.by = r.by
          /\ t.segments = r.segments /\ t.elem = r.elem /\ t.cut = r.cut /\ t.type = r.type
          /\ t.keep = r.keep /\ t.bytes = r.bytes
      BY <1>1 DEF Request
    <2> HIDE DEF t
    <2>2. RequestOK(x, t, q)
      BY <1>3, <2>1 DEF RequestOK
    <2> QED
      BY <2>2 DEF t
  <1> QED
    BY <1>2, <1>3

\* A fragment is taken: the request that is still out differs in its offset.
LEMMA TakeReadControl ==
  ASSUME NEW s \in Session, ControlInv, pc[s] = "reply", plan[s].do = "read",
         NEW x \in Transfers, NEW m \in 0..Len(x.rest), Out(s, x, m), x.rest = <<>>,
         TakeRead(s)
  PROVE  /\ got'[s] \in Seq(Int)
         /\ \/ pc'[s] = "asked" /\ RequestOK(x, request'[s], Requests(x)[m + 1])
            \/ pc'[s] = "done" /\ request'[s] = request[s]
  <1> DEFINE items == ReplyItems(plan[s])
             all   == got[s] \o SubSeq(items, Strip(s) + 1, Len(items))
             r     == request[s]
             q     == Requests(x)[m + 1]
  <1>1. /\ PlanOK(r, plan[s]) /\ RequestOK(x, r, q) /\ got[s] \in Seq(Int)
    BY OutFacts DEF Out
  <1>2. /\ r.service \in Reading /\ plan[s].at \in Nat /\ plan[s].len \in Nat
    BY <1>1 DEF PlanOK
  <1>3. all \in Seq(Int)
    <2>1. items \in Seq(Int) /\ Strip(s) \in Nat
      BY <1>2, ItemsOK, StripOK
    <2> HIDE DEF items
    <2>2. SubSeq(items, Strip(s) + 1, Len(items)) \in Seq(Int)
      BY <2>1, Stripped
    <2> QED
      BY <1>1, <2>2, Concat
  <1>4. got'[s] = all
    BY DEF TakeRead, ControlInv, Rows
  <1> HIDE DEF all
  <1>5. \/ request' = [request EXCEPT ![s].offset = Len(all)] /\ pc' = [pc EXCEPT ![s] = "asked"]
        \/ pc' = [pc EXCEPT ![s] = "done"] /\ request' = request
    BY DEF TakeRead, Finish, all
  <1>6. CASE request' = [request EXCEPT ![s].offset = Len(all)] /\ pc' = [pc EXCEPT ![s] = "asked"]
    <2>1. request'[s] = [r EXCEPT !.offset = Len(all)] /\ pc'[s] = "asked"
      BY <1>6 DEF ControlInv, Rows
    <2>2. q.service # "WriteTagFragmented"
      BY <1>1, <1>2 DEF RequestOK, Reading
    <2>3. Len(all) \in Nat
      BY <1>3
    <2> HIDE DEF r, q
    <2>4. RequestOK(x, [r EXCEPT !.offset = Len(all)], q)
      BY <1>1, <2>2, <2>3, OffsetOK
    <2>5. RequestOK(x, request'[s], q)
      BY <2>1, <2>4, Zenon
    <2> QED
      BY <1>3, <1>4, <2>1, <2>5, Zenon DEF q
  <1>7. CASE pc' = [pc EXCEPT ![s] = "done"] /\ request' = request
    BY <1>3, <1>4, <1>7 DEF ControlInv, Rows
  <1> QED
    BY <1>5, <1>6, <1>7

\* A part of a definition is taken: likewise, and in its count.
LEMMA TakeDefinitionControl ==
  ASSUME NEW s \in Session, ControlInv, pc[s] = "reply", plan[s].do = "definition",
         NEW x \in Transfers, NEW m \in 0..Len(x.rest), Out(s, x, m), x.rest = <<>>,
         TakeDefinition(s)
  PROVE  /\ got'[s] \in Seq(Int)
         /\ \/ pc'[s] = "asked" /\ RequestOK(x, request'[s], Requests(x)[m + 1])
            \/ pc'[s] = "done" /\ request'[s] = request[s]
  <1> DEFINE r    == request[s]
             q    == Requests(x)[m + 1]
             p    == plan[s]
             part == [i \in 1..p.len |-> p.at + i - 1]
             all  == got[s] \o part
             left == AskedSize(r) - Len(all)
  <1>1. /\ WellFormed(r) /\ p = PlanOf(r) /\ PlanOK(r, p) /\ RequestOK(x, r, q) /\ got[s] \in Seq(Int)
    BY OutFacts DEF Out
  <1>2. r.by = "template" /\ Served(r)
    BY <1>1 DEF PlanOK
  <1>3. p.at \in Nat /\ p.len \in Int
    <2> DEFINE full  == Layout[r.tag].definition
               chunk == Smaller(Smaller(full - r.offset, r.count), MaxTemplateChunk)
               more  == IF r.offset + chunk < full THEN "partial" ELSE "ok"
               f     == Plan("definition", more, r.offset, chunk, "")
    <2>1. r.offset \in Nat /\ r.count \in Nat /\ MaxTemplateChunk \in Nat /\ full \in Nat
      BY <1>1, <1>2, AskedSizeOK, TemplatesAssumption DEF WellFormed, Request
    <2>2. ~r.cut /\ r.offset < full
      BY <1>2 DEF Served
    <2>3. p = f
      BY <1>1, <1>2, <2>2, TemplatePlan
    <2>4. f.at = r.offset /\ f.len = chunk
      BY DEF Plan
    <2>5. chunk \in Int
      <3> HIDE DEF full
      <3> QED
        BY <2>1 DEF Smaller
    <2> HIDE DEF f, p, chunk
    <2> QED
      BY <2>1, <2>3, <2>4, <2>5
  <1>4. all \in Seq(Int)
    <2>1. part \in Seq(Int)
      <3>1. CASE p.len \in Nat
        <4>1. part \in [1..p.len -> Int]
          BY <1>3
        <4> HIDE DEF part
        <4> QED
          BY <3>1, <4>1
      <3>2. CASE p.len \notin Nat
        <4>1. 1..p.len = 1..0
          BY <1>3, <3>2
        <4>2. part \in [1..0 -> Int]
          BY <4>1
        <4> HIDE DEF part
        <4> QED
          BY <4>2
      <3> QED
        BY <3>1, <3>2
    <2> HIDE DEF part
    <2> QED
      BY <1>1, <2>1, Concat
  <1>5. got'[s] = all
    BY DEF TakeDefinition, ControlInv, Rows
  <1> HIDE DEF all
  <1>6. \/ /\ request' = [request EXCEPT ![s].offset = Len(all), ![s].count = left]
           /\ pc' = [pc EXCEPT ![s] = "asked"] /\ left > 0
        \/ pc' = [pc EXCEPT ![s] = "done"] /\ request' = request
    BY DEF TakeDefinition, Finish, all
  <1>7. CASE /\ request' = [request EXCEPT ![s].offset = Len(all), ![s].count = left]
             /\ pc' = [pc EXCEPT ![s] = "asked"] /\ left > 0
    <2>1. request'[s] = [r EXCEPT !.offset = Len(all), !.count = left] /\ pc'[s] = "asked"
      BY <1>7 DEF ControlInv, Rows
    <2>2. q.service # "WriteTagFragmented" /\ q.by = "template"
      BY <1>1, <1>2 DEF RequestOK, WellFormed
    <2>3. Len(all) \in Nat /\ left \in Nat
      <3>1. AskedSize(r) \in Int
        BY <1>1, <1>2, AskedSizeOK
      <3> QED
        BY <1>4, <1>7, <3>1
    <2> HIDE DEF r, q, left
    <2>4. RequestOK(x, [r EXCEPT !.offset = Len(all), !.count = left], q)
      BY <1>1, <2>2, <2>3, OffsetOK
    <2>5. RequestOK(x, request'[s], q)
      BY <2>1, <2>4, Zenon
    <2> QED
      BY <1>4, <1>5, <2>1, <2>5, Zenon DEF q
  <1>8. CASE pc' = [pc EXCEPT ![s] = "done"] /\ request' = request
    BY <1>4, <1>5, <1>8 DEF ControlInv, Rows
  <1> QED
    BY <1>6, <1>7, <1>8

\* A chunk is written: the next one is a chunk of the same data.
LEMMA TakeWriteControl ==
  ASSUME NEW s \in Session, ControlInv, pc[s] = "reply",
         plan[s].do \notin {"nothing", "read", "definition"},
         NEW x \in Transfers, NEW m \in 0..Len(x.rest), Out(s, x, m), x.rest = <<>>,
         TakeWrite(s)
  PROVE  /\ got'[s] \in Seq(Int)
         /\ \/ pc'[s] = "asked" /\ RequestOK(x, request'[s], Requests(x)[m + 1])
            \/ pc'[s] = "done" /\ request'[s] = request[s]
  <1> DEFINE r     == request[s]
             q     == Requests(x)[m + 1]
             whole == (CHOOSE y \in transfer[s] : TRUE).request.bytes
             next  == r.offset + Len(r.bytes)
  <1>1. /\ WellFormed(r) /\ WellFormed(q) /\ PlanOK(r, plan[s]) /\ RequestOK(x, r, q)
        /\ got[s] \in Seq(Int) /\ got' = got
    BY OutFacts DEF Out, TakeWrite
  <1>2. q = x.request /\ whole = q.bytes
    <2>1. Len(x.rest) = 0 /\ m = 0
      OBVIOUS
    <2>2. q = x.request
      BY <2>1, RequestsOK
    <2>3. (CHOOSE y \in transfer[s] : TRUE) = x
      BY Zenon DEF Out
    <2> QED
      BY <2>2, <2>3
  <1>3. \/ /\ request' = [request EXCEPT ![s].offset = next, ![s].bytes = ChunkFrom(whole, next)]
           /\ pc' = [pc EXCEPT ![s] = "asked"] /\ next < Len(whole)
           /\ r.service = "WriteTagFragmented"
        \/ pc' = [pc EXCEPT ![s] = "done"] /\ request' = request
    BY DEF TakeWrite, Finish
  <1>4. CASE pc' = [pc EXCEPT ![s] = "done"] /\ request' = request
    BY <1>1, <1>4 DEF ControlInv, Rows
  <1>5. CASE /\ request' = [request EXCEPT ![s].offset = next, ![s].bytes = ChunkFrom(whole, next)]
             /\ pc' = [pc EXCEPT ![s] = "asked"] /\ next < Len(whole)
             /\ r.service = "WriteTagFragmented"
    <2> DEFINE b == ChunkFrom(q.bytes, next)
               t == [r EXCEPT !.offset = next, !.bytes = b]
    <2>1. request'[s] = t /\ pc'[s] = "asked"
      <3> HIDE DEF next
      <3> QED
        BY <1>2, <1>5 DEF ControlInv, Rows
    <2>2. /\ q.service = "WriteTagFragmented" /\ Chunk(r, q) /\ r \in Request
          /\ r.offset \in Nat /\ q.offset \in Nat /\ q.bytes \in Seq(Byte) /\ Len(q.bytes) \in Nat
          /\ r.bytes \in Seq(Byte) /\ Len(r.bytes) \in Nat
      <3>1. /\ q.service = "WriteTagFragmented" /\ Chunk(r, q) /\ r \in Request /\ q \in Request
        BY <1>1, <1>5 DEF RequestOK, WellFormed
      <3>2. /\ r.offset \in Nat /\ q.offset \in Nat /\ q.bytes \in Seq(Byte) /\ r.bytes \in Seq(Byte)
        BY <3>1 DEF Request
      <3> QED
        BY <3>1, <3>2
    <2>3. Len(q.bytes) > ChunkBytes /\ q.offset = 0
      <3>1. ASSUME Len(q.bytes) <= ChunkBytes PROVE FALSE
        <4>1. r.offset - q.offset = 0 /\ r.bytes = ChunkFrom(q.bytes, 0)
          BY <2>2, <3>1 DEF Chunk
        <4>2. Len(ChunkFrom(q.bytes, 0)) = Smaller(Len(q.bytes), 0 + ChunkBytes) - 0
          BY <2>2, ChunkOK
        <4>3. Len(r.bytes) = Len(q.bytes)
          BY <2>2, <3>1, <4>1, <4>2, MemoryAssumption DEF Smaller
        <4> QED
          BY <1>2, <1>5, <2>2, <4>1, <4>3
      <3>2. DescribedSingle(x)
        BY TransfersAssumption DEF Described
      <3>3. ChunkBytes \in Nat
        BY MemoryAssumption
      <3>4. Len(q.bytes) <= ChunkBytes \/ q.offset = 0
        BY <1>2, <2>2, <3>2 DEF DescribedSingle
      <3> QED
        BY <2>2, <3>1, <3>3, <3>4
    <2>4. next \in 0..Len(q.bytes)
      <3>1. next < Len(q.bytes)
        BY <1>2, <1>5
      <3>2. next \in Nat
        BY <2>2
      <3> HIDE DEF next
      <3> QED
        BY <2>2, <3>1, <3>2
    <2>5. b \in Seq(Byte)
      <3> HIDE DEF next
      <3> QED
        BY <2>2, <2>4, ChunkOK
    <2>6. next \in Nat
      BY <2>2
    <2> HIDE DEF b, next
    <2>7. /\ t \in Request /\ t.service = r.service /\ t.tag = r.tag /\ t.by = r.by
          /\ t.segments = r.segments /\ t.elem = r.elem /\ t.cut = r.cut /\ t.type = r.type
          /\ t.keep = r.keep /\ t.count = r.count /\ t.offset = next /\ t.bytes = b
      BY <2>2, <2>5, <2>6 DEF Request
    <2> HIDE DEF t
    <2>8. Chunk(t, q)
      BY <2>2, <2>3, <2>4, <2>7, MemoryAssumption DEF Chunk, b
    <2>9. RequestOK(x, t, q)
      BY <1>1, <2>2, <2>7, <2>8 DEF RequestOK
    <2> QED
      BY <1>1, <2>1, <2>9
  <1> QED
    BY <1>3, <1>4, <1>5

\* The client takes a reply, and asks for more or is done.
LEMMA TakeControl ==
  ASSUME NEW s \in Session, ControlInv, Take(s)
  PROVE  Control(s)'
  <1>1. pc[s] = "reply" /\ UNCHANGED <<data, transfer, plan, todo, buffer, answers, clean>> /\ Control(s)
    BY DEF Take, ControlInv
  <1>2. PICK x \in Transfers : \E m \in 0..Len(x.rest) : Out(s, x, m)
    BY <1>1, Active
  <1>3. PICK m \in 0..Len(x.rest) : Out(s, x, m)
    BY <1>2
  <1>4. InPacket(s) <=> x.rest # <<>>
    BY <1>3, OutFacts
  <1>5. ASSUME Finish(s) PROVE pc'[s] = "done" /\ request'[s] = request[s]
    BY <1>5 DEF Finish, ControlInv, Rows
  <1>6. /\ x.rest = <<>> => got'[s] \in Seq(Int)
        /\ \/ pc'[s] = "asked" /\ RequestOK(x, request'[s], Requests(x)[m + 1])
           \/ pc'[s] = "done" /\ request'[s] = request[s]
    <2>1. CASE InPacket(s)
      <3>1. TakePacket(s)
        BY <2>1, Zenon DEF Take
      <3> QED
        BY <1>4, <1>5, <2>1, <3>1 DEF TakePacket
    <2>2. CASE ~InPacket(s)
      <3>1. \/ plan[s].do = "nothing" /\ Finish(s) /\ UNCHANGED got
            \/ plan[s].do = "read" /\ TakeRead(s)
            \/ plan[s].do = "definition" /\ TakeDefinition(s)
            \/ plan[s].do \notin {"nothing", "read", "definition"} /\ TakeWrite(s)
        BY <2>2 DEF Take
      <3>2. x.rest = <<>> /\ got[s] \in Seq(Int)
        BY <1>3, <1>4, <2>2 DEF Out
      <3> QED
        BY <1>1, <1>3, <1>5, <3>1, <3>2, TakeReadControl, TakeDefinitionControl, TakeWriteControl
    <2> QED
      BY <2>1, <2>2
  <1> QED
    BY <1>1, <1>3, <1>6, GoesOn

---------------------------------------------------------------------------
\* The invariant holds in every state.
LEMMA ControlInit ==
  ASSUME Init
  PROVE  ControlInv
  <1>1. Memory
    <2>1. {} \in Byte
      BY DEF Byte
    <2> QED
      BY <2>1 DEF Init, Memory
  <1>2. Rows
    BY DEF Init, Rows, PCs
  <1>3. ASSUME NEW s \in Session PROVE Control(s)
    <2>1. /\ todo[s] = {} /\ transfer[s] = {} /\ pc[s] = "idle" /\ answers[s] = <<>>
          /\ got[s] = <<>> /\ buffer[s] = <<>>
      BY DEF Init
    <2> QED
      BY <2>1, Zenon DEF Control, Row
  <1> QED
    BY <1>1, <1>2, <1>3 DEF ControlInv

\* Every step keeps the rows in order and the buffers of their sizes.
LEMMA ControlStep ==
  ASSUME ControlInv, [Next]_vars
  PROVE  ControlInv'
  <1>1. CASE UNCHANGED vars
    <2>1. Memory' /\ Rows'
      BY <1>1 DEF vars, ControlInv, Memory, Rows
    <2>2. ASSUME NEW s \in Session PROVE Control(s)'
      BY <1>1, Zenon DEF vars, ControlInv, Control
    <2> QED
      BY <2>1, <2>2 DEF ControlInv
  <1>2. ASSUME NEW s \in Session, Ask(s) \/ Take(s) \/ Serve(s)
        PROVE  ControlInv'
    <2>1. Control(s)'
      BY <1>2, AskControl, TakeControl, HandleControl, CopyOutControl, CopiedOutControl,
         CopyInControl, SetBitControl, StoreByteControl, NextInPacketControl, CopiedInServed DEF Serve
    <2>2. Memory'
      <3>1. CASE CopyIn(s) \/ SetBit(s) \/ StoreByte(s)
        BY <3>1, CopyInControl, SetBitControl, StoreByteControl
      <3>2. CASE ~(CopyIn(s) \/ SetBit(s) \/ StoreByte(s))
        <4>1. data' = data
          BY <1>2, <3>2 DEF Serve, Ask, Take, Handle, CopyOut, CopiedOut, CopiedIn, NextInPacket
        <4> QED
          BY <4>1 DEF ControlInv, Memory
      <3> QED
        BY <3>1, <3>2
    <2>3. Kept(s)
      BY <1>2, StepKept DEF ControlInv
    <2> QED
      BY <2>1, <2>2, <2>3, RowKept DEF ControlInv
  <1> QED
    BY <1>1, <1>2 DEF Next

\* Whatever the transfers, buffers stay buffers, and the row of a session is that of a
\* client and a server in one of their states.
THEOREM TypeCorrect == Spec => []TypeOK
  <1>1. Init => ControlInv
    BY ControlInit
  <1>2. ControlInv /\ [Next]_vars => ControlInv'
    BY ControlStep
  <1>3. ControlInv => TypeOK
    <2> SUFFICES ASSUME ControlInv PROVE TypeOK
      OBVIOUS
    <2>1. ASSUME NEW s \in Session
          PROVE  /\ todo[s] \subseteq Words(plan[s].at, plan[s].len)
                 /\ \A i \in DOMAIN buffer[s] : buffer[s][i] \in Byte
      <3>1. Row(transfer[s], request[s], pc[s], plan[s], todo[s], buffer[s], answers[s], got[s])
        BY DEF ControlInv, Control
      <3>2. todo[s] \subseteq Words(plan[s].at, plan[s].len)
        BY <3>1 DEF Row
      <3>3. CASE pc[s] = "idle"
        <4>1. transfer[s] = {}
          BY <3>1, <3>3, Zenon DEF Row, Busy
        <4>2. buffer[s] = <<>>
          BY <3>1, <4>1, Zenon DEF Row
        <4> QED
          BY <3>2, <4>2
      <3>4. CASE pc[s] # "idle"
        <4>1. PICK x \in Transfers : \E m \in 0..Len(x.rest) : Out(s, x, m)
          BY <3>4, Active DEF ControlInv
        <4>2. BufferOK(pc[s], plan[s], todo[s], buffer[s])
          BY <4>1, OutFacts
        <4> QED
          BY <3>2, <4>2 DEF BufferOK
      <3> QED
        BY <3>3, <3>4
    <2> QED
      BY <2>1 DEF ControlInv, Memory, Rows, TypeOK
  <1> QED
    BY <1>1, <1>2, <1>3, PTL DEF Spec

---------------------------------------------------------------------------
\* What a read returns.

\* n bytes from an offset on.
Consecutive(at, n) == [i \in 1..n |-> at + i - 1]

\* They are n offsets ...
LEMMA ConsecutiveOK ==
  ASSUME NEW at \in Int, NEW n \in Nat
  PROVE  /\ Consecutive(at, n) \in Seq(Int) /\ Len(Consecutive(at, n)) = n
         /\ \A i \in 1..n : Consecutive(at, n)[i] = at + i - 1
  <1>1. Consecutive(at, n) \in [1..n -> Int]
    BY DEF Consecutive
  <1>2. Consecutive(at, n) \in Seq(Int)
    BY <1>1
  <1> QED
    BY <1>1, <1>2 DEF Consecutive

\* ... and the next ones follow on them.
LEMMA ConsecutiveMore ==
  ASSUME NEW at \in Int, NEW n \in Nat, NEW k \in Nat
  PROVE  Consecutive(at, n) \o Consecutive(at + n, k) = Consecutive(at, n + k)
  <1> DEFINE a == Consecutive(at, n)
             b == Consecutive(at + n, k)
             c == Consecutive(at, n + k)
  <1>1. /\ a \in Seq(Int) /\ Len(a) = n /\ \A i \in 1..n : a[i] = at + i - 1
        /\ b \in Seq(Int) /\ Len(b) = k /\ \A i \in 1..k : b[i] = at + n + i - 1
        /\ c \in Seq(Int) /\ Len(c) = n + k /\ \A i \in 1..(n + k) : c[i] = at + i - 1
    BY ConsecutiveOK
  <1> HIDE DEF a, b, c
  <1> DEFINE d == a \o b
  <1>2. /\ d \in Seq(Int) /\ Len(d) = n + k
        /\ \A i \in 1..(n + k) : d[i] = IF i <= n THEN a[i] ELSE b[i - n]
    <2>1. /\ a \in Seq(Int) /\ b \in Seq(Int) /\ Len(a) = n /\ Len(b) = k
      BY <1>1
    <2>2. /\ d \in Seq(Int) /\ Len(d) = Len(a) + Len(b)
          /\ \A i \in 1..(Len(a) + Len(b)) : d[i] = IF i <= Len(a) THEN a[i] ELSE b[i - Len(a)]
      BY <2>1, ConcatProperties, Zenon
    <2> HIDE DEF d
    <2> QED
      BY <2>1, <2>2, Zenon
  <1> HIDE DEF d
  <1>3. ASSUME NEW i \in 1..(n + k) PROVE d[i] = c[i]
    <2>1. CASE i <= n
      BY <1>1, <1>2, <2>1
    <2>2. CASE ~(i <= n)
      <3>1. d[i] = b[i - n] /\ i - n \in 1..k
        BY <1>2, <2>2
      <3> QED
        BY <1>1, <3>1
    <2> QED
      BY <2>1, <2>2
  <1>4. d = c
    BY <1>1, <1>2, <1>3, SeqEqual
  <1> QED
    BY <1>4 DEF a, b, c, d

\* A reply without its header.
LEMMA WithoutHeader ==
  ASSUME NEW p, p.at \in Nat, p.len \in Nat
  PROVE  SubSeq(ReplyItems(p), Prefix(p.type) + 1, Len(ReplyItems(p))) = Consecutive(p.at, p.len)
  <1> DEFINE items == ReplyItems(p)
             k     == Prefix(p.type)
             t     == SubSeq(items, k + 1, Len(items))
             c     == Consecutive(p.at, p.len)
  <1>1. /\ k \in Nat /\ items \in Seq(Int) /\ Len(items) = k + p.len
        /\ \A i \in 1..(k + p.len) : items[i] = IF i <= k THEN Marker ELSE p.at + (i - k - 1)
    BY ItemsOK, ReplyRoom
  <1> HIDE DEF items, k
  <1>2. /\ t \in Seq(Int) /\ Len(t) = IF k <= Len(items) THEN Len(items) - k ELSE 0
        /\ \A i \in 1..(Len(items) - k) : t[i] = items[k + i]
    BY <1>1, Stripped
  <1>3. c \in Seq(Int) /\ Len(c) = p.len /\ \A i \in 1..p.len : c[i] = p.at + i - 1
    <2> DEFINE o == p.at
               n == p.len
    <2>1. o \in Int /\ n \in Nat
      OBVIOUS
    <2> HIDE DEF o, n
    <2>2. /\ Consecutive(o, n) \in Seq(Int) /\ Len(Consecutive(o, n)) = n
          /\ \A i \in 1..n : Consecutive(o, n)[i] = o + i - 1
      BY <2>1, ConsecutiveOK
    <2> QED
      BY <2>2 DEF o, n
  <1> HIDE DEF t, c
  <1>4. Len(t) = p.len
    BY <1>1, <1>2
  <1>5. ASSUME NEW i \in 1..p.len PROVE t[i] = c[i]
    <2>1. t[i] = items[k + i] /\ k + i \in 1..(k + p.len) /\ ~(k + i <= k)
      BY <1>1, <1>2
    <2>2. items[k + i] = p.at + (k + i - k - 1)
      BY <1>1, <2>1
    <2> QED
      BY <1>1, <1>3, <2>1, <2>2
  <1>6. t = c
    BY <1>2, <1>3, <1>4, <1>5, SeqEqual
  <1> QED
    BY <1>6 DEF t, c, items, k

\* The bytes a request reads.
Length(r) == IF IsBit(r) THEN 1 ELSE Total(r)

\* Read Tag: all the bytes, or as many as a reply holds.
LEMMA ReadTagOK ==
  ASSUME NEW r, WellFormed(r), r.by # "template", r.service = "ReadTag",
         PlanOf(r).do = "read"
  PROVE  LET p == PlanOf(r)
         IN /\ Lawful(r) /\ p.type = PlaceOf(r).type /\ p.at = PlaceOf(r).offset
            /\ Length(r) \in Nat /\ p.at \in Nat /\ p.len \in Nat
            /\ p.len = Smaller(Length(r), MaxReplyData - Prefix(p.type))
            /\ p.status = "ok" => p.len = Length(r)
  <1> DEFINE p == PlanOf(r)
             w == PlaceOf(r)
  <1>1. PlanOK(r, p)
    BY PlanIs
  <1>2. Lawful(r)
    BY <1>1 DEF PlanOK, Served
  <1>3. w.offset \in Nat /\ Total(r) \in Nat /\ w.ok
    BY <1>2, Numbers, LawfulIs DEF Reading
  <1>4. CASE IsBit(r)
    <2>1. p = BitOf(w, "read", <<>>)
      BY <1>2, <1>4, ReadTagPlan
    <2>2. w.type = "BOOL" /\ Length(r) = 1
      BY <1>3, <1>4, PlaceFacts DEF Length
    <2> HIDE DEF p, w
    <2>3. p.at = w.offset /\ p.len = 1 /\ p.type = "BOOL" /\ p.status = "ok"
      BY <2>1, BitFields
    <2>4. MaxReplyData - Prefix(p.type) \in Nat \ {0}
      BY ReplyRoom
    <2>5. p.len = Smaller(Length(r), MaxReplyData - Prefix(p.type))
      BY <2>2, <2>3, <2>4 DEF Smaller
    <2> QED
      BY <1>2, <1>3, <2>2, <2>3, <2>5 DEF p, w
  <1>5. CASE ~IsBit(r)
    <2>1. p = Whole(w.offset, Total(r), w.type)
      BY <1>2, <1>5, ReadTagPlan
    <2>2. Length(r) = Total(r)
      BY <1>5 DEF Length
    <2> HIDE DEF p, w
    <2>3. /\ p.at = w.offset /\ p.type = w.type /\ p.len \in 0..Total(r)
          /\ p.len = Smaller(Total(r), MaxReplyData - Prefix(w.type))
          /\ p.status = IF p.len < Total(r) THEN "partial" ELSE "ok"
      BY <1>3, <2>1, WholeFields
    <2>4. p.status = "ok" => p.len = Total(r)
      BY <1>3, <2>3
    <2> QED
      BY <1>2, <1>3, <2>2, <2>3, <2>4 DEF p, w
  <1> QED
    BY <1>4, <1>5

\* Read Tag Fragmented: a part from the offset on; when the reply says that it is the last
\* one, the range as a whole was lawful.
LEMMA FragmentOK ==
  ASSUME NEW r, WellFormed(r), r.by # "template", r.service = "ReadTagFragmented",
         PlanOf(r).do = "read"
  PROVE  LET p == PlanOf(r)
         IN /\ p.at \in Nat /\ p.len \in Nat \ {0} /\ r.offset \in Nat /\ Length(r) \in Nat
            /\ p.at = PlaceOf(r).offset + r.offset
            /\ ~IsBit(r) => p.type = PlaceOf(r).type
            /\ p.status = "partial" =>
                 /\ r.offset + p.len < Length(r) /\ ~IsBit(r)
                 /\ p.len = MaxReplyData - Prefix(PlaceOf(r).type) \/ p.at + p.len = Shape[r.tag].size
            /\ p.status # "partial" => r.offset + p.len = Length(r) /\ Lawful(r)
            /\ p.status \in {"ok", "partial"}
            /\ ~r.cut /\ PlaceOf(r).ok
  <1> DEFINE p == PlanOf(r)
             w == PlaceOf(r)
  <1>1. PlanOK(r, p)
    BY PlanIs
  <1>2. FragmentLegal(r)
    BY <1>1 DEF PlanOK, Served
  <1>3. /\ w.offset \in Nat /\ Total(r) \in Nat /\ r.offset \in Nat /\ Shape[r.tag].size \in Nat
    BY Numbers
  <1>4. ~r.cut /\ w.ok
    BY <1>2 DEF FragmentLegal
  <1>5. r.service \in Reading
    BY DEF Reading
  <1>6. CASE IsBit(r)
    <2>1. p = BitOf(w, "read", <<>>)
      BY <1>2, <1>6, ReadTagFragmentedPlan
    <2>2. Length(r) = 1 /\ r.count = 1 /\ r.offset = 0
      BY <1>2, <1>6 DEF Length, FragmentLegal
    <2>3. Lawful(r)
      BY <1>4, <1>5, <1>6, <2>2, LawfulIs DEF LawfulRead
    <2> HIDE DEF p, w
    <2>4. p.at = w.offset /\ p.len = 1 /\ p.status = "ok"
      BY <2>1, BitFields
    <2> QED
      BY <1>3, <1>4, <1>6, <2>2, <2>3, <2>4 DEF p, w
  <1>7. CASE ~IsBit(r)
    <2>1. p = Fragment(w.offset, r.offset, Total(r), Shape[r.tag].size, w.type)
      BY <1>2, <1>7, ReadTagFragmentedPlan
    <2>2. Length(r) = Total(r)
      BY <1>7 DEF Length
    <2>3. r.offset < Total(r) /\ w.offset + r.offset < Shape[r.tag].size
      BY <1>2, <1>7 DEF FragmentLegal
    <2>4. /\ p.at = w.offset + r.offset /\ p.len \in Nat \ {0}
          /\ p.at + p.len <= Shape[r.tag].size /\ r.offset + p.len <= Total(r)
          /\ p.status = IF r.offset + p.len < Total(r) THEN "partial" ELSE "ok"
          /\ p.type = w.type
          /\ r.offset + p.len < Total(r) =>
               p.len = MaxReplyData - Prefix(w.type) \/ p.at + p.len = Shape[r.tag].size
      <3> DEFINE base == w.offset
                 size == Shape[r.tag].size
                 from == r.offset
                 all  == Total(r)
                 type == w.type
                 f    == Fragment(base, from, all, size, type)
      <3>1. /\ base \in Nat /\ from \in Nat /\ all \in Nat /\ size \in Nat
            /\ from < all /\ base + from < size /\ p = f
        BY <1>3, <2>1, <2>3
      <3> HIDE DEF base, size, from, all, type
      <3>2. /\ f.at = base + from /\ f.len \in Nat \ {0} /\ f.at + f.len <= size
            /\ from + f.len <= all
            /\ f.status = IF from + f.len < all THEN "partial" ELSE "ok"
            /\ f.type = type
            /\ from + f.len < all => f.len = MaxReplyData - Prefix(type) \/ f.at + f.len = size
        BY <3>1, FragmentFields, SMTT(30)
      <3> HIDE DEF f, p
      <3> QED
        BY <3>1, <3>2 DEF base, size, from, all, type
    <2> HIDE DEF p, w
    <2>5. p.status = "partial" =>
            /\ r.offset + p.len < Total(r)
            /\ p.len = MaxReplyData - Prefix(w.type) \/ p.at + p.len = Shape[r.tag].size
      BY <2>4
    <2>6. ASSUME p.status # "partial" PROVE r.offset + p.len = Total(r) /\ Lawful(r)
      <3>1. r.offset + p.len = Total(r)
        BY <1>3, <2>4, <2>6
      <3>2. Fits(r, 0, Total(r))
        BY <1>3, <2>4, <3>1 DEF Fits, w
      <3>3. LawfulRead(r)
        BY <1>3, <1>7, <2>3, <3>2 DEF LawfulRead
      <3> QED
        BY <1>4, <1>5, <3>1, <3>3, LawfulIs DEF w
    <2>7. p.status \in {"ok", "partial"}
      BY <2>4
    <2> QED
      BY <1>3, <1>4, <1>7, <2>2, <2>4, <2>5, <2>6, <2>7 DEF p, w
  <1> QED
    BY <1>6, <1>7

---------------------------------------------------------------------------
\* What a packet returns for a request depends on where the plan reads.
LEMMA SameItems ==
  ASSUME NEW p, NEW q, p.at = q.at, p.len = q.len, p.type = q.type
  PROVE  ReplyItems(p) = ReplyItems(q)
  BY Zenon DEF ReplyItems

\* The answer to a request of a packet holds what the request returns.
LEMMA AnswerItems ==
  ASSUME NEW r, WellFormed(r), r.by # "template", r.service \in {"ReadTag", "WriteTag"}
  PROVE  Answer(PlanOf(r)).items = Returned(r)
  <1> DEFINE p == PlanOf(r)
  <1>1. PlanOK(r, p)
    BY PlanIs
  <1>2. Answer(p).items = IF p.do = "read" THEN ReplyItems(p) ELSE <<>>
    BY DEF Answer
  <1>3. Served(r) <=> Lawful(r)
    BY DEF Served
  <1>4. CASE p.do = "read"
    <2>1. r.service = "ReadTag"
      BY <1>1, <1>4 DEF PlanOK, Reading
    <2>2. /\ Lawful(r) /\ p.type = PlaceOf(r).type /\ p.at = PlaceOf(r).offset
          /\ p.len = Smaller(Length(r), MaxReplyData - Prefix(p.type))
      BY <1>4, <2>1, ReadTagOK
    <2> DEFINE f == Plan("read", "ok", PlaceOf(r).offset,
                         Smaller(Length(r), MaxReplyData - Prefix(PlaceOf(r).type)), PlaceOf(r).type)
    <2>3. Returned(r) = ReplyItems(f)
      BY <2>1, <2>2, Zenon DEF Returned, Reading, Length
    <2>4. /\ f.at = PlaceOf(r).offset /\ f.type = PlaceOf(r).type
          /\ f.len = Smaller(Length(r), MaxReplyData - Prefix(PlaceOf(r).type))
      BY DEF Plan
    <2> HIDE DEF f, p
    <2>5. ReplyItems(p) = ReplyItems(f)
      BY <2>2, <2>4, SameItems
    <2> QED
      BY <1>2, <1>4, <2>3, <2>5 DEF p
  <1>5. CASE p.do # "read"
    <2>1. ~Lawful(r) \/ r.service \notin Reading
      <3> SUFFICES ASSUME Lawful(r), r.service = "ReadTag" PROVE FALSE
        BY DEF Reading
      <3>1. r.service \notin Writing /\ r.service # "ReadModifyWrite"
        BY DEF Writing
      <3>2. p.do \in {"write", "modify", "bit", "definition"}
        BY <1>1, <1>3, <1>5 DEF PlanOK
      <3> QED
        BY <1>1, <3>1, <3>2 DEF PlanOK
    <2>2. Returned(r) = <<>>
      BY <2>1, Zenon DEF Returned
    <2> QED
      BY <1>2, <1>5, <2>2
  <1> QED
    BY <1>4, <1>5

\* All the answers of a packet, one after the other, are what the transfer expects.
LEMMA PacketItems ==
  ASSUME NEW x \in Transfers, x.rest # <<>>
  PROVE  FoldLeft(Gather, <<>>, AnswersTo(x, Len(x.rest) + 1)) = x.expect
  <1> DEFINE n == Len(x.rest) + 1
             a == AnswersTo(x, n)
             e == x.expect
             R == Requests(x)
  <1>1. /\ n \in Nat /\ DOMAIN R = 1..n
        /\ \A k \in 1..n : /\ WellFormed(R[k]) /\ R[k].by # "template"
                           /\ R[k].service \in {"ReadTag", "WriteTag"}
    BY RequestsOK
  <1>2. DOMAIN a = 1..n /\ \A k \in 1..n : a[k] = Answer(PlanOf(R[k]))
    BY DEF AnswersTo
  <1>3. Len(R) = n
    <2>1. R \in Seq(Request)
      <3>1. x.request \in Request /\ x.rest \in Seq(Request)
        BY TransfersAssumption DEF Described
      <3>2. <<x.request>> \in Seq(Request)
        BY <3>1
      <3> QED
        BY <3>1, <3>2, ConcatProperties DEF Requests
    <2> HIDE DEF R
    <2>2. DOMAIN R = 1..Len(R) /\ Len(R) \in Nat
      BY <2>1
    <2> QED
      BY <1>1, <2>2
  <1>4. e \in Seq(Int) /\ DescribedPacket(x)
    BY TransfersAssumption DEF Described
  <1>5. PICK at \in [0..n -> 0..Len(e)] :
          /\ at[0] = 0 /\ at[n] = Len(e)
          /\ \A i \in 1..n : at[i - 1] <= at[i] /\ SubSeq(e, at[i - 1] + 1, at[i]) = Returned(R[i])
    BY <1>1, <1>3, <1>4, Zenon DEF DescribedPacket
  <1> HIDE DEF n, a, e, R
  <1>6. PICK tr : /\ tr[0] = <<>>
                  /\ \A k \in 1..n : tr[k] = Gather(tr[k - 1], a[k])
                  /\ tr[n] = FoldLeft(Gather, <<>>, a)
    BY <1>1, <1>2, GatherTrace
  <1>7. \A k \in 1..n : a[k].items = SubSeq(e, at[k - 1] + 1, at[k])
    BY <1>1, <1>2, <1>5, AnswerItems
  <1> DEFINE P == {k \in Nat : k <= n => tr[k] = SubSeq(e, 1, at[k])}
  <1>8. 0 \in P
    <2>1. SubSeq(e, 1, 0) = <<>>
      BY <1>4
    <2> QED
      BY <1>5, <1>6, <2>1
  <1>9. ASSUME NEW k \in Nat, k \in P PROVE k + 1 \in P
    <2> SUFFICES ASSUME k + 1 <= n PROVE tr[k + 1] = SubSeq(e, 1, at[k + 1])
      OBVIOUS
    <2>1. k + 1 \in 1..n /\ k \in 0..n /\ k + 1 \in 0..n /\ (k + 1) - 1 = k
      BY <1>1
    <2>2. tr[k] = SubSeq(e, 1, at[k])
      BY <1>9, <2>1
    <2>3. tr[k + 1] = tr[k] \o a[k + 1].items
      BY <1>6, <2>1 DEF Gather
    <2>4. a[k + 1].items = SubSeq(e, at[k] + 1, at[k + 1])
      BY <1>7, <2>1
    <2>5. at[k] \in 0..Len(e) /\ at[k + 1] \in 0..Len(e) /\ at[k] <= at[k + 1]
      BY <1>5, <2>1
    <2> DEFINE i == at[k]
               j == at[k + 1]
    <2>6. SubSeq(e, 1, i) \o SubSeq(e, i + 1, j) = SubSeq(e, 1, j)
      <3> HIDE DEF i, j
      <3>1. i \in 0..Len(e) /\ j \in 0..Len(e) /\ i <= j
        BY <2>5 DEF i, j
      <3>2. 1 \in 1..(Len(e) + 1) /\ i \in (1 - 1)..Len(e) /\ j \in i..Len(e)
        BY <1>4, <3>1
      <3> QED
        BY <1>4, <3>2, ConcatAdjacentSubSeq
    <2> QED
      BY <2>2, <2>3, <2>4, <2>6
  <1>10. n \in P
    <2> HIDE DEF P
    <2>1. Nat \subseteq P
      BY <1>8, <1>9, SetInduction
    <2> QED
      BY <1>1, <2>1
  <1>11. tr[n] = SubSeq(e, 1, Len(e))
    BY <1>1, <1>5, <1>10
  <1>12. SubSeq(e, 1, Len(e)) = e
    BY <1>4, SubSeqFull
  <1> QED
    BY <1>6, <1>11, <1>12 DEF n, a, e

---------------------------------------------------------------------------
\* The invariant of the reads: what the client has when it has request r out for q, or is
\* done; e is what it expects.

\* Fragments: all the bytes up to the offset it asks for.
FragmentsRead(q, e, r, c, p, g) ==
  /\ r.offset > 0 =>
       /\ ~IsBit(q) /\ r.offset < Total(q)
       /\ \/ Total(q) > MaxReplyData - Prefix(PlaceOf(q).type)
          \/ PlaceOf(q).offset + r.offset >= Shape[q.tag].size
  /\ c # "done" => g = Consecutive(PlaceOf(q).offset, r.offset)
  /\ c = "done" /\ p.do = "read" => Lawful(q) /\ g = e

\* The definition of a template: likewise, and it asks for all that is left and a byte more.
DefinitionRead(q, e, r, c, p, g) ==
  /\ r.offset < Layout[q.tag].definition /\ r.count = AskedSize(q) - r.offset
  /\ c # "done" => g = Consecutive(0, r.offset)
  /\ c = "done" /\ p.do = "definition" => g = e

\* Any other request is answered once.
OnceRead(e, c, p, g) ==
  /\ c # "done" => g = <<>>
  /\ c = "done" /\ p.do = "read" /\ p.status = "ok" => g = e

ReadSoFar(x, r, c, p, g) ==
  IF x.rest # <<>> THEN c = "done" => g = x.expect
  ELSE IF x.request.by = "template" THEN DefinitionRead(x.request, x.expect, r, c, p, g)
  ELSE IF x.request.service = "ReadTagFragmented" THEN FragmentsRead(x.request, x.expect, r, c, p, g)
  ELSE OnceRead(x.expect, c, p, g)

ReadingOK(s) == \A x \in transfer[s] : ReadSoFar(x, request[s], pc[s], plan[s], got[s])

\* A transfer of one request.
LEMMA Single ==
  ASSUME NEW x \in Transfers, x.rest = <<>>
  PROVE  /\ Requests(x)[1] = x.request /\ WellFormed(x.request) /\ DescribedSingle(x)
         /\ Len(x.rest) = 0 /\ DOMAIN Requests(x) = {1}
  <1>1. Len(x.rest) = 0
    OBVIOUS
  <1>2. Described(x)
    BY TransfersAssumption
  <1>3. 1 \in 1..(Len(x.rest) + 1) /\ 1..(Len(x.rest) + 1) = {1}
    BY <1>1
  <1> QED
    BY <1>1, <1>2, <1>3, RequestsOK DEF Described

\* Only a fragmented write depends on the offset reached.
LEMMA LawfulSame ==
  ASSUME NEW x, NEW q, WellFormed(q), NEW r, RequestOK(x, r, q), q.service # "WriteTagFragmented"
  PROVE  Lawful(r) <=> Lawful(q)
  <1>1. /\ PlaceOf(r) = PlaceOf(q) /\ (IsBit(r) <=> IsBit(q))
        /\ r.service = q.service /\ r.tag = q.tag /\ r.by = q.by /\ r.cut = q.cut
        /\ r.type = q.type /\ r.keep = q.keep /\ r.segments = q.segments /\ r.bytes = q.bytes
    BY OutOK
  <1>2. q.by # "template" => r.count = q.count /\ Total(r) = Total(q)
    BY OutOK
  <1>3. CASE q.by = "template"
    BY <1>1, <1>3, Zenon DEF Lawful
  <1>4. CASE q.by # "template"
    <2>1. LawfulRead(r) <=> LawfulRead(q)
      BY <1>1, <1>2, <1>4 DEF LawfulRead, Fits
    <2>2. q.service = "WriteTag" => (LawfulWrite(r) <=> LawfulWrite(q))
      BY <1>1, <1>2, <1>4 DEF LawfulWrite, Fits, IsShortWrite
    <2>3. r.by # "template" /\ q.by # "template"
      BY <1>1, <1>4
    <2>4. q.service \in Writing => q.service = "WriteTag"
      BY DEF Writing
    <2> QED
      BY <1>1, <1>4, <2>1, <2>2, <2>3, <2>4, Zenon DEF Lawful
  <1> QED
    BY <1>3, <1>4

\* Nothing is read when the transfer begins.
LEMMA ReadingAsk ==
  ASSUME NEW s \in Session, ControlInv, Ask(s)
  PROVE  ReadingOK(s)'
  <1>1. PICK x \in Transfers : /\ transfer' = [transfer EXCEPT ![s] = {x}]
                               /\ request' = [request EXCEPT ![s] = First(x.request)]
    BY DEF Ask
  <1>2. transfer'[s] = {x} /\ request'[s] = First(x.request) /\ pc'[s] = "asked"
    BY <1>1 DEF Ask, ControlInv, Rows
  <1>3. got'[s] = <<>>
    <2>1. Row(transfer[s], request[s], pc[s], plan[s], todo[s], buffer[s], answers[s], got[s])
      BY DEF ControlInv, Control
    <2>2. pc[s] = "idle" /\ got' = got
      BY DEF Ask
    <2>3. transfer[s] = {}
      BY <2>1, <2>2, Zenon DEF Row, Busy
    <2> QED
      BY <2>1, <2>2, <2>3, Zenon DEF Row
  <1> DEFINE q == x.request
             r == First(q)
  <1>4. \A o : Consecutive(o, 0) = <<>>
    BY DEF Consecutive
  <1>5. ReadSoFar(x, r, "asked", plan'[s], <<>>)
    <2>1. CASE x.rest # <<>>
      BY <2>1 DEF ReadSoFar
    <2>2. CASE x.rest = <<>> /\ q.by = "template"
      <3>1. WellFormed(q) /\ DescribedSingle(x)
        BY <2>2, Single
      <3>2. q.service = "TemplateRead" /\ q \in Request
        BY <2>2, <3>1 DEF WellFormed
      <3>3. q.offset = 0
        BY <3>1, <3>2 DEF DescribedSingle
      <3>4. r = [q EXCEPT !.count = AskedSize(q)]
        BY <2>2, <3>2 DEF First
      <3>5. Layout[q.tag].definition \in Nat \ {0} /\ AskedSize(q) = Layout[q.tag].definition + 1
        BY <2>2, <3>1, AskedSizeOK
      <3> DEFINE n == AskedSize(q)
                 t == [q EXCEPT !.count = n]
      <3>6. t.offset = q.offset /\ t.count = n
        <4> HIDE DEF n, q
        <4> QED
          BY <3>2 DEF Request
      <3> HIDE DEF r, q, t, n
      <3>7. r = t /\ n = Layout[q.tag].definition + 1
        BY <3>4, <3>5 DEF t, n
      <3>8. DefinitionRead(q, x.expect, r, "asked", plan'[s], <<>>)
        BY <1>4, <3>3, <3>5, <3>6, <3>7 DEF DefinitionRead, n
      <3> QED
        BY <2>2, <3>8 DEF ReadSoFar, q
    <2>3. CASE x.rest = <<>> /\ q.by # "template" /\ q.service = "ReadTagFragmented"
      <3>1. DescribedSingle(x)
        BY <2>3, Single
      <3>2. q.offset = 0
        BY <2>3, <3>1 DEF DescribedSingle
      <3>3. r = q
        BY <2>3 DEF First
      <3> HIDE DEF r, q
      <3>4. FragmentsRead(q, x.expect, r, "asked", plan'[s], <<>>)
        BY <1>4, <3>2, <3>3 DEF FragmentsRead
      <3> QED
        BY <2>3, <3>4 DEF ReadSoFar, q
    <2>4. CASE x.rest = <<>> /\ q.by # "template" /\ q.service # "ReadTagFragmented"
      <3>1. OnceRead(x.expect, "asked", plan'[s], <<>>)
        BY DEF OnceRead
      <3> HIDE DEF r
      <3> QED
        BY <2>4, <3>1 DEF ReadSoFar
    <2> QED
      BY <2>1, <2>2, <2>3, <2>4
  <1> HIDE DEF r, q
  <1>6. \A y \in transfer'[s] : ReadSoFar(y, request'[s], pc'[s], plan'[s], got'[s])
    BY <1>2, <1>3, <1>5, Zenon DEF r, q
  <1> QED
    BY <1>6, Zenon DEF ReadingOK

\* While a request is served the client has what it had.
LEMMA NotDone ==
  ASSUME NEW x, NEW r, NEW c, c # "done", NEW p, NEW g, ReadSoFar(x, r, c, p, g),
         NEW d, d # "done", NEW t, x.rest = <<>> => t = r, NEW u
  PROVE  ReadSoFar(x, t, d, u, g)
  <1>1. CASE x.rest # <<>>
    BY <1>1 DEF ReadSoFar
  <1>2. CASE x.rest = <<>> /\ x.request.by = "template"
    <2>1. DefinitionRead(x.request, x.expect, r, c, p, g) /\ t = r
      BY <1>2 DEF ReadSoFar
    <2>2. DefinitionRead(x.request, x.expect, t, d, u, g)
      BY <2>1, Zenon DEF DefinitionRead
    <2> QED
      BY <1>2, <2>2 DEF ReadSoFar
  <1>3. CASE x.rest = <<>> /\ x.request.by # "template" /\ x.request.service = "ReadTagFragmented"
    <2>1. FragmentsRead(x.request, x.expect, r, c, p, g) /\ t = r
      BY <1>3 DEF ReadSoFar
    <2>2. FragmentsRead(x.request, x.expect, t, d, u, g)
      BY <2>1, Zenon DEF FragmentsRead
    <2> QED
      BY <1>3, <2>2 DEF ReadSoFar
  <1>4. CASE x.rest = <<>> /\ x.request.by # "template" /\ x.request.service # "ReadTagFragmented"
    <2>1. OnceRead(x.expect, c, p, g)
      BY <1>4 DEF ReadSoFar
    <2>2. OnceRead(x.expect, d, u, g)
      BY <2>1 DEF OnceRead
    <2> QED
      BY <1>4, <2>2 DEF ReadSoFar
  <1> QED
    BY <1>1, <1>2, <1>3, <1>4

\* The server does not touch what the client has.
LEMMA ReadingServe ==
  ASSUME NEW s \in Session, ControlInv, ReadingOK(s), Serve(s)
  PROVE  ReadingOK(s)'
  <1>1. pc[s] \notin {"idle", "reply", "done"}
    BY DEF Serve, Handle, CopyOut, CopiedOut, CopyIn, CopiedIn, SetBit, StoreByte, NextInPacket
  <1>2. UNCHANGED <<transfer, got>>
    BY DEF Serve, Handle, CopyOut, CopiedOut, CopyIn, CopiedIn, SetBit, StoreByte, NextInPacket
  <1>3. PICK x \in Transfers : \E m \in 0..Len(x.rest) : Out(s, x, m)
    BY <1>1, Active DEF ControlInv
  <1>4. PICK m \in 0..Len(x.rest) : Out(s, x, m)
    BY <1>3
  <1>5. /\ ServedPC(s) # "done" /\ (pc[s] = "next" => x.rest # <<>>)
    <2>1. /\ ServedPC(s) = IF m < Len(x.rest) THEN "next" ELSE "reply"
          /\ pc[s] # "asked" => StageOK(pc[s], plan[s], m < Len(x.rest))
          /\ Len(x.rest) \in Nat /\ m \in Nat
      BY <1>4, OutFacts
    <2>2. pc[s] = "next" => m < Len(x.rest)
      BY <2>1 DEF StageOK
    <2>3. x.rest = <<>> => Len(x.rest) = 0
      OBVIOUS
    <2> QED
      BY <2>1, <2>2, <2>3
  <1>6. pc'[s] # "done"
    <2>1. CASE Handle(s)
      <3> DEFINE p == Dispatch(request[s], WalkedTo(request[s]))
                 c == CASE p.do \in {"read", "modify"} -> "copyOut"
                       [] p.do = "write"   -> "copyIn"
                       [] p.do = "bit"     -> "setBit"
                       [] p.do \in {"nothing", "definition"} -> ServedPC(s)
      <3>1. pc' = [pc EXCEPT ![s] = c]
        BY <2>1, Zenon DEF Handle
      <3>2. PlanOK(request[s], p)
        BY <1>4, OutFacts, PlanIs DEF PlanOf
      <3>3. p.do \in {"nothing", "read", "write", "modify", "bit", "definition"}
        BY <3>2 DEF PlanOK
      <3> HIDE DEF p
      <3>4. c # "done"
        BY <1>5, <3>3
      <3> HIDE DEF c
      <3> QED
        BY <3>1, <3>4 DEF ControlInv, Rows
    <2>2. CASE CopyOut(s) \/ CopyIn(s)
      BY <1>1, <2>2 DEF CopyOut, CopyIn
    <2>3. CASE CopiedOut(s)
      BY <1>5, <2>3 DEF CopiedOut, ControlInv, Rows
    <2>4. CASE CopiedIn(s)
      BY <1>5, <2>4 DEF CopiedIn, ControlInv, Rows
    <2>5. ASSUME NEW b, PutByte(s, b) PROVE pc'[s] # "done"
      BY <1>5, <2>5 DEF PutByte, ControlInv, Rows
    <2>6. CASE SetBit(s)
      <3>1. (\E b : PutByte(s, b)) \/ pc' = [pc EXCEPT ![s] = "storeByte"]
        BY <2>6, Zenon DEF SetBit
      <3>2. pc' = [pc EXCEPT ![s] = "storeByte"] => pc'[s] # "done"
        BY DEF ControlInv, Rows
      <3> QED
        BY <2>5, <3>1, <3>2
    <2>7. CASE StoreByte(s)
      BY <2>5, <2>7, Zenon DEF StoreByte
    <2>8. CASE NextInPacket(s)
      BY <2>8 DEF NextInPacket, ControlInv, Rows
    <2> QED
      BY <2>1, <2>2, <2>3, <2>4, <2>6, <2>7, <2>8 DEF Serve
  <1>7. x.rest = <<>> => request'[s] = request[s]
    <2>1. ~NextInPacket(s) => request' = request
      BY DEF Serve, Handle, CopyOut, CopiedOut, CopyIn, CopiedIn, SetBit, StoreByte
    <2>2. NextInPacket(s) => x.rest # <<>>
      BY <1>5 DEF NextInPacket
    <2> QED
      BY <2>1, <2>2
  <1>8. transfer[s] = {x}
    BY <1>4 DEF Out
  <1>9. ReadSoFar(x, request[s], pc[s], plan[s], got[s])
    BY <1>8 DEF ReadingOK
  <1>10. ReadSoFar(x, request'[s], pc'[s], plan'[s], got'[s])
    BY <1>1, <1>2, <1>6, <1>7, <1>9, NotDone
  <1>11. \A y \in transfer'[s] : ReadSoFar(y, request'[s], pc'[s], plan'[s], got'[s])
    BY <1>2, <1>8, <1>10
  <1> QED
    BY <1>11, Zenon DEF ReadingOK

\* When the last request is served the answers are those to all the requests.
LEMMA AllAnswered ==
  ASSUME NEW s \in Session, pc[s] \in {"reply", "done"},
         NEW x \in Transfers, NEW m \in 0..Len(x.rest), Out(s, x, m), x.rest # <<>>
  PROVE  AllAnswers(s) = AnswersTo(x, Len(x.rest) + 1)
  <1>1. /\ m \in Nat /\ Len(x.rest) \in Nat /\ plan[s] = PlanOf(request[s])
        /\ StageOK(pc[s], plan[s], m < Len(x.rest)) /\ RequestOK(x, request[s], Requests(x)[m + 1])
    BY OutFacts
  <1>2. m = Len(x.rest)
    BY <1>1 DEF StageOK
  <1>3. request[s] = Requests(x)[m + 1]
    BY <1>1 DEF RequestOK
  <1>4. answers[s] = AnswersTo(x, m)
    BY DEF Out
  <1> QED
    BY <1>1, <1>2, <1>3, <1>4, OneMoreAnswer DEF AllAnswers

\* The client takes a part of a definition: it has all of it when the reply is the last one.
LEMMA DefinitionTake ==
  ASSUME NEW s \in Session, ControlInv, pc[s] = "reply",
         NEW x \in Transfers, NEW m \in 0..Len(x.rest), Out(s, x, m), x.rest = <<>>,
         x.request.by = "template", ~InPacket(s), Take(s),
         DefinitionRead(x.request, x.expect, request[s], pc[s], plan[s], got[s])
  PROVE  DefinitionRead(x.request, x.expect, request'[s], pc'[s], plan'[s], got'[s])
  <1> DEFINE q    == x.request
             r    == request[s]
             p    == plan[s]
             full == Layout[q.tag].definition
  <1>1. WellFormed(q) /\ DescribedSingle(x) /\ m = 0 /\ Requests(x)[m + 1] = q
    BY Single
  <1>2. /\ WellFormed(r) /\ p = PlanOf(r) /\ PlanOK(r, p) /\ RequestOK(x, r, q)
    BY <1>1, OutFacts
  <1>3. r.by = "template" /\ r.tag = q.tag
    BY <1>2 DEF RequestOK
  <1>4. /\ r.offset < full /\ r.count = AskedSize(q) - r.offset /\ got[s] = Consecutive(0, r.offset)
    BY DEF DefinitionRead
  <1>5. full \in Nat \ {0} /\ AskedSize(q) = full + 1 /\ AskedSize(r) = full + 1
    BY <1>1, <1>2, <1>3, AskedSizeOK
  <1>6. r.offset \in Nat /\ MaxTemplateChunk \in Nat
    BY <1>2, TemplatesAssumption DEF WellFormed, Request
  <1>7. plan' = plan
    BY DEF Take
  <1>8. CASE p.do = "nothing"
    <2>1. Finish(s) /\ got' = got
      BY <1>8, Zenon DEF Take
    <2>2. pc'[s] = "done" /\ request' = request
      BY <2>1 DEF Finish, ControlInv, Rows
    <2> HIDE DEF q, full
    <2> QED
      BY <1>4, <1>7, <1>8, <2>2 DEF DefinitionRead, q, full
  <1>9. CASE p.do # "nothing"
    <2>1. p.do = "definition" /\ Served(r)
      BY <1>2, <1>3, <1>9 DEF PlanOK
    <2>2. ~r.cut
      BY <2>1, <1>3 DEF Served
    <2> DEFINE chunk == Smaller(Smaller(full - r.offset, r.count), MaxTemplateChunk)
               more  == IF r.offset + chunk < full THEN "partial" ELSE "ok"
               f     == Plan("definition", more, r.offset, chunk, "")
    <2>3. p = f
      BY <1>2, <1>3, <1>4, <2>2, TemplatePlan
    <2>4. f.at = r.offset /\ f.len = chunk /\ f.status = more
      BY DEF Plan
    <2> HIDE DEF f, p, full, r, q
    <2>5. chunk \in Nat /\ r.offset + chunk <= full
      BY <1>4, <1>5, <1>6 DEF Smaller
    <2> HIDE DEF chunk
    <2>6. p.at = r.offset /\ p.len = chunk /\ p.status = more
      BY <2>3, <2>4
    <2> DEFINE part == [i \in 1..p.len |-> p.at + i - 1]
               all  == got[s] \o part
               left == AskedSize(r) - Len(all)
    <2>7. part = Consecutive(r.offset, chunk)
      BY <2>6 DEF Consecutive
    <2>8. all = Consecutive(0, r.offset + chunk)
      <3> HIDE DEF part
      <3>1. 0 + r.offset = r.offset
        BY <1>6
      <3>2. Consecutive(0, r.offset) \o Consecutive(0 + r.offset, chunk) = Consecutive(0, r.offset + chunk)
        <4> DEFINE z == 0
                   n == r.offset
        <4>1. z \in Int /\ n \in Nat
          BY <1>6
        <4> HIDE DEF z, n
        <4>2. Consecutive(z, n) \o Consecutive(z + n, chunk) = Consecutive(z, n + chunk)
          BY <2>5, <4>1, ConsecutiveMore
        <4> QED
          BY <4>2 DEF z, n
      <3> QED
        BY <1>4, <2>7, <3>1, <3>2
    <2>9. Len(all) = r.offset + chunk
      <3>1. r.offset + chunk \in Nat
        BY <1>6, <2>5
      <3> HIDE DEF all
      <3> DEFINE z == 0
                 n == r.offset + chunk
      <3>2. z \in Int /\ n \in Nat /\ all = Consecutive(z, n)
        BY <2>8, <3>1
      <3> HIDE DEF z, n
      <3>3. Len(Consecutive(z, n)) = n
        BY <3>2, ConsecutiveOK
      <3> QED
        BY <3>2, <3>3 DEF n
    <2>10. TakeDefinition(s)
      BY <2>1, Zenon DEF Take, p
    <2>11. got'[s] = all
      BY <2>10 DEF TakeDefinition, ControlInv, Rows, p
    <2> HIDE DEF all
    <2>12. \/ /\ request' = [request EXCEPT ![s].offset = Len(all), ![s].count = left]
              /\ pc' = [pc EXCEPT ![s] = "asked"] /\ p.status = "partial"
           \/ /\ pc' = [pc EXCEPT ![s] = "done"] /\ request' = request
              /\ ~(p.status = "partial" /\ left > 0)
      BY <2>10 DEF TakeDefinition, Finish, all, p, r
    <2>13. CASE /\ request' = [request EXCEPT ![s].offset = Len(all), ![s].count = left]
                /\ pc' = [pc EXCEPT ![s] = "asked"] /\ p.status = "partial"
      <3>1. pc'[s] = "asked" /\ request'[s].offset = Len(all) /\ request'[s].count = left
        <4>1. request'[s] = [r EXCEPT !.offset = Len(all), !.count = left] /\ pc'[s] = "asked"
          BY <2>13 DEF ControlInv, Rows, r
        <4>2. r \in Request
          BY <1>2 DEF WellFormed
        <4> HIDE DEF left
        <4> QED
          BY <4>1, <4>2 DEF Request
      <3>2. r.offset + chunk < full
        BY <2>6, <2>13
      <3>3. left = AskedSize(q) - (r.offset + chunk)
        BY <1>5, <2>9
      <3> HIDE DEF left
      <3> QED
        BY <2>8, <2>9, <2>11, <3>1, <3>2, <3>3 DEF DefinitionRead, q, full
    <2>14. CASE /\ pc' = [pc EXCEPT ![s] = "done"] /\ request' = request
                /\ ~(p.status = "partial" /\ left > 0)
      <3>1. pc'[s] = "done"
        BY <2>14 DEF ControlInv, Rows
      <3>2. r.offset + chunk = full
        BY <1>5, <1>6, <2>5, <2>6, <2>9, <2>14
      <3>3. x.expect = Consecutive(0, full)
        <4>1. x.expect = [i \in 1..full |-> i - 1]
          BY <1>1 DEF DescribedSingle, q, full
        <4>2. \A i \in 1..full : 0 + i - 1 = i - 1
          BY <1>5
        <4> QED
          BY <4>1, <4>2 DEF Consecutive
      <3> QED
        BY <1>4, <2>8, <2>11, <2>14, <3>1, <3>2, <3>3 DEF DefinitionRead, q, r, full
    <2> QED
      BY <2>12, <2>13, <2>14
  <1> QED
    BY <1>8, <1>9

\* The header that the client takes off is the header of the reply, unless this is a later
\* fragment of a structure, for which it may take another one.
LEMMA StripsHeader ==
  ASSUME NEW s \in Session,
         LaterStrip = StructPrefix \/ ~IsStruct(plan[s].type) \/ got[s] = <<>>
  PROVE  Strip(s) = Prefix(plan[s].type)
  BY Zenon DEF Strip, Prefix

\* The client takes a reply with bytes of the tag.
LEMMA TakenRead ==
  ASSUME NEW s \in Session,
         LaterStrip = StructPrefix \/ ~IsStruct(plan[s].type) \/ got[s] = <<>>, ControlInv, NEW o \in Nat, NEW n \in Nat, NEW k \in Nat,
         plan[s].at = o + n, plan[s].len = k, got[s] = Consecutive(o, n), TakeRead(s)
  PROVE  /\ got'[s] = Consecutive(o, n + k) /\ Len(got'[s]) = n + k
         /\ IF request[s].service = "ReadTagFragmented" /\ plan[s].status = "partial" /\ k > 0
            THEN request' = [request EXCEPT ![s].offset = n + k] /\ pc' = [pc EXCEPT ![s] = "asked"]
            ELSE request' = request /\ pc' = [pc EXCEPT ![s] = "done"]
  <1> DEFINE p     == plan[s]
             items == ReplyItems(p)
             all   == got[s] \o SubSeq(items, Strip(s) + 1, Len(items))
  <1>1. p.at \in Nat /\ p.len \in Nat
    OBVIOUS
  <1>2. Strip(s) = Prefix(p.type) /\ Prefix(p.type) \in Nat
    BY StripsHeader, ReplyRoom
  <1>3. Len(items) = Prefix(p.type) + k
    BY <1>1, ItemsOK
  <1>4. SubSeq(items, Strip(s) + 1, Len(items)) = Consecutive(o + n, k)
    <2>1. SubSeq(items, Prefix(p.type) + 1, Len(items)) = Consecutive(p.at, p.len)
      BY <1>1, WithoutHeader
    <2> QED
      BY <1>2, <2>1
  <1>5. all = Consecutive(o, n + k)
    <2>1. o \in Int
      OBVIOUS
    <2>2. Consecutive(o, n) \o Consecutive(o + n, k) = Consecutive(o, n + k)
      BY <2>1, ConsecutiveMore
    <2> HIDE DEF items
    <2> QED
      BY <1>4, <2>2
  <1>6. got'[s] = all
    BY DEF TakeRead, ControlInv, Rows
  <1>7. Len(all) = n + k
    <2> HIDE DEF all
    <2>1. n + k \in Nat
      OBVIOUS
    <2> QED
      BY <1>5, <2>1, ConsecutiveOK
  <1>8. Len(items) > Strip(s) <=> k > 0
    BY <1>2, <1>3
  <1>9. IF request[s].service = "ReadTagFragmented" /\ p.status = "partial" /\ Len(items) > Strip(s)
        THEN request' = [request EXCEPT ![s].offset = Len(all)] /\ pc' = [pc EXCEPT ![s] = "asked"]
        ELSE request' = request /\ pc' = [pc EXCEPT ![s] = "done"]
    BY DEF TakeRead, Finish
  <1> HIDE DEF all, items
  <1> QED
    BY <1>5, <1>6, <1>7, <1>8, <1>9

\* What a transfer of one request that reads a tag expects.
LEMMA Expected ==
  ASSUME NEW x \in Transfers, x.rest = <<>>, x.request.by # "template", Lawful(x.request),
         x.request.service \in Reading
  PROVE  x.expect = Consecutive(PlaceOf(x.request).offset, Length(x.request))
  <1>1. DescribedSingle(x)
    BY Single
  <1> QED
    BY <1>1, Zenon DEF DescribedSingle, Consecutive, Length

\* A fragment: the bytes up to the next offset, or all of them.
LEMMA FragmentsTake ==
  ASSUME HeadersKnown, NEW s \in Session, ControlInv, pc[s] = "reply",
         NEW x \in Transfers, NEW m \in 0..Len(x.rest), Out(s, x, m), x.rest = <<>>,
         x.request.by # "template", x.request.service = "ReadTagFragmented", ~InPacket(s), Take(s),
         FragmentsRead(x.request, x.expect, request[s], pc[s], plan[s], got[s])
  PROVE  FragmentsRead(x.request, x.expect, request'[s], pc'[s], plan'[s], got'[s])
  <1> DEFINE q    == x.request
             r    == request[s]
             p    == plan[s]
             o    == PlaceOf(q).offset
  <1>1. WellFormed(q) /\ m = 0 /\ Requests(x)[m + 1] = q
    BY Single
  <1>2. /\ WellFormed(r) /\ p = PlanOf(r) /\ PlanOK(r, p) /\ RequestOK(x, r, q)
    BY <1>1, OutFacts
  <1>3. /\ r.by # "template" /\ r.service = "ReadTagFragmented" /\ PlaceOf(r) = PlaceOf(q)
        /\ (IsBit(r) <=> IsBit(q)) /\ Total(r) = Total(q)
    BY <1>1, <1>2, OutOK
  <1>4. /\ r.offset > 0 =>
             /\ ~IsBit(q) /\ r.offset < Total(q)
             /\ \/ Total(q) > MaxReplyData - Prefix(PlaceOf(q).type)
                \/ PlaceOf(q).offset + r.offset >= Shape[q.tag].size
        /\ got[s] = Consecutive(o, r.offset)
    BY DEF FragmentsRead
  <1>5. plan' = plan
    BY DEF Take
  <1>6. p.do \in {"nothing", "read"}
    <2>1. r.service \notin Writing /\ r.service # "ReadModifyWrite"
      BY <1>3 DEF Writing
    <2> QED
      BY <1>2, <1>3, <2>1 DEF PlanOK
  <1>7. CASE p.do = "nothing"
    <2>1. Finish(s) /\ got' = got
      BY <1>7, Zenon DEF Take
    <2>2. pc'[s] = "done" /\ request' = request
      BY <2>1 DEF Finish, ControlInv, Rows
    <2> HIDE DEF q, o
    <2> QED
      BY <1>4, <1>5, <1>7, <2>2 DEF FragmentsRead, q
  <1>8. CASE p.do = "read"
    <2>1. TakeRead(s)
      BY <1>8, Zenon DEF Take
    <2>2. /\ p.at \in Nat /\ p.len \in Nat \ {0} /\ r.offset \in Nat /\ Length(r) \in Nat
          /\ p.at = PlaceOf(r).offset + r.offset
          /\ ~IsBit(r) => p.type = PlaceOf(r).type
          /\ p.status = "partial" =>
               /\ r.offset + p.len < Length(r) /\ ~IsBit(r)
               /\ p.len = MaxReplyData - Prefix(PlaceOf(r).type) \/ p.at + p.len = Shape[r.tag].size
          /\ p.status # "partial" => r.offset + p.len = Length(r) /\ Lawful(r)
      BY <1>2, <1>3, <1>8, FragmentOK
    <2>3. o \in Nat /\ r.tag = q.tag
      BY <1>1, <1>2, PlaceFacts DEF RequestOK
    <2>8. LaterStrip = StructPrefix \/ ~IsStruct(p.type) \/ got[s] = <<>>
      <3>1. CASE r.offset = 0
        BY <1>4, <3>1 DEF Consecutive
      <3>2. CASE r.offset > 0 /\ IsStruct(p.type) /\ LaterStrip # StructPrefix
        <4>1. ~IsBit(q) /\ p.type = PlaceOf(q).type /\ IsStruct(PlaceOf(q).type)
          BY <1>3, <1>4, <2>2, <3>2
        <4>2. Total(q) <= MaxReplyData - Prefix(PlaceOf(q).type)
          BY <3>2, <4>1 DEF HeadersKnown, Prefix
        <4>3. o + r.offset < Shape[q.tag].size
          <5>1. p.at + p.len <= Shape[q.tag].size
            BY <1>2, <1>8, <2>3 DEF PlanOK
          <5>2. Shape[q.tag].size \in Nat /\ p.at = o + r.offset
            BY <1>2, <1>3, <1>8, <2>2, <2>3, PlanBytes
          <5> DEFINE size == Shape[q.tag].size
                     k    == p.len
                     n    == r.offset
                     at   == p.at
          <5>3. /\ at + k <= size /\ size \in Nat /\ at = o + n /\ k \in Nat \ {0}
                /\ n \in Nat /\ o \in Nat
            BY <2>2, <2>3, <5>1, <5>2
          <5> HIDE DEF o, size, k, n, at
          <5>4. o + n < size
            BY <5>3
          <5> QED
            BY <5>4 DEF size, n
        <4>4. Total(q) \in Nat /\ Shape[q.tag].size \in Nat
          BY <1>1, <1>2, <1>3, <2>3, Numbers
        <4>5. MaxReplyData - Prefix(PlaceOf(q).type) \in Nat
          BY ReplyRoom
        <4> HIDE DEF q, r, p
        <4> QED
          BY <1>4, <2>2, <2>3, <3>2, <4>2, <4>3, <4>4, <4>5 DEF o
      <3> QED
        BY <2>2, <3>1, <3>2
    <2>4. Length(r) = Length(q) /\ (Lawful(r) <=> Lawful(q))
      BY <1>1, <1>2, <1>3, LawfulSame DEF Length
    <2> DEFINE n == r.offset
               k == p.len
    <2>5. /\ got'[s] = Consecutive(o, n + k)
          /\ IF r.service = "ReadTagFragmented" /\ p.status = "partial" /\ k > 0
             THEN request' = [request EXCEPT ![s].offset = n + k] /\ pc' = [pc EXCEPT ![s] = "asked"]
             ELSE request' = request /\ pc' = [pc EXCEPT ![s] = "done"]
      <3>1. n \in Nat /\ k \in Nat /\ plan[s].at = o + n /\ plan[s].len = k /\ got[s] = Consecutive(o, n)
        BY <1>3, <1>4, <2>2
      <3>2. request[s].service = r.service /\ plan[s].status = p.status
        OBVIOUS
      <3>3. LaterStrip = StructPrefix \/ ~IsStruct(plan[s].type) \/ got[s] = <<>>
        BY <2>8
      <3> HIDE DEF o, n, k, r, p
      <3> QED
        BY <2>1, <2>3, <3>1, <3>2, <3>3, TakenRead
    <2> HIDE DEF p, q, o
    <2>6. CASE p.status = "partial"
      <3>1. request' = [request EXCEPT ![s].offset = n + k] /\ pc' = [pc EXCEPT ![s] = "asked"]
        BY <1>3, <2>2, <2>5, <2>6
      <3>2. pc'[s] = "asked" /\ request'[s].offset = n + k
        <4>1. request'[s] = [r EXCEPT !.offset = n + k] /\ pc'[s] = "asked"
          BY <3>1 DEF ControlInv, Rows
        <4>2. r \in Request
          BY <1>2 DEF WellFormed
        <4> HIDE DEF n, k, r
        <4> QED
          BY <4>1, <4>2 DEF Request
      <3>3. ~IsBit(q) /\ n + k < Total(q)
        BY <1>3, <2>2, <2>6 DEF Length
      <3>4. \/ Total(q) > MaxReplyData - Prefix(PlaceOf(q).type)
            \/ PlaceOf(q).offset + (n + k) >= Shape[q.tag].size
        <4>1. k = MaxReplyData - Prefix(PlaceOf(q).type) \/ p.at + k = Shape[q.tag].size
          BY <1>3, <2>2, <2>3, <2>6
        <4>2. p.at = o + n /\ n \in Nat /\ k \in Nat
          BY <1>3, <2>2 DEF o
        <4>3. Total(q) \in Nat /\ Shape[q.tag].size \in Nat
          BY <1>1, <1>2, <1>3, <2>3, Numbers
        <4> DEFINE room == MaxReplyData - Prefix(PlaceOf(q).type)
                   size == Shape[q.tag].size
        <4> HIDE DEF n, k, room, size
        <4>4. Total(q) > room \/ o + (n + k) >= size
          BY <2>3, <3>3, <4>1, <4>2, <4>3 DEF room, size
        <4> QED
          BY <4>4 DEF room, size, o
      <3> QED
        BY <2>5, <3>2, <3>3, <3>4 DEF FragmentsRead, q, o
    <2>7. CASE p.status # "partial"
      <3>1. pc'[s] = "done" /\ request' = request
        BY <2>5, <2>7 DEF ControlInv, Rows
      <3>2. Lawful(q) /\ n + k = Length(q)
        BY <2>2, <2>4, <2>7
      <3>3. x.expect = Consecutive(o, Length(q))
        <4>1. q.service \in Reading
          BY DEF Reading, q
        <4> QED
          BY <3>2, <4>1, Expected DEF q, o
      <3>4. got'[s] = x.expect
        BY <2>5, <3>2, <3>3
      <3> QED
        BY <1>4, <3>1, <3>2, <3>4 DEF FragmentsRead, q
    <2> QED
      BY <2>6, <2>7
  <1> QED
    BY <1>6, <1>7, <1>8

\* Any other answer: that of a read is all it reads, unless it says that there is more.
LEMMA OnceTake ==
  ASSUME NEW s \in Session, ControlInv, pc[s] = "reply",
         NEW x \in Transfers, NEW m \in 0..Len(x.rest), Out(s, x, m), x.rest = <<>>,
         x.request.by # "template", x.request.service # "ReadTagFragmented", ~InPacket(s), Take(s),
         OnceRead(x.expect, pc[s], plan[s], got[s])
  PROVE  OnceRead(x.expect, pc'[s], plan'[s], got'[s])
  <1> DEFINE q    == x.request
             r    == request[s]
             p    == plan[s]
             o    == PlaceOf(q).offset
  <1>1. WellFormed(q) /\ m = 0 /\ Requests(x)[m + 1] = q
    BY Single
  <1>2. /\ WellFormed(r) /\ p = PlanOf(r) /\ PlanOK(r, p) /\ RequestOK(x, r, q)
    BY <1>1, OutFacts
  <1>3. /\ r.by # "template" /\ r.service = q.service /\ PlaceOf(r) = PlaceOf(q)
        /\ (IsBit(r) <=> IsBit(q)) /\ Total(r) = Total(q)
    BY <1>1, <1>2, OutOK
  <1>4. got[s] = <<>> /\ plan' = plan
    BY DEF OnceRead, Take
  <1>5. CASE p.do = "read"
    <2>1. TakeRead(s)
      BY <1>5, Zenon DEF Take
    <2>2. r.service = "ReadTag"
      BY <1>2, <1>3, <1>5 DEF PlanOK, Reading
    <2>3. /\ Lawful(r) /\ p.at = PlaceOf(r).offset /\ Length(r) \in Nat /\ p.at \in Nat /\ p.len \in Nat
          /\ p.status = "ok" => p.len = Length(r)
      BY <1>2, <1>3, <1>5, <2>2, ReadTagOK
    <2>4. Length(r) = Length(q) /\ Lawful(q)
      <3>1. q.service # "WriteTagFragmented"
        BY <1>3, <2>2
      <3> QED
        BY <1>1, <1>2, <1>3, <2>3, <3>1, LawfulSame DEF Length
    <2>5. got[s] = Consecutive(o, 0)
      BY <1>4 DEF Consecutive
    <2> DEFINE n == 0
               k == p.len
    <2>6. got'[s] = Consecutive(o, n + k)
      <3>1. /\ o \in Nat /\ n \in Nat /\ k \in Nat /\ plan[s].at = o + n /\ plan[s].len = k
            /\ got[s] = Consecutive(o, n) /\ got[s] = <<>>
        BY <1>3, <1>4, <2>3, <2>5
      <3> HIDE DEF o, n, k, r, p
      <3>2. LaterStrip = StructPrefix \/ ~IsStruct(plan[s].type) \/ got[s] = <<>>
        BY <3>1
      <3> QED
        BY <2>1, <3>1, <3>2, TakenRead, ZenonT(30)
    <2>7. x.expect = Consecutive(o, Length(q))
      <3>1. q.service \in Reading
        BY <1>3, <2>2 DEF Reading
      <3> QED
        BY <2>4, <3>1, Expected
    <2>8. p.status = "ok" => n + k = Length(q)
      BY <2>3, <2>4
    <2>9. pc'[s] # "done" => FALSE
      BY <2>1, <2>2 DEF TakeRead, Finish, ControlInv, Rows
    <2> HIDE DEF n, k, o, q, p
    <2> QED
      BY <1>4, <2>6, <2>7, <2>8, <2>9 DEF OnceRead, p
  <1>6. CASE p.do # "read"
    <2>1. p.do # "definition"
      BY <1>2, <1>3 DEF PlanOK
    <2>2. got' = got
      <3>1. (Finish(s) /\ UNCHANGED got) \/ TakeWrite(s)
        BY <1>6, <2>1, Zenon DEF Take
      <3> QED
        BY <3>1 DEF TakeWrite
    <2> QED
      BY <1>4, <1>6, <2>2 DEF OnceRead
  <1> QED
    BY <1>5, <1>6

\* The answers of a packet are taken together.
LEMMA PacketTake ==
  ASSUME NEW s \in Session, ControlInv, pc[s] = "reply",
         NEW x \in Transfers, NEW m \in 0..Len(x.rest), Out(s, x, m), x.rest # <<>>,
         InPacket(s), Take(s)
  PROVE  got'[s] = x.expect
  <1>1. TakePacket(s)
    BY Zenon DEF Take
  <1>2. got'[s] = FoldLeft(Gather, <<>>, AllAnswers(s))
    BY <1>1 DEF TakePacket, ControlInv, Rows
  <1>3. AllAnswers(s) = AnswersTo(x, Len(x.rest) + 1)
    BY AllAnswered
  <1> QED
    BY <1>2, <1>3, PacketItems

\* The client takes a reply.
LEMMA ReadingTake ==
  ASSUME HeadersKnown, NEW s \in Session, ControlInv, ReadingOK(s), Take(s)
  PROVE  ReadingOK(s)'
  <1>1. pc[s] = "reply" /\ transfer' = transfer
    BY DEF Take
  <1>2. PICK x \in Transfers : \E m \in 0..Len(x.rest) : Out(s, x, m)
    BY <1>1, Active DEF ControlInv
  <1>3. PICK m \in 0..Len(x.rest) : Out(s, x, m)
    BY <1>2
  <1>4. transfer[s] = {x} /\ (InPacket(s) <=> x.rest # <<>>)
    BY <1>3, OutFacts DEF Out
  <1>5. ReadSoFar(x, request[s], pc[s], plan[s], got[s])
    BY <1>4 DEF ReadingOK
  <1>6. ReadSoFar(x, request'[s], pc'[s], plan'[s], got'[s])
    <2>1. CASE x.rest # <<>>
      <3>1. got'[s] = x.expect
        BY <1>1, <1>3, <1>4, <2>1, PacketTake
      <3> QED
        BY <2>1, <3>1 DEF ReadSoFar
    <2>2. CASE x.rest = <<>> /\ x.request.by = "template"
      <3>1. DefinitionRead(x.request, x.expect, request[s], pc[s], plan[s], got[s])
        BY <1>5, <2>2 DEF ReadSoFar
      <3>2. DefinitionRead(x.request, x.expect, request'[s], pc'[s], plan'[s], got'[s])
        BY <1>1, <1>3, <1>4, <2>2, <3>1, DefinitionTake
      <3> QED
        BY <2>2, <3>2 DEF ReadSoFar
    <2>3. CASE x.rest = <<>> /\ x.request.by # "template" /\ x.request.service = "ReadTagFragmented"
      <3>1. FragmentsRead(x.request, x.expect, request[s], pc[s], plan[s], got[s])
        BY <1>5, <2>3 DEF ReadSoFar
      <3>2. FragmentsRead(x.request, x.expect, request'[s], pc'[s], plan'[s], got'[s])
        BY <1>1, <1>3, <1>4, <2>3, <3>1, FragmentsTake
      <3> QED
        BY <2>3, <3>2 DEF ReadSoFar
    <2>4. CASE x.rest = <<>> /\ x.request.by # "template" /\ x.request.service # "ReadTagFragmented"
      <3>1. OnceRead(x.expect, pc[s], plan[s], got[s])
        BY <1>5, <2>4 DEF ReadSoFar
      <3>2. OnceRead(x.expect, pc'[s], plan'[s], got'[s])
        BY <1>1, <1>3, <1>4, <2>4, <3>1, OnceTake
      <3> QED
        BY <2>4, <3>2 DEF ReadSoFar
    <2> QED
      BY <2>1, <2>2, <2>3, <2>4
  <1>7. \A y \in transfer'[s] : ReadSoFar(y, request'[s], pc'[s], plan'[s], got'[s])
    BY <1>1, <1>4, <1>6
  <1> QED
    BY <1>7, Zenon DEF ReadingOK

\* The invariant of the reads, for all sessions.
ReadInv == ControlInv /\ \A s \in Session : ReadingOK(s)

\* It holds at first, when no client has a transfer ...
LEMMA ReadInit ==
  ASSUME Init
  PROVE  ReadInv
  BY ControlInit DEF Init, ReadInv, ReadingOK

\* ... and after every step, which touches the row of one session.
LEMMA ReadStep ==
  ASSUME HeadersKnown, ReadInv, [Next]_vars
  PROVE  ReadInv'
  <1>1. ControlInv'
    BY ControlStep DEF ReadInv
  <1>2. CASE UNCHANGED vars
    <2>1. ASSUME NEW s \in Session PROVE ReadingOK(s)'
      BY <1>2, Zenon DEF vars, ReadInv, ReadingOK
    <2> QED
      BY <1>1, <2>1 DEF ReadInv
  <1>3. ASSUME NEW s \in Session, Ask(s) \/ Take(s) \/ Serve(s) PROVE ReadInv'
    <2>1. ReadingOK(s)'
      BY <1>3, ReadingAsk, ReadingTake, ReadingServe DEF ReadInv
    <2>2. Kept(s)
      BY <1>3, StepKept DEF ReadInv, ControlInv
    <2>3. ASSUME NEW c \in Session \ {s} PROVE ReadingOK(c)'
      <3>1. /\ transfer'[c] = transfer[c] /\ request'[c] = request[c] /\ pc'[c] = pc[c]
            /\ plan'[c] = plan[c] /\ got'[c] = got[c]
        BY <2>2, <2>3 DEF Kept, ReadInv, ControlInv, Rows
      <3>2. ReadingOK(c)
        BY DEF ReadInv
      <3> QED
        BY <3>1, <3>2, Zenon DEF ReadingOK
    <2> QED
      BY <1>1, <2>1, <2>3 DEF ReadInv
  <1> QED
    BY <1>2, <1>3 DEF Next

\* A client that reads no structure in several fragments, or takes the right header off each
\* (read_struct_bytes of tag_client.cpp does not), and that reads to the end, has the bytes its
\* path and count address, each once and in order; the whole definition of a template; and of a
\* packet the answers to the requests that were served, in their order.
THEOREM ReadsTileHolds ==
  ASSUME HeadersKnown
  PROVE  Spec => []ReadsTile
  <1>1. Init => ReadInv
    BY ReadInit
  <1>2. ReadInv /\ [Next]_vars => ReadInv'
    BY ReadStep
  <1>3. ReadInv => ReadsTile
    <2> SUFFICES ASSUME ReadInv, NEW s \in Session, NEW y \in transfer[s], Done(s),
                        \/ InPacket(s) \/ plan[s].do = "definition"
                        \/ plan[s].do = "read" /\ plan[s].status = "ok"
                 PROVE  got[s] = y.expect
      BY DEF ReadsTile
    <2>1. pc[s] = "done"
      BY DEF Done
    <2>2. PICK x \in Transfers : \E m \in 0..Len(x.rest) : Out(s, x, m)
      BY <2>1, Active DEF ReadInv, ControlInv
    <2>3. PICK m \in 0..Len(x.rest) : Out(s, x, m)
      BY <2>2
    <2>4. y = x /\ (InPacket(s) <=> x.rest # <<>>)
      BY <2>3, OutFacts DEF Out
    <2>5. ReadSoFar(x, request[s], "done", plan[s], got[s])
      BY <2>1, <2>4 DEF ReadInv, ReadingOK
    <2>6. CASE x.rest # <<>>
      BY <2>4, <2>5, <2>6 DEF ReadSoFar
    <2>7. CASE x.rest = <<>>
      <3>1. /\ PlanOK(request[s], plan[s]) /\ RequestOK(x, request[s], x.request)
        BY <2>1, <2>3, <2>7, OutFacts, Single
      <3>2. request[s].by = x.request.by
        BY <3>1 DEF RequestOK
      <3>3. plan[s].do = "definition" => x.request.by = "template"
        BY <3>1, <3>2 DEF PlanOK
      <3>4. plan[s].do = "read" => x.request.by # "template"
        BY <3>1, <3>2 DEF PlanOK
      <3>5. \/ plan[s].do = "definition"
            \/ plan[s].do = "read" /\ plan[s].status = "ok"
        BY <2>4, <2>7
      <3> QED
        BY <2>4, <2>5, <2>7, <3>3, <3>4, <3>5 DEF ReadSoFar, DefinitionRead, FragmentsRead, OnceRead
    <2> QED
      BY <2>6, <2>7
  <1> QED
    BY <1>1, <1>2, <1>3, PTL DEF Spec

---------------------------------------------------------------------------
\* A chunk of a fragmented write is lawful if the write is.
LEMMA ChunkLawful ==
  ASSUME NEW x \in Transfers, x.rest = <<>>, NEW r, RequestOK(x, r, x.request),
         x.request.service = "WriteTagFragmented", x.request.by # "template"
  PROVE  Lawful(r) <=> Lawful(x.request)
  <1> DEFINE q == x.request
             o == r.offset - q.offset
             l == Len(q.bytes)
  <1>1. WellFormed(q) /\ DescribedSingle(x)
    BY Single
  <1>2. /\ WellFormed(r) /\ PlaceOf(r) = PlaceOf(q) /\ (IsBit(r) <=> IsBit(q)) /\ Total(r) = Total(q)
        /\ r.service = q.service /\ r.tag = q.tag /\ r.by = q.by /\ r.cut = q.cut
        /\ r.type = q.type /\ r.count = q.count
    BY <1>1, OutOK
  <1>3. /\ r.offset \in Nat /\ q.offset \in Nat /\ Total(q) \in Nat /\ PlaceOf(q).offset \in Nat
        /\ q.bytes \in Seq(Byte) /\ l \in Nat /\ r.bytes \in Seq(Byte) /\ Len(r.bytes) \in Nat
        /\ Shape[q.tag].size \in Nat
    BY <1>1, <1>2, Numbers
  <1>4. Chunk(r, q)
    BY DEF RequestOK
  <1>5. o \in 0..l /\ r.bytes = ChunkFrom(q.bytes, o) /\ (l <= ChunkBytes => o = 0)
    BY <1>4 DEF Chunk
  <1>6. Len(r.bytes) = Smaller(l, o + ChunkBytes) - o
    <2> HIDE DEF o
    <2> QED
      BY <1>3, <1>5, ChunkOK
  <1>7. ChunkBytes \in Nat \ {0}
    BY MemoryAssumption
  <1>8. l <= ChunkBytes \/ (q.offset = 0 /\ ~IsBit(q) /\ Lawful(q))
    BY <1>1 DEF DescribedSingle
  <1>9. /\ Lawful(r) <=> ~r.cut /\ PlaceOf(r).ok /\ LawfulWrite(r)
        /\ Lawful(q) <=> ~q.cut /\ PlaceOf(q).ok /\ LawfulWrite(q)
    BY <1>2, LawfulIs DEF Writing
  <1>10. q.service = "WriteTagFragmented"
    OBVIOUS
  <1> HIDE DEF q, l
  <1>11. CASE l <= ChunkBytes
    <2>1. r.offset = q.offset /\ Len(r.bytes) = l
      BY <1>3, <1>5, <1>6, <1>7, <1>11 DEF Smaller
    <2>2. r.bytes = <<>> <=> q.bytes = <<>>
      BY <1>3, <2>1 DEF l
    <2>3. LawfulWrite(r) <=> LawfulWrite(q)
      BY <1>2, <1>10, <2>1, <2>2 DEF LawfulWrite, Fits, l
    <2> QED
      BY <1>2, <1>9, <2>3 DEF q
  <1>12. CASE ~(l <= ChunkBytes)
    <2>1. q.offset = 0 /\ ~IsBit(q) /\ Lawful(q)
      BY <1>8, <1>12
    <2>2. q.type = PlaceOf(q).type /\ l <= Total(q) /\ PlaceOf(q).offset + l <= Shape[q.tag].size
      <3>1. LawfulWrite(q)
        BY <1>9, <2>1
      <3> QED
        BY <1>3, <1>10, <2>1, <3>1 DEF LawfulWrite, Fits, l
    <2>3. r.offset + Len(r.bytes) <= l
      BY <1>3, <1>5, <1>6, <1>7, <2>1 DEF Smaller
    <2>4. r.offset + Len(r.bytes) <= Total(q) /\ PlaceOf(q).offset + r.offset + Len(r.bytes) <= Shape[q.tag].size
      BY <1>3, <2>2, <2>3, SMTT(30)
    <2>5. LawfulWrite(r)
      BY <1>2, <1>10, <2>1, <2>2, <2>4 DEF LawfulWrite, Fits
    <2> QED
      BY <1>2, <1>9, <2>1, <2>5 DEF q
  <1> QED
    BY <1>11, <1>12

\* At the end of a transfer of one request it was served if it was lawful, and only then.
LEMMA ServedSingle ==
  ASSUME NEW s \in Session, ReadInv, pc[s] = "done",
         NEW x \in Transfers, NEW m \in 0..Len(x.rest), Out(s, x, m), x.rest = <<>>
  PROVE  plan[s].do # "nothing" <=> Lawful(x.request)
  <1> DEFINE q == x.request
             r == request[s]
             p == plan[s]
  <1>1. WellFormed(q) /\ Requests(x)[m + 1] = q
    BY Single
  <1>2. /\ WellFormed(r) /\ p = PlanOf(r) /\ PlanOK(r, p) /\ RequestOK(x, r, q)
    BY <1>1, OutFacts
  <1>3. /\ PlaceOf(r) = PlaceOf(q) /\ (IsBit(r) <=> IsBit(q)) /\ r.service = q.service
        /\ r.tag = q.tag /\ r.by = q.by /\ r.cut = q.cut
        /\ q.by # "template" => Total(r) = Total(q) /\ r.count = q.count
    BY <1>1, <1>2, OutOK
  <1>4. p.do # "nothing" <=> Served(r)
    BY <1>2 DEF PlanOK
  <1>5. ReadSoFar(x, r, "done", p, got[s])
    BY DEF ReadInv, ReadingOK, Out
  <1>6. CASE q.by = "template"
    <2>1. r.offset < Layout[q.tag].definition
      BY <1>5, <1>6 DEF ReadSoFar, DefinitionRead
    <2>2. Served(r) <=> ~q.cut
      BY <1>3, <1>6, <2>1 DEF Served
    <2>3. Lawful(q) <=> ~q.cut
      BY <1>6, Zenon DEF Lawful
    <2> QED
      BY <1>4, <2>2, <2>3
  <1>7. CASE q.by # "template" /\ q.service = "ReadTagFragmented"
    <2>1. FragmentsRead(q, x.expect, r, "done", p, got[s])
      BY <1>5, <1>7 DEF ReadSoFar
    <2>2. p.do \in {"nothing", "read"}
      <3>1. r.service \notin Writing /\ r.service # "ReadModifyWrite"
        BY <1>3, <1>7 DEF Writing
      <3> QED
        BY <1>2, <1>3, <1>7, <3>1 DEF PlanOK
    <2>3. p.do = "read" => Lawful(q)
      BY <2>1 DEF FragmentsRead
    <2>4. ASSUME Lawful(q) PROVE FragmentLegal(r)
      <3>1. ~q.cut /\ PlaceOf(q).ok /\ LawfulRead(q)
        BY <1>7, <2>4, LawfulIs DEF Reading
      <3>2. /\ r.offset \in Nat /\ Total(q) \in Nat /\ PlaceOf(q).offset \in Nat
            /\ Shape[q.tag].size \in Nat
        BY <1>1, <1>2, <1>3, <1>7, Numbers
      <3>3. r.offset > 0 => ~IsBit(q) /\ r.offset < Total(q)
        BY <2>1 DEF FragmentsRead
      <3>4. CASE IsBit(q)
        BY <1>3, <1>7, <3>1, <3>2, <3>3, <3>4 DEF FragmentLegal, LawfulRead
      <3>5. CASE ~IsBit(q)
        <4>1. Total(q) > 0 /\ PlaceOf(q).offset + Total(q) <= Shape[q.tag].size
          BY <1>7, <3>1, <3>2, <3>5 DEF LawfulRead, Fits
        <4>2. r.offset < Total(q)
          BY <3>2, <3>3, <4>1
        <4>3. PlaceOf(q).offset + r.offset < Shape[q.tag].size
          BY <3>2, <4>1, <4>2
        <4> QED
          BY <1>3, <1>7, <3>1, <3>5, <4>2, <4>3 DEF FragmentLegal
      <3> QED
        BY <3>4, <3>5
    <2>5. Served(r) <=> FragmentLegal(r)
      BY <1>3, <1>7 DEF Served
    <2> QED
      BY <1>4, <2>2, <2>3, <2>4, <2>5
  <1>8. CASE q.by # "template" /\ q.service # "ReadTagFragmented"
    <2>1. Served(r) <=> Lawful(r)
      BY <1>3, <1>8 DEF Served
    <2>2. Lawful(r) <=> Lawful(q)
      <3>1. CASE q.service = "WriteTagFragmented"
        BY <1>2, <1>8, <3>1, ChunkLawful
      <3>2. CASE q.service # "WriteTagFragmented"
        BY <1>1, <1>2, <3>2, LawfulSame
      <3> QED
        BY <3>1, <3>2
    <2> QED
      BY <1>4, <2>1, <2>2
  <1> QED
    BY <1>6, <1>7, <1>8

\* A request whose path and range lie in the tag, with the right type, is served; any other one
\* is refused, each request of a packet on its own (the early returns of tag_services.cpp).  A
\* client that counts header bytes as data asks for an offset of its own making: hence the
\* hypothesis.
THEOREM ServedIffLegalHolds ==
  ASSUME HeadersKnown
  PROVE  Spec => []ServedIffLegal
  <1>1. Init => ReadInv
    BY ReadInit
  <1>2. ReadInv /\ [Next]_vars => ReadInv'
    BY ReadStep
  <1>3. ReadInv => ServedIffLegal
    <2> SUFFICES ASSUME ReadInv, NEW s \in Session, NEW y \in transfer[s], Done(s)
                 PROVE  y.legal = [i \in DOMAIN AllAnswers(s) |-> AllAnswers(s)[i].served]
      BY DEF ServedIffLegal
    <2>1. pc[s] = "done"
      BY DEF Done
    <2>2. PICK x \in Transfers : \E m \in 0..Len(x.rest) : Out(s, x, m)
      BY <2>1, Active DEF ReadInv, ControlInv
    <2>3. PICK m \in 0..Len(x.rest) : Out(s, x, m)
      BY <2>2
    <2>4. y = x
      BY <2>3 DEF Out
    <2> DEFINE R == Requests(x)
               a == AllAnswers(s)
    <2>5. x.legal = [i \in DOMAIN R |-> Lawful(R[i])]
      BY TransfersAssumption DEF Described
    <2>6. DOMAIN a = DOMAIN R /\ \A i \in DOMAIN R : a[i].served = Lawful(R[i])
      <3>1. CASE x.rest # <<>>
        <4>1. a = AnswersTo(x, Len(x.rest) + 1)
          BY <2>1, <2>3, <3>1, AllAnswered
        <4>2. DOMAIN R = 1..(Len(x.rest) + 1)
          BY RequestsOK
        <4>3. ASSUME NEW i \in 1..(Len(x.rest) + 1)
              PROVE  Answer(PlanOf(R[i])).served = Lawful(R[i])
          <5>1. WellFormed(R[i]) /\ R[i].by # "template" /\ R[i].service \in {"ReadTag", "WriteTag"}
            BY <3>1, RequestsOK
          <5>2. PlanOK(R[i], PlanOf(R[i]))
            BY <5>1, PlanIs
          <5>3. Served(R[i]) <=> Lawful(R[i])
            BY <5>1 DEF Served
          <5> HIDE DEF R
          <5>4. Answer(PlanOf(R[i])).served = (PlanOf(R[i]).do # "nothing")
            BY Zenon DEF Answer
          <5>5. PlanOf(R[i]).do # "nothing" <=> Lawful(R[i])
            BY <5>2, <5>3 DEF PlanOK
          <5>6. (PlanOf(R[i]).do # "nothing") = Lawful(R[i])
            BY <5>5, Zenon DEF Lawful
          <5> QED
            BY <5>4, <5>6
        <4> HIDE DEF R, a
        <4> QED
          BY <4>1, <4>2, <4>3 DEF AnswersTo, R
      <3>2. CASE x.rest = <<>>
        <4>1. DOMAIN R = {1} /\ R[1] = x.request /\ m = 0
          BY <3>2, Single
        <4>2. a = <<Answer(plan[s])>>
          BY <2>3, <4>1 DEF AllAnswers, Out, AnswersTo
        <4>3. plan[s].do # "nothing" <=> Lawful(x.request)
          BY <2>1, <2>3, <3>2, ServedSingle
        <4>4. Answer(plan[s]).served = Lawful(x.request)
          <5>1. Answer(plan[s]).served = (plan[s].do # "nothing")
            BY Zenon DEF Answer
          <5>2. (plan[s].do # "nothing") = Lawful(x.request)
            BY <4>3, Zenon DEF Lawful
          <5> QED
            BY <5>1, <5>2
        <4>5. DOMAIN a = {1} /\ a[1] = Answer(plan[s])
          BY <4>2
        <4> HIDE DEF a, R
        <4> QED
          BY <4>1, <4>4, <4>5
      <3> QED
        BY <3>1, <3>2
    <2> DEFINE lawful == [i \in DOMAIN R |-> Lawful(R[i])]
               served == [i \in DOMAIN R |-> a[i].served]
    <2>7. lawful = served
      <3> HIDE DEF R, a
      <3>1. \A i \in DOMAIN R : Lawful(R[i]) = a[i].served
        BY <2>6
      <3> QED
        BY <3>1, Zenon
    <2>8. served = [i \in DOMAIN a |-> a[i].served]
      BY <2>6
    <2> HIDE DEF R, a, lawful, served
    <2>9. y.legal = lawful
      BY <2>4, <2>5 DEF lawful
    <2> QED
      BY <2>7, <2>8, <2>9 DEF a
  <1> QED
    BY <1>1, <1>2, <1>3, PTL DEF Spec

---------------------------------------------------------------------------
\* The invariant of the writes.

\* What the request out has put into the buffer so far, or those before it of its transfer.
Moved(q, r, c, p, td, a) ==
  \/ q.service = "WriteTagFragmented" /\ ~IsBit(q) /\ a[2] < PlaceOf(q).offset + r.offset
  \/ c = "copyIn" /\ a[2] < p.at + p.len /\ WordOf(a[2]) \notin td
  \/ c \in {"next", "reply", "done"} /\ a[2] < p.at + p.len

Landed(x, m, r, c, p, td, i, a) ==
  /\ Requests(x)[i].service \in Writing /\ a \in Written(Requests(x)[i])
  /\ i = m + 1 => Moved(Requests(x)[i], r, c, p, td, a)

Bit(d, a) == a[3] \in d[a[1]][a[2]]

\* Each bit is as the last request that has put it there sets it.
LandedBits(x, m, r, c, p, td, d) ==
  \A i \in 1..(m + 1) : \A a \in x.own :
    Landed(x, m, r, c, p, td, i, a) /\ (\A j \in (i + 1)..(m + 1) : ~Landed(x, m, r, c, p, td, j, a))
      => (Bit(d, a) <=> Sets(Requests(x)[i], a))

\* The byte that is about to be stored has the other bits of the transfer as the buffer has them.
OtherBits(x, r, c, p, bf, d) ==
  c = "storeByte" =>
    \A a \in x.own : a[1] = r.tag /\ a[2] = p.at /\ a[3] # p.bit => (a[3] \in bf[p.at] <=> Bit(d, a))

\* It has the bit itself as the request sets it.
StoredBit(c, p, bf) ==
  c = "storeByte" => (p.bit \in bf[p.at] <=> 0 \in p.bytes[1])

\* A fragmented write ends with its last chunk.
Complete(x, r, c, p) ==
  x.request.service = "WriteTagFragmented" /\ c = "done" /\ p.do = "write" =>
    r.offset + Len(r.bytes) >= Len(x.request.bytes)

\* The row of a session whose transfer is clean if k.
WriteRow(x, m, r, c, p, td, bf, k, d) ==
  /\ k => LandedBits(x, m, r, c, p, td, d) /\ OtherBits(x, r, c, p, bf, d)
  /\ StoredBit(c, p, bf) /\ Complete(x, r, c, p)

WritingOK(s) ==
  \A x \in transfer[s] :
    WriteRow(x, Len(answers[s]), request[s], pc[s], plan[s], todo[s], buffer[s], clean[s], data)

\* The bits that a lawful write may change.
LEMMA WrittenIs ==
  ASSUME NEW q, WellFormed(q), q.service \in Writing \cup {"ReadModifyWrite"}, Lawful(q)
  PROVE  /\ q.by # "template" /\ q.tag \in Tags /\ Shape[q.tag].size \in Nat
         /\ IF q.service \in Writing /\ IsBit(q)
            THEN /\ Written(q) = {<<q.tag, PlaceOf(q).offset, PlaceOf(q).bit>>}
                 /\ PlaceOf(q).offset \in Nat /\ PlaceOf(q).offset < Shape[q.tag].size
                 /\ PlaceOf(q).bit \in Bits
            ELSE /\ Written(q) = {q.tag} \X Bytes(From(q), Width(q)) \X Bits
                 /\ From(q) \in Nat /\ Width(q) \in Nat /\ From(q) + Width(q) <= Shape[q.tag].size
  <1>1. q.by # "template" /\ q.tag \in Tags
    BY DEF WellFormed, Writing
  <1>2. /\ q.offset \in Nat /\ Len(q.bytes) \in Nat /\ Total(q) \in Nat /\ Shape[q.tag].size \in Nat
        /\ PlaceOf(q).offset \in Nat
    BY <1>1, Numbers
  <1>3. CASE q.service \in Writing /\ IsBit(q)
    <2>1. PlaceOf(q).ok
      BY <1>1, <1>3, LawfulIs
    <2>2. PlaceOf(q).bit \in Bits /\ PlaceOf(q).offset < Shape[q.tag].size
      BY <1>1, <1>3, <2>1, PlaceFacts
    <2>3. Written(q) = {<<q.tag, PlaceOf(q).offset, PlaceOf(q).bit>>}
      BY <1>3, Zenon DEF Written
    <2> QED
      BY <1>1, <1>2, <1>3, <2>2, <2>3
  <1>4. CASE q.service \in Writing /\ ~IsBit(q)
    <2>1. LawfulWrite(q)
      BY <1>1, <1>4, LawfulIs
    <2>2. Written(q) = {q.tag} \X Bytes(From(q), Width(q)) \X Bits
      BY <1>4, Zenon DEF Written
    <2>3. CASE q.service = "WriteTag"
      <3>1. From(q) = PlaceOf(q).offset + 0 /\ Width(q) = Total(q)
        BY <2>3 DEF From, Width
      <3>2. PlaceOf(q).offset + 0 + Total(q) <= Shape[q.tag].size
        BY <1>4, <2>1, <2>3 DEF LawfulWrite, Fits
      <3> QED
        BY <1>1, <1>2, <1>4, <2>2, <3>1, <3>2
    <2>4. CASE q.service = "WriteTagFragmented"
      <3>1. From(q) = PlaceOf(q).offset + q.offset /\ Width(q) = Len(q.bytes)
        BY <2>4 DEF From, Width
      <3>2. PlaceOf(q).offset + q.offset + Len(q.bytes) <= Shape[q.tag].size
        BY <1>4, <2>1, <2>4 DEF LawfulWrite, Fits
      <3> QED
        BY <1>1, <1>2, <1>4, <2>2, <3>1, <3>2
    <2> QED
      BY <1>4, <2>3, <2>4 DEF Writing
  <1>5. CASE q.service = "ReadModifyWrite"
    <2>1. q.service \notin Writing
      BY <1>5 DEF Writing
    <2>2. Written(q) = {q.tag} \X Bytes(From(q), Width(q)) \X Bits
      BY <1>5, <2>1, Zenon DEF Written
    <2>3. From(q) = 0 /\ Width(q) = Smaller(Len(q.bytes), Shape[q.tag].size)
      BY <1>5 DEF From, Width
    <2>4. Width(q) \in Nat /\ Width(q) <= Shape[q.tag].size
      BY <1>2, <2>3 DEF Smaller
    <2> QED
      BY <1>1, <1>2, <2>1, <2>2, <2>3, <2>4
  <1> QED
    BY <1>3, <1>4, <1>5

\* They are bits of its tag.
LEMMA WrittenBits ==
  ASSUME NEW q, WellFormed(q), NEW a \in Written(q)
  PROVE  /\ Lawful(q) /\ q.service \in Writing \cup {"ReadModifyWrite"}
         /\ a[1] = q.tag /\ a[1] \in Tags /\ a \in BitsOfTag(a[1])
         /\ a[2] \in Nat /\ a[3] \in Bits /\ Shape[a[1]].size \in Nat
         /\ IF q.service \in Writing /\ IsBit(q)
            THEN a[2] = PlaceOf(q).offset /\ a[3] = PlaceOf(q).bit
            ELSE a[2] \in Bytes(From(q), Width(q))
  <1>1. Lawful(q) /\ q.service \in Writing \cup {"ReadModifyWrite"}
    BY Zenon DEF Written
  <1> DEFINE size == Shape[q.tag].size
  <1>2. q.tag \in Tags /\ size \in Nat
    BY <1>1, WrittenIs
  <1>3. CASE q.service \in Writing /\ IsBit(q)
    <2> DEFINE o == PlaceOf(q).offset
               b == PlaceOf(q).bit
    <2>1. a = <<q.tag, o, b>> /\ o \in Nat /\ o < size /\ b \in Bits
      BY <1>1, <1>3, WrittenIs
    <2> HIDE DEF o, b, size
    <2>2. a[1] = q.tag /\ a[2] = o /\ a[3] = b
      BY <2>1
    <2>3. o \in 0..(size - 1)
      BY <1>2, <2>1
    <2>4. a \in {q.tag} \X (0..(size - 1)) \X Bits
      BY <2>1, <2>3
    <2>5. a \in BitsOfTag(q.tag)
      BY <2>4 DEF BitsOfTag, size
    <2> QED
      BY <1>1, <1>2, <1>3, <2>1, <2>2, <2>5 DEF o, b, size
  <1>4. CASE ~(q.service \in Writing /\ IsBit(q))
    <2> DEFINE w == Bytes(From(q), Width(q))
    <2>1. /\ a \in {q.tag} \X w \X Bits
          /\ From(q) \in Nat /\ Width(q) \in Nat /\ From(q) + Width(q) <= size
      BY <1>1, <1>4, WrittenIs
    <2>2. w \subseteq 0..(size - 1) /\ w \subseteq Nat
      BY <1>2, <2>1 DEF Bytes
    <2> HIDE DEF w, size
    <2>3. a[1] = q.tag /\ a[2] \in w /\ a[3] \in Bits
      BY <2>1
    <2>4. a \in {q.tag} \X (0..(size - 1)) \X Bits
      BY <2>1, <2>2
    <2>5. a \in BitsOfTag(q.tag)
      BY <2>4 DEF BitsOfTag, size
    <2>6. a[2] \in Nat
      BY <2>2, <2>3
    <2> QED
      BY <1>1, <1>2, <1>4, <2>3, <2>5, <2>6 DEF w, size
  <1> QED
    BY <1>3, <1>4

\* The bits of a transfer are those that its requests may change.
LEMMA OwnIs ==
  ASSUME NEW x \in Transfers
  PROVE  /\ \A i \in 1..(Len(x.rest) + 1) : Written(Requests(x)[i]) \subseteq x.own
         /\ \A a \in x.own : \E i \in 1..(Len(x.rest) + 1) : a \in Written(Requests(x)[i])
         /\ \A a \in x.own : /\ a[1] \in Tags /\ a \in BitsOfTag(a[1])
                             /\ a[2] \in Nat /\ a[3] \in Bits
  <1> DEFINE R == Requests(x)
             n == Len(x.rest) + 1
  <1>1. x.own = UNION {Written(r) : r \in Range(R)}
    BY TransfersAssumption DEF Described
  <1>2. DOMAIN R = 1..n /\ \A i \in 1..n : WellFormed(R[i])
    BY RequestsOK
  <1> HIDE DEF R, n
  <1>3. Range(R) = {R[i] : i \in 1..n}
    BY <1>2 DEF Range
  <1>4. \A i \in 1..n : Written(R[i]) \subseteq x.own
    BY <1>1, <1>3, Zenon
  <1>5. \A a \in x.own : \E i \in 1..n : a \in Written(R[i])
    BY <1>1, <1>3, Zenon
  <1>6. \A a \in x.own : a[1] \in Tags /\ a \in BitsOfTag(a[1]) /\ a[2] \in Nat /\ a[3] \in Bits
    BY <1>2, <1>5, WrittenBits
  <1> QED
    BY <1>4, <1>5, <1>6 DEF R, n

\* Only a transfer of one request is fragmented, or modifies.
LEMMA SingleService ==
  ASSUME NEW x \in Transfers, NEW i \in 1..(Len(x.rest) + 1),
         Requests(x)[i].service \in {"WriteTagFragmented", "ReadModifyWrite"}
  PROVE  x.rest = <<>> /\ Requests(x)[i] = x.request /\ i = 1
  <1>1. x.rest = <<>>
    <2> SUFFICES ASSUME x.rest # <<>> PROVE FALSE
      OBVIOUS
    <2> QED
      BY RequestsOK
  <1> QED
    BY <1>1, Single

\* A chunk is as long as the data left, or as a chunk may be; a write of a bit is one chunk.
LEMMA ChunkFacts ==
  ASSUME NEW x \in Transfers, x.rest = <<>>, NEW r, RequestOK(x, r, x.request),
         x.request.service = "WriteTagFragmented"
  PROVE  LET q == x.request
             o == r.offset - q.offset
         IN /\ o \in 0..Len(q.bytes) /\ Len(q.bytes) \in Nat /\ q.offset \in Nat /\ r.offset \in Nat
            /\ Len(r.bytes) \in Nat /\ o + Len(r.bytes) <= Len(q.bytes)
            /\ \A k \in 1..Len(r.bytes) : r.bytes[k] = q.bytes[o + k]
            /\ o = 0 \/ q.offset = 0
            /\ IsBit(q) \/ q.offset # 0 => o = 0 /\ Len(r.bytes) = Len(q.bytes)
  <1> DEFINE q == x.request
             o == r.offset - q.offset
             l == Len(q.bytes)
  <1>1. WellFormed(q) /\ DescribedSingle(x)
    BY Single
  <1>2. q.by # "template"
    BY <1>1 DEF WellFormed
  <1>3. WellFormed(r) /\ r.by # "template"
    BY <1>1, <1>2, OutOK
  <1>4. /\ r.offset \in Nat /\ q.offset \in Nat /\ q.bytes \in Seq(Byte) /\ l \in Nat
        /\ Len(r.bytes) \in Nat
    BY <1>1, <1>2, <1>3, Numbers
  <1>5. Chunk(r, q)
    BY DEF RequestOK
  <1>6. o \in 0..l /\ r.bytes = ChunkFrom(q.bytes, o) /\ (l <= ChunkBytes => o = 0)
    BY <1>5 DEF Chunk
  <1>7. /\ Len(r.bytes) = Smaller(l, o + ChunkBytes) - o
        /\ \A k \in 1..Len(r.bytes) : r.bytes[k] = q.bytes[o + k]
    <2> HIDE DEF o
    <2> QED
      BY <1>4, <1>6, ChunkOK
  <1>8. ChunkBytes \in Nat \ {0}
    BY MemoryAssumption
  <1>9. l <= ChunkBytes \/ (q.offset = 0 /\ ~IsBit(q))
    BY <1>1 DEF DescribedSingle
  <1>10. o + Len(r.bytes) <= l
    <2> HIDE DEF o, l
    <2> QED
      BY <1>4, <1>6, <1>7, <1>8 DEF Smaller
  <1>11. ASSUME IsBit(q) \/ q.offset # 0 PROVE o = 0 /\ Len(r.bytes) = l
    <2>1. l <= ChunkBytes
      BY <1>9, <1>11
    <2> HIDE DEF o, l
    <2> QED
      BY <1>4, <1>6, <1>7, <1>8, <2>1 DEF Smaller
  <1>12. o = 0 \/ q.offset = 0
    BY <1>11
  <1> QED
    BY <1>4, <1>6, <1>7, <1>10, <1>11, <1>12

\* The plan for a request out that writes, against the whole of the request it is part of.
LEMMA PlanWrites ==
  ASSUME NEW x \in Transfers, NEW m \in 0..Len(x.rest),
         NEW q, q = Requests(x)[m + 1], q.service \in Writing,
         NEW r, RequestOK(x, r, q), NEW p, p = PlanOf(r)
  PROVE  /\ p.do \in {"nothing", "write", "bit"} /\ (p.do # "nothing" <=> Lawful(q))
         /\ p.at \in Nat /\ p.len \in Nat /\ r.tag = q.tag /\ q.tag \in Tags
         /\ PlaceOf(q).offset \in Nat /\ r.offset \in Nat
         /\ p.do = "nothing" => p.at = 0 /\ p.len = 0
         /\ p.do = "bit" =>
              /\ IsBit(q) /\ Written(q) = {<<q.tag, p.at, p.bit>>} /\ p.len = 1
              /\ 0 \in p.bytes[1] <=> 0 \in q.bytes[1]
         /\ p.do = "write" =>
              /\ ~IsBit(q) /\ Written(q) = {q.tag} \X Bytes(From(q), Width(q)) \X Bits
              /\ From(q) \in Nat /\ Width(q) \in Nat
              /\ From(q) <= p.at /\ p.at + p.len <= From(q) + Width(q)
              /\ q.service = "WriteTag" => p.at = From(q) /\ p.len = Width(q)
              /\ q.service = "WriteTagFragmented" =>
                   p.at = PlaceOf(q).offset + r.offset /\ p.len = Len(r.bytes)
              /\ \A a \in Written(q) : a[2] \in Bytes(p.at, p.len) =>
                   (a[3] \in p.bytes[a[2] - p.at + 1] <=> Sets(q, a))
  <1>1. m + 1 \in 1..(Len(x.rest) + 1) /\ WellFormed(q)
    BY RequestsOK
  <1>2. q.by # "template" /\ q.tag \in Tags
    BY <1>1 DEF WellFormed, Writing
  <1>3. /\ WellFormed(r) /\ PlaceOf(r) = PlaceOf(q) /\ (IsBit(r) <=> IsBit(q)) /\ Total(r) = Total(q)
        /\ r.service = q.service /\ r.tag = q.tag /\ r.by = q.by
        /\ q.service # "WriteTagFragmented" => r.bytes = q.bytes
    BY <1>1, <1>2, OutOK
  <1>4. /\ r.offset \in Nat /\ q.offset \in Nat /\ PlaceOf(q).offset \in Nat /\ Total(q) \in Nat
        /\ q.bytes \in Seq(Byte) /\ Len(q.bytes) \in Nat /\ Len(r.bytes) \in Nat
    BY <1>1, <1>2, <1>3, Numbers
  <1>5. PlanOK(r, p)
    BY <1>3, PlanIs
  <1>6. ASSUME q.service = "WriteTagFragmented"
        PROVE  x.rest = <<>> /\ q = x.request
    BY <1>1, <1>6, SingleService
  <1>7. Lawful(r) <=> Lawful(q)
    <2>1. CASE q.service = "WriteTagFragmented"
      BY <1>2, <1>6, <2>1, ChunkLawful
    <2>2. CASE q.service # "WriteTagFragmented"
      BY <1>1, <2>2, LawfulSame
    <2> QED
      BY <2>1, <2>2
  <1>8. p.do # "nothing" <=> Lawful(q)
    <2>1. Served(r) <=> Lawful(r)
      BY <1>2, <1>3 DEF Served, Writing
    <2> QED
      BY <1>5, <1>7, <2>1 DEF PlanOK
  <1>9. p.do \in {"nothing", "write", "bit"}
    BY <1>2, <1>3, <1>5 DEF PlanOK, Reading, Writing
  <1>10. p.at \in Nat /\ p.len \in Nat /\ (p.do = "nothing" => p.at = 0 /\ p.len = 0)
    BY <1>5, <1>9 DEF PlanOK
  <1>11. ASSUME p.do = "bit"
         PROVE  /\ IsBit(q) /\ Written(q) = {<<q.tag, p.at, p.bit>>} /\ p.len = 1
                /\ 0 \in p.bytes[1] <=> 0 \in q.bytes[1]
    <2>1. /\ IsBit(q) /\ p.at = PlaceOf(q).offset /\ p.len = 1 /\ p.bit = PlaceOf(q).bit
          /\ p.bytes = r.bytes /\ r.bytes # <<>>
      BY <1>3, <1>5, <1>11 DEF PlanOK
    <2>2. Written(q) = {<<q.tag, PlaceOf(q).offset, PlaceOf(q).bit>>}
      BY <1>1, <1>8, <1>11, <2>1, WrittenIs
    <2>3. r.bytes[1] = q.bytes[1]
      <3>1. CASE q.service = "WriteTagFragmented"
        <4>1. x.rest = <<>> /\ q = x.request
          BY <1>6, <3>1
        <4>2. /\ r.offset - q.offset = 0
              /\ \A k \in 1..Len(r.bytes) : r.bytes[k] = q.bytes[r.offset - q.offset + k]
          BY <2>1, <3>1, <4>1, ChunkFacts
        <4>3. 1 \in 1..Len(r.bytes)
          <5>1. r.bytes \in Seq(Byte)
            BY <1>2, <1>3, Numbers
          <5> QED
            BY <2>1, <5>1
        <4>4. r.bytes[1] = q.bytes[0 + 1]
          BY <4>2, <4>3
        <4> QED
          BY <4>4
      <3>2. CASE q.service # "WriteTagFragmented"
        BY <1>3, <3>2
      <3> QED
        BY <3>1, <3>2
    <2> QED
      BY <2>1, <2>2, <2>3
  <1>12. ASSUME p.do = "write"
         PROVE  /\ ~IsBit(q) /\ Written(q) = {q.tag} \X Bytes(From(q), Width(q)) \X Bits
                /\ From(q) \in Nat /\ Width(q) \in Nat
                /\ From(q) <= p.at /\ p.at + p.len <= From(q) + Width(q)
                /\ q.service = "WriteTag" => p.at = From(q) /\ p.len = Width(q)
                /\ q.service = "WriteTagFragmented" =>
                     p.at = PlaceOf(q).offset + r.offset /\ p.len = Len(r.bytes)
                /\ \A a \in Written(q) : a[2] \in Bytes(p.at, p.len) =>
                     (a[3] \in p.bytes[a[2] - p.at + 1] <=> Sets(q, a))
    <2>1. /\ ~IsBit(q) /\ p.at = From(r) /\ p.len = Width(r)
          /\ \A i \in 1..p.len : p.bytes[i] = IF i <= Len(r.bytes) THEN r.bytes[i] ELSE {}
      BY <1>3, <1>5, <1>12 DEF PlanOK
    <2>2. /\ Written(q) = {q.tag} \X Bytes(From(q), Width(q)) \X Bits
          /\ From(q) \in Nat /\ Width(q) \in Nat
      BY <1>1, <1>8, <1>12, <2>1, WrittenIs
    <2> DEFINE from == From(q)
               width == Width(q)
               len == Len(q.bytes)
    <2>3. \A a \in Written(q) : a[2] \in Bytes(from, width) /\ Sets(q, a) =
            (a[2] - from < len /\ a[3] \in q.bytes[a[2] - from + 1])
      BY <2>1, <2>2 DEF Sets
    <2>4. CASE q.service = "WriteTag"
      <3>1. From(r) = from /\ Width(r) = width /\ r.bytes = q.bytes
        BY <1>3, <2>4 DEF From, Width
      <3>2. ASSUME NEW a \in Written(q), a[2] \in Bytes(p.at, p.len)
            PROVE  a[3] \in p.bytes[a[2] - p.at + 1] <=> Sets(q, a)
        <4> DEFINE i == a[2] - p.at + 1
        <4>1. i \in 1..p.len /\ i = a[2] - from + 1 /\ (i <= len <=> a[2] - from < len)
          <5>1. p.at = from /\ len \in Nat
            BY <1>4, <2>1, <3>1
          <5> HIDE DEF from, len
          <5> DEFINE b == a[2]
                     at == p.at
                     wide == p.len
          <5>2. b \in Bytes(at, wide) /\ at \in Nat /\ wide \in Nat /\ at = from
            BY <1>10, <3>2, <5>1
          <5> HIDE DEF b, at, wide
          <5>3. /\ b - at + 1 \in 1..wide /\ b - at + 1 = b - from + 1
                /\ (b - at + 1 <= len <=> b - from < len)
            BY <5>1, <5>2 DEF Bytes
          <5> QED
            BY <5>3 DEF b, at, wide
        <4>2. p.bytes[i] = IF i <= len THEN q.bytes[i] ELSE {}
          BY <2>1, <3>1, <4>1
        <4> HIDE DEF from, len, i
        <4>3. a[3] \in p.bytes[i] <=> a[2] - from < len /\ a[3] \in q.bytes[a[2] - from + 1]
          BY <4>1, <4>2
        <4> QED
          BY <2>3, <4>3 DEF i
      <3> HIDE DEF from, width, len
      <3>3. from <= p.at /\ p.at + p.len <= from + width
        BY <1>10, <2>1, <2>2, <3>1 DEF from, width
      <3> QED
        BY <2>1, <2>2, <2>4, <3>1, <3>2, <3>3 DEF from, width
    <2>5. CASE q.service = "WriteTagFragmented"
      <3>1. /\ From(r) = PlaceOf(q).offset + r.offset /\ Width(r) = Len(r.bytes)
            /\ from = PlaceOf(q).offset + q.offset /\ width = len
        BY <1>3, <2>5 DEF From, Width
      <3> DEFINE o == r.offset - q.offset
      <3>2. /\ o \in 0..len /\ o + Len(r.bytes) <= len
            /\ \A k \in 1..Len(r.bytes) : r.bytes[k] = q.bytes[o + k]
        <4>1. x.rest = <<>> /\ q = x.request
          BY <1>6, <2>5
        <4> DEFINE n == r.offset - x.request.offset
        <4>2. /\ n \in 0..Len(x.request.bytes) /\ n + Len(r.bytes) <= Len(x.request.bytes)
              /\ \A k \in 1..Len(r.bytes) : r.bytes[k] = x.request.bytes[n + k]
          <5>1. RequestOK(x, r, x.request) /\ x.request.service = "WriteTagFragmented"
            BY <2>5, <4>1
          <5> QED
            BY <4>1, <5>1, ChunkFacts
        <4> QED
          BY <4>1, <4>2
      <3>3. p.at = from + o /\ p.len = Len(r.bytes) /\ from \in Nat
        BY <1>4, <2>1, <2>2, <3>1
      <3>4. ASSUME NEW a \in Written(q), a[2] \in Bytes(p.at, p.len)
            PROVE  a[3] \in p.bytes[a[2] - p.at + 1] <=> Sets(q, a)
        <4> DEFINE i == a[2] - p.at + 1
        <4> DEFINE size == Len(r.bytes)
        <4>0. /\ len \in Nat /\ size \in Nat /\ o \in Nat /\ p.at \in Nat /\ p.len \in Nat
              /\ o + size <= len /\ p.at = from + o /\ p.len = size /\ from \in Nat
          BY <1>4, <1>10, <3>2, <3>3
        <4> HIDE DEF from, len, o, size
        <4>1. i \in 1..p.len /\ i <= size /\ o + i = a[2] - from + 1 /\ a[2] - from < len
          BY <3>4, <4>0 DEF Bytes
        <4>2. p.bytes[i] = q.bytes[o + i]
          BY <2>1, <3>2, <3>3, <4>1 DEF size
        <4> HIDE DEF i
        <4>3. a[3] \in p.bytes[i] <=> a[2] - from < len /\ a[3] \in q.bytes[a[2] - from + 1]
          BY <4>1, <4>2
        <4> QED
          BY <2>3, <4>3 DEF i
      <3>5. from <= p.at /\ p.at + p.len <= from + width
        <4> DEFINE size == Len(r.bytes)
        <4>0. /\ len \in Nat /\ size \in Nat /\ o \in Nat /\ o + size <= len
              /\ p.at = from + o /\ p.len = size /\ from \in Nat /\ width = len
          BY <1>4, <3>1, <3>2, <3>3
        <4> HIDE DEF from, width, len, o, size
        <4> QED
          BY <4>0
      <3> HIDE DEF from, width, len, o
      <3> QED
        BY <2>1, <2>2, <2>5, <3>1, <3>4, <3>5 DEF from, width
    <2> QED
      BY <2>4, <2>5 DEF Writing
  <1> QED
    BY <1>2, <1>3, <1>4, <1>8, <1>9, <1>10, <1>11, <1>12

\* A step that puts some of the request's bits into the buffer, and leaves the rest of the
\* transfer as it was.
LEMMA LandsOn ==
  ASSUME NEW x, NEW m \in Nat, NEW r, NEW c, NEW p, NEW td, NEW d,
         LandedBits(x, m, r, c, p, td, d),
         NEW u, NEW e, NEW v, NEW te, NEW f, NEW M,
         \A a \in x.own :
           IF a \in M
           THEN Landed(x, m, u, e, v, te, m + 1, a) /\ (Bit(f, a) <=> Sets(Requests(x)[m + 1], a))
           ELSE /\ Bit(f, a) <=> Bit(d, a)
                /\ Landed(x, m, u, e, v, te, m + 1, a) <=> Landed(x, m, r, c, p, td, m + 1, a)
  PROVE  LandedBits(x, m, u, e, v, te, f)
  <1> SUFFICES ASSUME NEW i \in 1..(m + 1), NEW a \in x.own,
                      Landed(x, m, u, e, v, te, i, a),
                      \A j \in (i + 1)..(m + 1) : ~Landed(x, m, u, e, v, te, j, a)
               PROVE  Bit(f, a) <=> Sets(Requests(x)[i], a)
    BY DEF LandedBits
  <1>1. CASE a \in M
    <2>1. i = m + 1
      <3>1. Landed(x, m, u, e, v, te, m + 1, a)
        BY <1>1
      <3>2. m + 1 \notin (i + 1)..(m + 1)
        BY <3>1
      <3> QED
        BY <3>2
    <2> QED
      BY <1>1, <2>1
  <1>2. CASE a \notin M
    <2>1. \A j \in 1..(m + 1) :
            Landed(x, m, u, e, v, te, j, a) <=> Landed(x, m, r, c, p, td, j, a)
      <3>1. ASSUME NEW j \in 1..(m + 1)
            PROVE  Landed(x, m, u, e, v, te, j, a) <=> Landed(x, m, r, c, p, td, j, a)
        <4>1. CASE j = m + 1
          BY <1>2, <4>1
        <4>2. CASE j # m + 1
          BY <4>2 DEF Landed
        <4> QED
          BY <4>1, <4>2
      <3> QED
        BY <3>1
    <2>2. Landed(x, m, r, c, p, td, i, a)
      BY <2>1
    <2>3. \A j \in (i + 1)..(m + 1) : ~Landed(x, m, r, c, p, td, j, a)
      <3>1. \A j \in (i + 1)..(m + 1) : j \in 1..(m + 1)
        OBVIOUS
      <3> QED
        BY <2>1, <3>1
    <2>4. Bit(d, a) <=> Sets(Requests(x)[i], a)
      BY <2>2, <2>3 DEF LandedBits
    <2> QED
      BY <1>2, <2>4
  <1> QED
    BY <1>1, <1>2

\* Nothing of the request out has landed.
LEMMA NothingLanded ==
  ASSUME NEW x, NEW m \in Nat, NEW r, NEW c, NEW p, NEW td,
         \A a \in x.own : ~Landed(x, m, r, c, p, td, m + 1, a), m = 0, NEW d
  PROVE  LandedBits(x, m, r, c, p, td, d)
  BY DEF LandedBits

\* A step that puts no bit of the transfer anywhere.
LEMMA SameLanded ==
  ASSUME NEW x, NEW m \in Nat, NEW r, NEW c, NEW p, NEW td, NEW d,
         LandedBits(x, m, r, c, p, td, d),
         NEW u, NEW e, NEW v, NEW te, NEW f,
         \A a \in x.own :
           /\ Bit(f, a) <=> Bit(d, a)
           /\ Landed(x, m, u, e, v, te, m + 1, a) <=> Landed(x, m, r, c, p, td, m + 1, a)
  PROVE  LandedBits(x, m, u, e, v, te, f)
  <1> DEFINE M == {}
  <1>1. \A a \in x.own :
          IF a \in M
          THEN Landed(x, m, u, e, v, te, m + 1, a) /\ (Bit(f, a) <=> Sets(Requests(x)[m + 1], a))
          ELSE /\ Bit(f, a) <=> Bit(d, a)
               /\ Landed(x, m, u, e, v, te, m + 1, a) <=> Landed(x, m, r, c, p, td, m + 1, a)
    OBVIOUS
  <1> HIDE DEF M
  <1> QED
    BY <1>1, LandsOn

\* A request that is not a write puts nothing into the buffer.
LEMMA NotWriting ==
  ASSUME NEW x, NEW m \in Nat, NEW r, NEW c, NEW p, NEW td, NEW d,
         LandedBits(x, m, r, c, p, td, d), Requests(x)[m + 1].service \notin Writing,
         NEW u, NEW e, NEW v, NEW te
  PROVE  LandedBits(x, m, u, e, v, te, d)
  <1>1. \A a \in x.own :
          /\ Bit(d, a) <=> Bit(d, a)
          /\ Landed(x, m, u, e, v, te, m + 1, a) <=> Landed(x, m, r, c, p, td, m + 1, a)
    BY DEF Landed
  <1> QED
    BY <1>1, SameLanded

\* The handler decides: no byte of its plan has moved.
LEMMA HandleLands ==
  ASSUME NEW x \in Transfers, NEW m \in 0..Len(x.rest), NEW q, q = Requests(x)[m + 1],
         NEW r, RequestOK(x, r, q), NEW p, p = PlanOf(r),
         NEW v, NEW te, NEW d, LandedBits(x, m, r, "asked", v, te, d),
         NEW c \in {"copyOut", "copyIn", "setBit", "next", "reply"},
         c = "copyIn" => p.do = "write", c \in {"next", "reply"} => p.do \in {"nothing", "definition"},
         NEW td, c = "copyIn" => td = Words(p.at, p.len)
  PROVE  LandedBits(x, m, r, c, p, td, d)
  <1>1. m \in Nat /\ m + 1 \in 1..(Len(x.rest) + 1) /\ WellFormed(q)
    BY RequestsOK
  <1>2. CASE q.service \notin Writing
    BY <1>1, <1>2, NotWriting
  <1>3. CASE q.service \in Writing
    <2>1. ASSUME NEW a \in x.own, a \in Written(q)
          PROVE  Moved(q, r, c, p, td, a) <=> Moved(q, r, "asked", v, te, a)
      <3>1. Lawful(q) /\ a[2] \in Nat
        BY <1>1, <2>1, WrittenBits
      <3>2. p.do \in {"write", "bit"} /\ p.at \in Nat /\ p.len \in Nat
        BY <1>3, <3>1, PlanWrites
      <3>3. c \notin {"next", "reply", "done"}
        BY <3>2
      <3>4. CASE c # "copyIn"
        BY <3>3, <3>4 DEF Moved
      <3>5. CASE c = "copyIn"
        <4>1. /\ ~IsBit(q) /\ From(q) \in Nat /\ Width(q) \in Nat
              /\ Written(q) = {q.tag} \X Bytes(From(q), Width(q)) \X Bits
              /\ q.service = "WriteTag" => p.at = From(q)
              /\ q.service = "WriteTagFragmented" => p.at = PlaceOf(q).offset + r.offset
          BY <1>3, <3>5, PlanWrites
        <4>2. From(q) <= a[2]
          BY <2>1, <4>1 DEF Bytes
        <4>3. WordOf(a[2]) \notin td => ~(p.at <= a[2] /\ a[2] < p.at + p.len)
          BY <3>1, <3>2, <3>5 DEF Words, Bytes
        <4>4. a[2] < p.at + p.len /\ WordOf(a[2]) \notin td => a[2] < p.at
          BY <3>1, <3>2, <4>3
        <4>5. CASE q.service = "WriteTag"
          <5>1. ~(a[2] < p.at)
            BY <3>1, <3>2, <4>1, <4>2, <4>5
          <5> QED
            BY <3>5, <4>4, <4>5, <5>1 DEF Moved
        <4>6. CASE q.service = "WriteTagFragmented"
          BY <3>5, <4>1, <4>4, <4>6 DEF Moved
        <4> QED
          BY <1>3, <4>5, <4>6 DEF Writing
      <3> QED
        BY <3>4, <3>5
    <2>2. \A a \in x.own :
            /\ Bit(d, a) <=> Bit(d, a)
            /\ Landed(x, m, r, c, p, td, m + 1, a) <=> Landed(x, m, r, "asked", v, te, m + 1, a)
      BY <2>1 DEF Landed
    <2> QED
      BY <1>1, <2>2, SameLanded
  <1> QED
    BY <1>2, <1>3

\* A word of the handler's copy goes into the buffer.
LEMMA WordLands ==
  ASSUME NEW x \in Transfers, NEW m \in 0..Len(x.rest), NEW q, q = Requests(x)[m + 1],
         NEW r, RequestOK(x, r, q), NEW p, p = PlanOf(r), p.do = "write", q.service \in Writing,
         NEW td, NEW d, LandedBits(x, m, r, "copyIn", p, td, d), NEW w, NEW f,
         \A a \in x.own :
           Bit(f, a) <=> IF a[1] = r.tag /\ a[2] \in Bytes(p.at, p.len) /\ WordOf(a[2]) = w
                         THEN a[3] \in p.bytes[a[2] - p.at + 1] ELSE Bit(d, a)
  PROVE  LandedBits(x, m, r, "copyIn", p, td \ {w}, f)
  <1>1. m \in Nat /\ m + 1 \in 1..(Len(x.rest) + 1) /\ WellFormed(q)
    BY RequestsOK
  <1>2. /\ p.at \in Nat /\ p.len \in Nat /\ r.tag = q.tag
        /\ ~IsBit(q) /\ From(q) \in Nat /\ Width(q) \in Nat
        /\ Written(q) = {q.tag} \X Bytes(From(q), Width(q)) \X Bits
        /\ From(q) <= p.at /\ p.at + p.len <= From(q) + Width(q)
        /\ q.service = "WriteTag" => p.at = From(q)
        /\ q.service = "WriteTagFragmented" => p.at = PlaceOf(q).offset + r.offset
        /\ \A a \in Written(q) : a[2] \in Bytes(p.at, p.len) =>
             (a[3] \in p.bytes[a[2] - p.at + 1] <=> Sets(q, a))
    BY PlanWrites, SMTT(30)
  <1> DEFINE M == {a \in x.own : a[1] = r.tag /\ a[2] \in Bytes(p.at, p.len) /\ WordOf(a[2]) = w}
             te == td \ {w}
  <1>3. \A a \in x.own : a[2] \in Nat /\ a[3] \in Bits /\ a \in BitsOfTag(a[1])
    BY OwnIs
  <1>4. ASSUME NEW a \in M
        PROVE  Landed(x, m, r, "copyIn", p, te, m + 1, a) /\ (Bit(f, a) <=> Sets(q, a))
    <2>1. a[1] = q.tag /\ a[2] \in Bytes(p.at, p.len) /\ a[2] \in Nat /\ a[3] \in Bits
      BY <1>2, <1>3, <1>4
    <2>2. a[2] \in Bytes(From(q), Width(q)) /\ a[2] < p.at + p.len
      BY <1>2, <2>1, SMTT(30) DEF Bytes
    <2>3. a \in Written(q)
      <3>1. a \in BitsOfTag(a[1])
        BY <1>3, <1>4
      <3>2. a = <<a[1], a[2], a[3]>>
        BY <3>1 DEF BitsOfTag
      <3> QED
        BY <1>2, <2>1, <2>2, <3>2
    <2>4. Moved(q, r, "copyIn", p, te, a)
      BY <1>4, <2>2 DEF Moved
    <2>5. Bit(f, a) <=> Sets(q, a)
      BY <1>2, <1>4, <2>1, <2>3
    <2> QED
      BY <2>3, <2>4, <2>5 DEF Landed
  <1>5. ASSUME NEW a \in x.own, a \notin M
        PROVE  /\ Bit(f, a) <=> Bit(d, a)
               /\ Landed(x, m, r, "copyIn", p, te, m + 1, a) <=> Landed(x, m, r, "copyIn", p, td, m + 1, a)
    <2>1. Bit(f, a) <=> Bit(d, a)
      BY <1>5
    <2>2. ASSUME a \in Written(q)
          PROVE  Moved(q, r, "copyIn", p, te, a) <=> Moved(q, r, "copyIn", p, td, a)
      <3>1. a[1] = r.tag /\ a[2] \in Nat /\ From(q) <= a[2]
        BY <1>2, <1>3, <2>2 DEF Bytes
      <3>2. WordOf(a[2]) = w => a[2] \notin Bytes(p.at, p.len)
        BY <1>5, <3>1
      <3>3. WordOf(a[2]) = w /\ a[2] < p.at + p.len => a[2] < p.at
        BY <1>2, <3>1, <3>2, SMTT(30) DEF Bytes
      <3>4. CASE q.service = "WriteTag"
        <4>1. ~(a[2] < p.at)
          BY <1>2, <3>1, <3>4
        <4> QED
          BY <3>3, <3>4, <4>1 DEF Moved
      <3>5. CASE q.service = "WriteTagFragmented"
        BY <1>2, <3>3, <3>5 DEF Moved
      <3> QED
        BY <3>4, <3>5 DEF Writing
    <2> QED
      BY <2>1, <2>2 DEF Landed
  <1> HIDE DEF M, te
  <1>6. \A a \in x.own :
          IF a \in M
          THEN Landed(x, m, r, "copyIn", p, te, m + 1, a) /\ (Bit(f, a) <=> Sets(Requests(x)[m + 1], a))
          ELSE /\ Bit(f, a) <=> Bit(d, a)
               /\ Landed(x, m, r, "copyIn", p, te, m + 1, a) <=> Landed(x, m, r, "copyIn", p, td, m + 1, a)
    BY <1>4, <1>5
  <1>7. LandedBits(x, m, r, "copyIn", p, te, f)
    BY <1>1, <1>6, LandsOn
  <1> QED
    BY <1>7 DEF te

\* The one bit of a request goes into the buffer.
LEMMA BitLands ==
  ASSUME NEW x \in Transfers, NEW m \in 0..Len(x.rest), NEW q, q = Requests(x)[m + 1],
         NEW r, RequestOK(x, r, q), NEW p, p = PlanOf(r), p.do = "bit", q.service \in Writing,
         NEW td, NEW c, NEW d, LandedBits(x, m, r, c, p, td, d), NEW e \in {"next", "reply"}, NEW f,
         \A a \in x.own :
           Bit(f, a) <=> IF a = <<r.tag, p.at, p.bit>> THEN 0 \in p.bytes[1] ELSE Bit(d, a)
  PROVE  LandedBits(x, m, r, e, p, td, f)
  <1>1. m \in Nat
    BY RequestsOK
  <1>2. /\ p.at \in Nat /\ p.len = 1 /\ r.tag = q.tag /\ IsBit(q)
        /\ Written(q) = {<<q.tag, p.at, p.bit>>} /\ (0 \in p.bytes[1] <=> 0 \in q.bytes[1])
    BY PlanWrites
  <1> DEFINE b == <<q.tag, p.at, p.bit>>
             M == {b}
  <1>3. b[2] = p.at
    OBVIOUS
  <1>4. b \in Written(q) /\ \A a : a \in Written(q) => a = b
    BY <1>2
  <1> HIDE DEF b
  <1>5. Landed(x, m, r, e, p, td, m + 1, b)
    <2>1. b[2] < p.at + p.len
      BY <1>2, <1>3
    <2>2. Moved(q, r, e, p, td, b)
      BY <2>1 DEF Moved
    <2> QED
      BY <1>4, <2>2 DEF Landed
  <1>6. Sets(q, b) <=> 0 \in p.bytes[1]
    BY <1>2 DEF Sets
  <1>7. \A a \in x.own :
          IF a \in M
          THEN Landed(x, m, r, e, p, td, m + 1, a) /\ (Bit(f, a) <=> Sets(Requests(x)[m + 1], a))
          ELSE /\ Bit(f, a) <=> Bit(d, a)
               /\ Landed(x, m, r, e, p, td, m + 1, a) <=> Landed(x, m, r, c, p, td, m + 1, a)
    <2>1. ASSUME NEW a \in x.own, a = b
          PROVE  Landed(x, m, r, e, p, td, m + 1, a) /\ (Bit(f, a) <=> Sets(Requests(x)[m + 1], a))
      <3>1. Bit(f, a) <=> 0 \in p.bytes[1]
        BY <1>2, <2>1 DEF b
      <3> QED
        BY <1>5, <1>6, <2>1, <3>1
    <2>2. ASSUME NEW a \in x.own, a # b
          PROVE  /\ Bit(f, a) <=> Bit(d, a)
                 /\ Landed(x, m, r, e, p, td, m + 1, a) <=> Landed(x, m, r, c, p, td, m + 1, a)
      <3>1. Bit(f, a) <=> Bit(d, a)
        BY <1>2, <2>2 DEF b
      <3>2. a \notin Written(q)
        BY <1>4, <2>2
      <3> QED
        BY <3>1, <3>2 DEF Landed
    <2> QED
      BY <2>1, <2>2
  <1> HIDE DEF M
  <1> QED
    BY <1>1, <1>7, LandsOn

\* A request of a packet is served and the next one is out.
LEMMA NextLands ==
  ASSUME NEW x \in Transfers, x.rest # <<>>, NEW m \in 0..Len(x.rest), m < Len(x.rest),
         NEW q, q = Requests(x)[m + 1], NEW r, RequestOK(x, r, q), NEW p, p = PlanOf(r),
         NEW td, NEW d, LandedBits(x, m, r, "next", p, td, d), NEW u, NEW v, NEW te
  PROVE  LandedBits(x, m + 1, u, "asked", v, te, d)
  <1>1. /\ m \in Nat /\ Len(x.rest) \in Nat /\ WellFormed(q)
        /\ \A i \in 1..(Len(x.rest) + 1) : Requests(x)[i].service \in {"ReadTag", "WriteTag"}
    BY RequestsOK
  <1> DEFINE k == m + 1
  <1>2. k \in Nat /\ k + 1 \in 1..(Len(x.rest) + 1)
    BY <1>1
  <1>3. \A a \in x.own : ~Landed(x, k, u, "asked", v, te, k + 1, a)
    <2>1. Requests(x)[k + 1].service # "WriteTagFragmented"
      BY <1>1, <1>2
    <2> HIDE DEF k
    <2> QED
      BY <2>1 DEF Landed, Moved
  <1>4. ASSUME NEW a \in x.own, NEW j \in 1..k
        PROVE  Landed(x, k, u, "asked", v, te, j, a) <=> Landed(x, m, r, "next", p, td, j, a)
    <2>1. j # k + 1
      BY <1>2
    <2>2. CASE j = m + 1
      <3>1. ASSUME q.service \in Writing, a \in Written(q)
            PROVE  Moved(q, r, "next", p, td, a)
        <4>1. Lawful(q) /\ a[2] \in Nat
          BY <1>1, <3>1, WrittenBits
        <4>2. p.do \in {"write", "bit"} /\ p.at \in Nat /\ p.len \in Nat
          BY <3>1, <4>1, PlanWrites
        <4>3. CASE p.do = "write"
          <5>1. /\ q.service = "WriteTag"
                /\ Written(q) = {q.tag} \X Bytes(From(q), Width(q)) \X Bits
                /\ From(q) \in Nat /\ Width(q) \in Nat
                /\ q.service = "WriteTag" => p.at = From(q) /\ p.len = Width(q)
            BY <1>1, <1>2, <3>1, <4>3, PlanWrites, SMTT(30) DEF Writing
          <5>2. a[2] \in Bytes(p.at, p.len)
            BY <3>1, <5>1
          <5>3. a[2] < p.at + p.len
            BY <4>1, <4>2, <5>2 DEF Bytes
          <5> QED
            BY <5>3 DEF Moved
        <4>4. CASE p.do = "bit"
          <5>1. Written(q) = {<<q.tag, p.at, p.bit>>} /\ p.len = 1
            BY <3>1, <4>4, PlanWrites
          <5>2. a[2] = p.at
            BY <3>1, <5>1
          <5>3. a[2] < p.at + p.len
            BY <4>2, <5>1, <5>2
          <5> QED
            BY <5>3 DEF Moved
        <4> QED
          BY <4>2, <4>3, <4>4
      <3> HIDE DEF k
      <3>2. Landed(x, k, u, "asked", v, te, j, a) <=> q.service \in Writing /\ a \in Written(q)
        BY <2>1, <2>2 DEF Landed
      <3>3. Landed(x, m, r, "next", p, td, j, a) <=>
              q.service \in Writing /\ a \in Written(q) /\ Moved(q, r, "next", p, td, a)
        BY <2>2 DEF Landed
      <3> QED
        BY <3>1, <3>2, <3>3
    <2>3. CASE j # m + 1
      BY <2>1, <2>3 DEF Landed
    <2> QED
      BY <2>2, <2>3
  <1> SUFFICES ASSUME NEW i \in 1..(k + 1), NEW a \in x.own,
                      Landed(x, k, u, "asked", v, te, i, a),
                      \A j \in (i + 1)..(k + 1) : ~Landed(x, k, u, "asked", v, te, j, a)
               PROVE  Bit(d, a) <=> Sets(Requests(x)[i], a)
    BY DEF LandedBits
  <1>5. i \in 1..k
    <2>1. i # k + 1
      BY <1>3
    <2> QED
      BY <1>2, <2>1
  <1>6. Landed(x, m, r, "next", p, td, i, a)
    BY <1>4, <1>5
  <1>7. \A j \in (i + 1)..(m + 1) : ~Landed(x, m, r, "next", p, td, j, a)
    <2>1. \A j \in (i + 1)..(m + 1) : j \in 1..k /\ j \in (i + 1)..(k + 1)
      BY <1>2
    <2> QED
      BY <1>4, <2>1
  <1> QED
    BY <1>5, <1>6, <1>7 DEF LandedBits

\* The client has the reply to its last request.
LEMMA DoneLands ==
  ASSUME NEW x, NEW m \in Nat, NEW r, NEW p, NEW td, NEW d, LandedBits(x, m, r, "reply", p, td, d)
  PROVE  LandedBits(x, m, r, "done", p, td, d)
  <1>1. \A a \in x.own :
          /\ Bit(d, a) <=> Bit(d, a)
          /\ Landed(x, m, r, "done", p, td, m + 1, a) <=> Landed(x, m, r, "reply", p, td, m + 1, a)
    BY DEF Landed, Moved
  <1> QED
    BY <1>1, SameLanded

\* The client goes on with a fragmented write.
LEMMA ChunkLands ==
  ASSUME NEW x \in Transfers, x.rest = <<>>, NEW q, q = x.request,
         q.service = "WriteTagFragmented", NEW r, RequestOK(x, r, q), NEW p, p = PlanOf(r),
         p.do = "write", NEW td, NEW d, LandedBits(x, 0, r, "reply", p, td, d),
         NEW u, u.offset = r.offset + Len(r.bytes)
  PROVE  LandedBits(x, 0, u, "asked", p, td, d)
  <1>1. WellFormed(q) /\ Requests(x)[0 + 1] = q /\ Len(x.rest) = 0 /\ 0 \in 0..Len(x.rest)
    BY Single
  <1>2. /\ p.at = PlaceOf(q).offset + r.offset /\ p.len = Len(r.bytes) /\ ~IsBit(q)
        /\ PlaceOf(q).offset \in Nat /\ r.offset \in Nat /\ p.len \in Nat
    BY <1>1, PlanWrites DEF Writing
  <1>3. ASSUME NEW a \in x.own, a \in Written(q)
        PROVE  Moved(q, u, "asked", p, td, a) <=> Moved(q, r, "reply", p, td, a)
    <2>1. a[2] \in Nat
      BY OwnIs
    <2>2. PlaceOf(q).offset + u.offset = p.at + p.len /\ PlaceOf(q).offset + r.offset <= p.at + p.len
      BY <1>2
    <2>3. a[2] < PlaceOf(q).offset + r.offset => a[2] < p.at + p.len
      BY <1>2, <2>1
    <2> QED
      BY <1>2, <2>2, <2>3 DEF Moved
  <1>4. \A a \in x.own :
          /\ Bit(d, a) <=> Bit(d, a)
          /\ Landed(x, 0, u, "asked", p, td, 0 + 1, a) <=> Landed(x, 0, r, "reply", p, td, 0 + 1, a)
    BY <1>1, <1>3 DEF Landed
  <1> DEFINE z == 0
  <1>5. z \in Nat /\ LandedBits(x, z, r, "reply", p, td, d)
    OBVIOUS
  <1>6. \A a \in x.own :
          /\ Bit(d, a) <=> Bit(d, a)
          /\ Landed(x, z, u, "asked", p, td, z + 1, a) <=> Landed(x, z, r, "reply", p, td, z + 1, a)
    BY <1>4
  <1> HIDE DEF z
  <1>7. LandedBits(x, z, u, "asked", p, td, d)
    BY <1>5, <1>6, SameLanded
  <1> QED
    BY <1>7 DEF z

---------------------------------------------------------------------------
\* The rows of the writes, step by step.

\* A row that neither stores a byte nor is at its end.
LEMMA PlainRow ==
  ASSUME NEW x, NEW m, NEW r, NEW c, c \notin {"storeByte", "done"}, NEW p, NEW td, NEW bf,
         NEW k, NEW d, k => LandedBits(x, m, r, c, p, td, d)
  PROVE  WriteRow(x, m, r, c, p, td, bf, k, d)
  BY DEF WriteRow, OtherBits, StoredBit, Complete

\* The row of a session at request m of its transfer, before a step and after it.
LEMMA RowIs ==
  ASSUME NEW s \in Session, WritingOK(s),
         NEW x \in Transfers, NEW m \in 0..Len(x.rest), Out(s, x, m)
  PROVE  WriteRow(x, m, request[s], pc[s], plan[s], todo[s], buffer[s], clean[s], data)
  <1>1. transfer[s] = {x} /\ Len(answers[s]) = m
    BY OutFacts DEF Out
  <1> QED
    BY <1>1 DEF WritingOK

\* A row that satisfies the invariant of the writes after a step.
LEMMA RowThen ==
  ASSUME NEW s \in Session, NEW x, NEW m, transfer'[s] = {x}, Len(answers'[s]) = m,
         WriteRow(x, m, request'[s], pc'[s], plan'[s], todo'[s], buffer'[s], clean'[s], data')
  PROVE  WritingOK(s)'
  <1>1. \A y \in transfer'[s] :
          WriteRow(y, Len(answers'[s]), request'[s], pc'[s], plan'[s], todo'[s], buffer'[s],
                   clean'[s], data')
    OBVIOUS
  <1> QED
    BY <1>1, Zenon DEF WritingOK

\* A client asks.
LEMMA WritingAsk ==
  ASSUME NEW s \in Session, ControlInv, Ask(s)
  PROVE  WritingOK(s)'
  <1>1. PICK x \in Transfers : /\ transfer' = [transfer EXCEPT ![s] = {x}]
                               /\ request' = [request EXCEPT ![s] = First(x.request)]
    BY DEF Ask
  <1>2. /\ pc[s] = "idle" /\ pc' = [pc EXCEPT ![s] = "asked"]
        /\ UNCHANGED <<data, plan, todo, buffer, answers, clean>>
    BY DEF Ask
  <1>3. answers[s] = <<>>
    BY <1>2 DEF ControlInv, Control, Row, Busy
  <1> DEFINE q == x.request
             u == First(q)
             z == 0
  <1>4. /\ transfer'[s] = {x} /\ request'[s] = u /\ pc'[s] = "asked" /\ Len(answers'[s]) = z
        /\ plan'[s] = plan[s] /\ todo'[s] = todo[s]
    BY <1>1, <1>2, <1>3 DEF ControlInv, Rows
  <1>5. WellFormed(q) /\ Requests(x)[1] = q
    <2>1. 1 \in 1..(Len(x.rest) + 1)
      BY RequestsOK
    <2> QED
      BY <2>1, RequestsOK
  <1>6. \A a \in x.own : ~Landed(x, z, u, "asked", plan[s], todo[s], z + 1, a)
    <2> SUFFICES ASSUME NEW a \in x.own, q.service = "WriteTagFragmented", ~IsBit(q),
                        a \in Written(q), a[2] < PlaceOf(q).offset + u.offset
                 PROVE  FALSE
      BY <1>5 DEF Landed, Moved
    <2>1. q.by # "template" /\ u = [q EXCEPT !.bytes = ChunkFrom(q.bytes, 0)]
      BY <1>5 DEF WellFormed, First
    <2>2. u.offset = q.offset
      BY <1>5, <2>1 DEF WellFormed, Request
    <2>3. From(q) = PlaceOf(q).offset + q.offset
      BY DEF From
    <2>4. /\ a[2] \in Bytes(From(q), Width(q)) /\ a[2] \in Nat
      BY <1>5, WrittenBits
    <2>5. Lawful(q) /\ q.service \in Writing
      BY <1>5, WrittenBits DEF Writing
    <2>6. From(q) \in Nat /\ Width(q) \in Nat
      BY <1>5, <2>5, WrittenIs
    <2>7. From(q) <= a[2]
      BY <2>4, <2>6 DEF Bytes
    <2> QED
      BY <2>2, <2>3, <2>4, <2>6, <2>7
  <1> HIDE DEF u
  <1>7. LandedBits(x, z, u, "asked", plan[s], todo[s], data')
    <2>1. z \in Nat /\ z = 0
      OBVIOUS
    <2> HIDE DEF z
    <2> QED
      BY <1>6, <2>1, NothingLanded
  <1>8. WriteRow(x, z, u, "asked", plan[s], todo[s], buffer'[s], clean'[s], data')
    BY <1>7, PlainRow
  <1> HIDE DEF z
  <1> QED
    BY <1>4, <1>8, RowThen

\* The handler decides.
LEMMA WritingHandle ==
  ASSUME NEW s \in Session, ControlInv, WritingOK(s), Handle(s)
  PROVE  WritingOK(s)'
  <1>1. pc[s] = "asked" /\ UNCHANGED <<data, transfer, request, answers, clean>>
    BY DEF Handle
  <1>2. PICK x \in Transfers : \E m \in 0..Len(x.rest) : Out(s, x, m)
    BY <1>1, Active DEF ControlInv
  <1>3. PICK m \in 0..Len(x.rest) : Out(s, x, m)
    BY <1>2
  <1> DEFINE r  == request[s]
             p  == PlanOf(r)
             td == IF p.do = "definition" THEN {} ELSE Words(p.at, p.len)
             c  == CASE p.do \in {"read", "modify"} -> "copyOut"
                     [] p.do = "write"   -> "copyIn"
                     [] p.do = "bit"     -> "setBit"
                     [] p.do \in {"nothing", "definition"} -> ServedPC(s)
  <1>4. plan'[s] = p /\ todo'[s] = td /\ pc'[s] = c
    <2>1. /\ plan' = [plan EXCEPT ![s] = p] /\ pc' = [pc EXCEPT ![s] = c]
          /\ todo' = [todo EXCEPT ![s] = td]
      BY Zenon DEF Handle, PlanOf
    <2> HIDE DEF p, c, td
    <2> QED
      BY <2>1 DEF ControlInv, Rows
  <1>5. /\ WellFormed(r) /\ PlanOK(r, p) /\ RequestOK(x, r, Requests(x)[m + 1])
        /\ ServedPC(s) \in {"next", "reply"} /\ Len(answers[s]) = m /\ transfer[s] = {x}
    BY <1>3, OutFacts, PlanIs DEF Out
  <1> HIDE DEF p
  <1>6. /\ c \in {"copyOut", "copyIn", "setBit", "next", "reply"}
        /\ c = "copyIn" => p.do = "write" /\ td = Words(p.at, p.len)
        /\ c \in {"next", "reply"} => p.do \in {"nothing", "definition"}
    <2>1. p.do \in {"nothing", "read", "write", "modify", "bit", "definition"}
      BY <1>5 DEF PlanOK
    <2> QED
      BY <2>1, <1>5
  <1> HIDE DEF c, td
  <1>7. WriteRow(x, m, r, "asked", plan[s], todo[s], buffer[s], clean[s], data)
    BY <1>1, <1>3, RowIs
  <1>8. clean[s] => LandedBits(x, m, r, c, p, td, data)
    BY <1>5, <1>6, <1>7, HandleLands DEF WriteRow, p
  <1>9. WriteRow(x, m, r, c, p, td, buffer'[s], clean[s], data)
    BY <1>6, <1>8, PlainRow
  <1> QED
    BY <1>1, <1>4, <1>5, <1>9, RowThen

\* Word w of the bytes D of tag t is copied from bf.
Copied(t, D, bf, w) ==
  /\ \A u \in Tags \ {t} : data'[u] = data[u]
  /\ \A i \in DOMAIN data[t] :
       data'[t][i] = IF i \in D /\ WordOf(i) = w THEN bf[i] ELSE data[t][i]

\* What a copy into a tag does to a bit ...
LEMMA BitsAfterCopy ==
  ASSUME Memory, NEW t \in Tags, NEW D, NEW bf, NEW w, Copied(t, D, bf, w), NEW a, a[1] \in Tags, a \in BitsOfTag(a[1])
  PROVE  Bit(data', a) <=> IF a[1] = t /\ a[2] \in D /\ WordOf(a[2]) = w
                           THEN a[3] \in bf[a[2]] ELSE Bit(data, a)
  <1>1. CASE a[1] = t
    <2>1. a[2] \in DOMAIN data[t]
      BY <1>1 DEF BitsOfTag, Memory
    <2> QED
      BY <1>1, <2>1 DEF Bit, Copied
  <1>2. CASE a[1] # t
    BY <1>2 DEF Bit, Copied
  <1> QED
    BY <1>1, <1>2

\* ... and what the store of a byte does.
LEMMA BitsAfterPut ==
  ASSUME Memory, NEW t \in Tags, NEW at, NEW byte, data' = [data EXCEPT ![t][at] = byte],
         NEW a, a[1] \in Tags, a \in BitsOfTag(a[1])
  PROVE  Bit(data', a) <=> IF a[1] = t /\ a[2] = at THEN a[3] \in byte ELSE Bit(data, a)
  <1> DEFINE f == [data[t] EXCEPT ![at] = byte]
             u == a[1]
  <1>1. data'[u] = IF u = t THEN f ELSE data[u]
    <2>1. data' = [data EXCEPT ![t] = f]
      OBVIOUS
    <2> HIDE DEF f
    <2> QED
      BY <2>1 DEF Memory
  <1>2. CASE u = t
    <2>1. a[2] \in DOMAIN data[t]
      BY <1>2 DEF BitsOfTag, Memory
    <2>2. f[a[2]] = IF a[2] = at THEN byte ELSE data[t][a[2]]
      BY <2>1
    <2> HIDE DEF f
    <2> QED
      BY <1>1, <1>2, <2>2 DEF Bit
  <1>3. CASE u # t
    <2> HIDE DEF f
    <2> QED
      BY <1>1, <1>3 DEF Bit
  <1> QED
    BY <1>2, <1>3

\* A session stays clean as long as no other one changes a bit of its transfer.
LEMMA CleanThen ==
  ASSUME NEW s \in Session, clean' = StillClean(s, data'), NEW c \in Session, clean'[c]
  PROVE  /\ clean[c]
         /\ c # s => \A x \in Transfers : transfer[c] = {x} => \A a \in x.own :
                       Bit(data', a) <=> Bit(data, a)
  <1>1. clean[c] /\ (c = s \/ transfer[c] = {} \/
                     \A x \in transfer[c] : Changed(data, data') \cap x.own = {})
    BY DEF StillClean
  <1>2. ASSUME c # s, NEW x \in Transfers, transfer[c] = {x}, NEW a \in x.own
        PROVE  Bit(data', a) <=> Bit(data, a)
    <2>1. a \notin Changed(data, data')
      BY <1>1, <1>2
    <2>2. a[1] \in Tags /\ a \in BitsOfTag(a[1])
      BY OwnIs
    <2>3. CASE data'[a[1]] = data[a[1]]
      BY <2>3 DEF Bit
    <2>4. CASE data'[a[1]] # data[a[1]]
      <3>1. a \in UNION {BitsOfTag(t) : t \in {u \in Tags : data[u] # data'[u]}}
        BY <2>2, <2>4
      <3>2. ~((a[3] \in data[a[1]][a[2]]) # (a[3] \in data'[a[1]][a[2]]))
        BY <2>1, <3>1, Zenon DEF Changed
      <3>3. (a[3] \in data[a[1]][a[2]]) <=> (a[3] \in data'[a[1]][a[2]])
        BY <3>2, Zenon
      <3> QED
        BY <3>3 DEF Bit
    <2> QED
      BY <2>3, <2>4
  <1> QED
    BY <1>1, <1>2

\* The handler copies from the buffer.
LEMMA WritingCopyOut ==
  ASSUME NEW s \in Session, ControlInv, WritingOK(s), CopyOut(s)
  PROVE  WritingOK(s)'
  <1>1. pc[s] = "copyOut" /\ UNCHANGED <<data, transfer, request, pc, plan, answers, clean>>
    BY DEF CopyOut
  <1>2. PICK x \in Transfers : \E m \in 0..Len(x.rest) : Out(s, x, m)
    BY <1>1, Active DEF ControlInv
  <1>3. PICK m \in 0..Len(x.rest) : Out(s, x, m)
    BY <1>2
  <1> DEFINE r == request[s]
             p == plan[s]
             td == todo'[s]
  <1>4. /\ p = PlanOf(r) /\ PlanOK(r, p) /\ StageOK("copyOut", p, m < Len(x.rest)) /\ m \in Nat
        /\ Len(answers[s]) = m /\ transfer[s] = {x} /\ r.service = Requests(x)[m + 1].service
    BY <1>1, <1>3, OutFacts DEF Out, RequestOK
  <1>5. Requests(x)[m + 1].service \notin Writing
    BY <1>4 DEF StageOK, PlanOK, Reading, Writing
  <1>6. WriteRow(x, m, r, "copyOut", p, todo[s], buffer[s], clean[s], data)
    BY <1>1, <1>3, RowIs
  <1> HIDE DEF r, p, td
  <1>7. clean[s] => LandedBits(x, m, r, "copyOut", p, td, data)
    BY <1>4, <1>5, <1>6, NotWriting DEF WriteRow
  <1>8. WriteRow(x, m, r, "copyOut", p, td, buffer'[s], clean[s], data)
    BY <1>7, PlainRow
  <1> QED
    BY <1>1, <1>4, <1>8, RowThen DEF r, p, td

\* The copy is the reply, or is written back under the masks.
LEMMA WritingCopiedOut ==
  ASSUME NEW s \in Session, ControlInv, WritingOK(s), CopiedOut(s)
  PROVE  WritingOK(s)'
  <1>1. pc[s] = "copyOut" /\ UNCHANGED <<data, transfer, request, plan, answers, clean>>
    BY DEF CopiedOut
  <1>2. PICK x \in Transfers : \E m \in 0..Len(x.rest) : Out(s, x, m)
    BY <1>1, Active DEF ControlInv
  <1>3. PICK m \in 0..Len(x.rest) : Out(s, x, m)
    BY <1>2
  <1> DEFINE r == request[s]
             p == plan[s]
             td == todo'[s]
             c == pc'[s]
  <1>4. /\ p = PlanOf(r) /\ PlanOK(r, p) /\ StageOK("copyOut", p, m < Len(x.rest)) /\ m \in Nat
        /\ Len(answers[s]) = m /\ transfer[s] = {x} /\ r.service = Requests(x)[m + 1].service
        /\ ServedPC(s) \in {"next", "reply"}
    BY <1>1, <1>3, OutFacts DEF Out, RequestOK
  <1>5. Requests(x)[m + 1].service \notin Writing
    BY <1>4 DEF StageOK, PlanOK, Reading, Writing
  <1>6. WriteRow(x, m, r, "copyOut", p, todo[s], buffer[s], clean[s], data)
    BY <1>1, <1>3, RowIs
  <1>7. c \notin {"storeByte", "done"}
    <2>1. pc' = [pc EXCEPT ![s] = "copyIn"] \/ pc' = [pc EXCEPT ![s] = ServedPC(s)]
      BY DEF CopiedOut
    <2>2. c = "copyIn" \/ c = ServedPC(s)
      BY <2>1 DEF ControlInv, Rows
    <2> QED
      BY <1>4, <2>2
  <1> HIDE DEF r, p, td, c
  <1>8. clean[s] => LandedBits(x, m, r, c, p, td, data)
    BY <1>4, <1>5, <1>6, NotWriting DEF WriteRow
  <1>9. WriteRow(x, m, r, c, p, td, buffer'[s], clean[s], data)
    BY <1>7, <1>8, PlainRow
  <1> QED
    BY <1>1, <1>4, <1>9, RowThen DEF r, p, td, c

\* A word of the copy goes into the buffer.
LEMMA WritingCopyIn ==
  ASSUME NEW s \in Session, ControlInv, WritingOK(s), CopyIn(s)
  PROVE  WritingOK(s)'
  <1>1. pc[s] = "copyIn" /\ UNCHANGED <<transfer, request, pc, plan, buffer, answers>>
    BY DEF CopyIn
  <1>2. PICK x \in Transfers : \E m \in 0..Len(x.rest) : Out(s, x, m)
    BY <1>1, Active DEF ControlInv
  <1>3. PICK m \in 0..Len(x.rest) : Out(s, x, m)
    BY <1>2
  <1> DEFINE r == request[s]
             p == plan[s]
             q == Requests(x)[m + 1]
             bf == buffer[s]
             old == todo[s]
  <1>4. /\ WellFormed(r) /\ p = PlanOf(r) /\ PlanOK(r, p) /\ StageOK("copyIn", p, m < Len(x.rest))
        /\ m \in Nat /\ BufferOK("copyIn", p, old, bf)
        /\ Len(answers[s]) = m /\ transfer[s] = {x} /\ r.service = q.service
        /\ RequestOK(x, r, q)
    BY <1>1, <1>3, OutFacts DEF Out, RequestOK
  <1>5. PICK w \in old :
          /\ data' = [data EXCEPT ![r.tag] = [i \in DOMAIN data[r.tag] |->
                        IF i \in DOMAIN bf /\ WordOf(i) = w THEN bf[i] ELSE data[r.tag][i]]]
          /\ clean' = StillClean(s, data') /\ todo' = [todo EXCEPT ![s] = old \ {w}]
    BY DEF CopyIn
  <1>6. todo'[s] = old \ {w} /\ (clean'[s] => clean[s])
    BY <1>5, CleanThen DEF ControlInv, Rows
  <1>7. WriteRow(x, m, r, "copyIn", p, old, bf, clean[s], data)
    BY <1>1, <1>3, RowIs
  <1>8. r.tag \in Tags
    BY <1>4, PlanBytes DEF StageOK
  <1>9. CASE q.service \in Writing
    <2>1. p.do = "write"
      BY <1>4, <1>9 DEF StageOK, PlanOK, Writing
    <2>2. bf = [i \in Bytes(p.at, p.len) |-> p.bytes[i - p.at + 1]]
      BY <1>4, <2>1 DEF BufferOK
    <2>3. ASSUME NEW a \in x.own
          PROVE  Bit(data', a) <=> IF a[1] = r.tag /\ a[2] \in Bytes(p.at, p.len) /\ WordOf(a[2]) = w
                                   THEN a[3] \in p.bytes[a[2] - p.at + 1] ELSE Bit(data, a)
      <3>1. a[1] \in Tags /\ a \in BitsOfTag(a[1])
        BY OwnIs
      <3>2. DOMAIN bf = Bytes(p.at, p.len)
            /\ \A i \in Bytes(p.at, p.len) : bf[i] = p.bytes[i - p.at + 1]
        BY <2>2
      <3> DEFINE D == DOMAIN bf
                 t == r.tag
      <3>4. t \in Tags /\ Memory
        BY <1>8 DEF ControlInv
      <3>3. Copied(t, D, bf, w)
        <4> DEFINE f == [i \in DOMAIN data[t] |->
                          IF i \in D /\ WordOf(i) = w THEN bf[i] ELSE data[t][i]]
        <4>1. data' = [data EXCEPT ![t] = f]
          BY <1>5
        <4>2. \A i \in DOMAIN data[t] :
                f[i] = IF i \in D /\ WordOf(i) = w THEN bf[i] ELSE data[t][i]
          OBVIOUS
        <4> HIDE DEF f
        <4> QED
          BY <3>4, <4>1, <4>2 DEF Memory, Copied
      <3> HIDE DEF r, p, bf, D, t
      <3>5. Bit(data', a) <=> IF a[1] = t /\ a[2] \in D /\ WordOf(a[2]) = w
                              THEN a[3] \in bf[a[2]] ELSE Bit(data, a)
        BY <3>1, <3>3, <3>4, BitsAfterCopy
      <3> QED
        BY <3>2, <3>5 DEF D, t
    <2> HIDE DEF r, p, bf, old, q
    <2>4. clean[s] => LandedBits(x, m, r, "copyIn", p, old \ {w}, data')
      <3>1. ASSUME clean[s] PROVE LandedBits(x, m, r, "copyIn", p, old, data)
        BY <1>7, <3>1 DEF WriteRow
      <3> DEFINE f == data'
      <3>2. \A a \in x.own :
              Bit(f, a) <=> IF a[1] = r.tag /\ a[2] \in Bytes(p.at, p.len) /\ WordOf(a[2]) = w
                            THEN a[3] \in p.bytes[a[2] - p.at + 1] ELSE Bit(data, a)
        BY <2>3
      <3> HIDE DEF f
      <3>3. q = Requests(x)[m + 1]
        BY DEF q
      <3>4. clean[s] => LandedBits(x, m, r, "copyIn", p, old \ {w}, f)
        BY <1>4, <1>9, <2>1, <3>1, <3>2, <3>3, WordLands
      <3> QED
        BY <3>4 DEF f
    <2>5. WriteRow(x, m, r, "copyIn", p, old \ {w}, bf, clean'[s], data')
      BY <1>6, <2>4, PlainRow
    <2>6. /\ pc'[s] = "copyIn" /\ todo'[s] = old \ {w} /\ Len(answers'[s]) = m
          /\ transfer'[s] = {x} /\ request'[s] = r /\ plan'[s] = p /\ buffer'[s] = bf
      BY <1>1, <1>4, <1>6 DEF r, p, bf
    <2> QED
      BY <2>5, <2>6, RowThen
  <1>10. CASE q.service \notin Writing
    <2>1. m = 0 /\ q.service = "ReadModifyWrite"
      <3>1. q.service = "ReadModifyWrite"
        BY <1>4, <1>10 DEF StageOK, PlanOK
      <3>2. m + 1 \in 1..(Len(x.rest) + 1)
        BY RequestsOK
      <3>3. m + 1 = 1
        BY <3>1, <3>2, SingleService
      <3> QED
        BY <1>4, <3>1, <3>3
    <2> DEFINE te == old \ {w}
    <2>2. \A a \in x.own : ~Landed(x, m, r, "copyIn", p, te, m + 1, a)
      BY <1>10 DEF Landed
    <2> HIDE DEF r, p, bf, te
    <2>3. LandedBits(x, m, r, "copyIn", p, te, data')
      BY <1>4, <2>1, <2>2, NothingLanded
    <2>4. WriteRow(x, m, r, "copyIn", p, te, bf, clean'[s], data')
      BY <2>3, PlainRow
    <2> QED
      BY <1>1, <1>4, <1>6, <2>4, RowThen DEF r, p, bf, te
  <1> QED
    BY <1>9, <1>10

\* The last word of the copy is in the buffer.
LEMMA CopiedLands ==
  ASSUME NEW x, NEW m \in Nat, NEW r, NEW p, NEW d, LandedBits(x, m, r, "copyIn", p, {}, d),
         NEW c \in {"next", "reply"}
  PROVE  LandedBits(x, m, r, c, p, {}, d)
  <1>1. \A a \in x.own :
          /\ Bit(d, a) <=> Bit(d, a)
          /\ Landed(x, m, r, c, p, {}, m + 1, a) <=> Landed(x, m, r, "copyIn", p, {}, m + 1, a)
    BY DEF Landed, Moved
  <1> DEFINE none == {}
  <1>2. LandedBits(x, m, r, "copyIn", p, none, d)
    OBVIOUS
  <1>3. \A a \in x.own :
          /\ Bit(d, a) <=> Bit(d, a)
          /\ Landed(x, m, r, c, p, none, m + 1, a) <=> Landed(x, m, r, "copyIn", p, none, m + 1, a)
    BY <1>1
  <1> HIDE DEF none
  <1>4. LandedBits(x, m, r, c, p, none, d)
    BY <1>2, <1>3, SameLanded
  <1> QED
    BY <1>4 DEF none

\* The copy into the buffer is complete.
LEMMA WritingCopiedIn ==
  ASSUME NEW s \in Session, ControlInv, WritingOK(s), CopiedIn(s)
  PROVE  WritingOK(s)'
  <1>1. /\ pc[s] = "copyIn" /\ todo[s] = {} /\ pc' = [pc EXCEPT ![s] = ServedPC(s)]
        /\ UNCHANGED <<data, transfer, request, plan, todo, buffer, answers, clean>>
    BY DEF CopiedIn
  <1>2. PICK x \in Transfers : \E m \in 0..Len(x.rest) : Out(s, x, m)
    BY <1>1, Active DEF ControlInv
  <1>3. PICK m \in 0..Len(x.rest) : Out(s, x, m)
    BY <1>2
  <1> DEFINE r == request[s]
             p == plan[s]
             c == ServedPC(s)
  <1>4. m \in Nat /\ Len(answers[s]) = m /\ transfer[s] = {x} /\ c \in {"next", "reply"}
    BY <1>3, OutFacts DEF Out
  <1>5. WriteRow(x, m, r, "copyIn", p, {}, buffer[s], clean[s], data)
    BY <1>1, <1>3, RowIs
  <1>6. pc'[s] = c
    <2>1. pc' = [pc EXCEPT ![s] = c]
      BY <1>1
    <2> HIDE DEF c
    <2> QED
      BY <2>1 DEF ControlInv, Rows
  <1> HIDE DEF r, p, c
  <1>7. clean[s] => LandedBits(x, m, r, c, p, {}, data)
    BY <1>4, <1>5, CopiedLands DEF WriteRow
  <1>8. WriteRow(x, m, r, c, p, {}, buffer[s], clean[s], data)
    BY <1>4, <1>7, PlainRow
  <1> QED
    BY <1>1, <1>4, <1>6, <1>8, RowThen DEF r, p

\* The byte with the bit is stored, in one step with its word or after it was loaded.
LEMMA WritingPutByte ==
  ASSUME NEW s \in Session, ControlInv, WritingOK(s),
         NEW x \in Transfers, NEW m \in 0..Len(x.rest), Out(s, x, m),
         pc[s] \in {"setBit", "storeByte"}, NEW byte, PutByte(s, byte),
         UNCHANGED <<transfer, request, plan, todo, answers>>,
         clean[s] => \A a \in x.own : a[1] = request[s].tag /\ a[2] = plan[s].at =>
           (a[3] \in byte <=> IF a[3] = plan[s].bit THEN 0 \in plan[s].bytes[1] ELSE Bit(data, a))
  PROVE  WritingOK(s)'
  <1> DEFINE r == request[s]
             p == plan[s]
             c == ServedPC(s)
             q == Requests(x)[m + 1]
             td == todo[s]
  <1>1. /\ m \in Nat /\ Len(answers[s]) = m /\ transfer[s] = {x} /\ c \in {"next", "reply"}
        /\ WellFormed(r) /\ p = PlanOf(r) /\ PlanOK(r, p) /\ StageOK(pc[s], p, m < Len(x.rest))
        /\ RequestOK(x, r, q) /\ r.service = q.service
    BY OutFacts DEF Out, RequestOK
  <1>2. p.do = "bit"
    BY <1>1 DEF StageOK
  <1>3. q.service \in Writing
    BY <1>1, <1>2 DEF PlanOK
  <1>4. r.tag \in Tags
    BY <1>1, <1>2, PlanBytes
  <1>5. /\ data' = [data EXCEPT ![r.tag][p.at] = byte] /\ clean' = StillClean(s, data')
        /\ pc' = [pc EXCEPT ![s] = c] /\ buffer' = buffer
    BY DEF PutByte
  <1>6. pc'[s] = c
    <2> HIDE DEF c
    <2> QED
      BY <1>5 DEF ControlInv, Rows
  <1>7. clean'[s] => clean[s]
    BY <1>5, CleanThen
  <1>8. WriteRow(x, m, r, pc[s], p, td, buffer[s], clean[s], data)
    BY RowIs
  <1> DEFINE f == data'
             e == pc[s]
             t == r.tag
             at == p.at
  <1>9. ASSUME clean[s], NEW a \in x.own
        PROVE  Bit(f, a) <=> IF a = <<t, at, p.bit>> THEN 0 \in p.bytes[1] ELSE Bit(data, a)
    <2>1. a[1] \in Tags /\ a \in BitsOfTag(a[1])
      BY OwnIs
    <2>2. data' = [data EXCEPT ![t][at] = byte] /\ Memory
      BY <1>5 DEF ControlInv
    <2>3. a[1] = t /\ a[2] = at =>
            (a[3] \in byte <=> IF a[3] = p.bit THEN 0 \in p.bytes[1] ELSE Bit(data, a))
      BY <1>9
    <2> HIDE DEF r, p, t, at
    <2>4. Bit(data', a) <=> IF a[1] = t /\ a[2] = at THEN a[3] \in byte ELSE Bit(data, a)
      BY <1>4, <2>1, <2>2, BitsAfterPut DEF t
    <2>5. a = <<a[1], a[2], a[3]>>
      BY <2>1 DEF BitsOfTag
    <2>6. a = <<t, at, p.bit>> <=> a[1] = t /\ a[2] = at /\ a[3] = p.bit
      BY <2>5
    <2> QED
      BY <2>3, <2>4, <2>6
  <1>10. q = Requests(x)[m + 1]
    OBVIOUS
  <1>11. ASSUME clean[s] PROVE LandedBits(x, m, r, c, p, td, f)
    <2>1. LandedBits(x, m, r, e, p, td, data)
      BY <1>8, <1>11 DEF WriteRow
    <2>2. \A a \in x.own :
            Bit(f, a) <=> IF a = <<r.tag, p.at, p.bit>> THEN 0 \in p.bytes[1] ELSE Bit(data, a)
      BY <1>9, <1>11
    <2> HIDE DEF r, p, c, td, e, f, q
    <2> QED
      BY <1>1, <1>2, <1>3, <1>10, <2>1, <2>2, BitLands
  <1>12. WriteRow(x, m, r, c, p, td, buffer[s], clean'[s], data')
    <2> HIDE DEF r, p, c, td, q
    <2>1. clean'[s] => LandedBits(x, m, r, c, p, td, data')
      BY <1>7, <1>11 DEF f
    <2>2. c \notin {"storeByte", "done"}
      BY <1>1
    <2> QED
      BY <2>1, <2>2, PlainRow
  <1> QED
    <2>1. /\ transfer'[s] = {x} /\ Len(answers'[s]) = m /\ request'[s] = r /\ plan'[s] = p
          /\ todo'[s] = td /\ buffer'[s] = buffer[s]
      BY <1>1, <1>5
    <2> HIDE DEF r, p, td, c
    <2> QED
      BY <1>6, <1>12, <2>1, RowThen

\* The handler sets a bit, or loads the byte that holds it.
LEMMA WritingSetBit ==
  ASSUME NEW s \in Session, ControlInv, WritingOK(s), SetBit(s)
  PROVE  WritingOK(s)'
  <1> DEFINE r    == request[s]
             p    == plan[s]
             byte == data[r.tag][p.at]
             new  == WithBit(s, byte)
  <1>1. pc[s] = "setBit" /\ UNCHANGED <<transfer, request, plan, todo, answers>>
    BY DEF SetBit
  <1>2. PICK x \in Transfers : \E m \in 0..Len(x.rest) : Out(s, x, m)
    BY <1>1, Active DEF ControlInv
  <1>3. PICK m \in 0..Len(x.rest) : Out(s, x, m)
    BY <1>2
  <1>4. \A b : b \in new <=> IF b = p.bit THEN 0 \in p.bytes[1] ELSE b \in byte
    BY DEF WithBit
  <1> HIDE DEF new
  <1>5. \A a : a[1] = r.tag /\ a[2] = p.at =>
          (a[3] \in new <=> IF a[3] = p.bit THEN 0 \in p.bytes[1] ELSE Bit(data, a))
    BY <1>4 DEF Bit
  <1>6. CASE WholeWord(s)
    <2>1. PutByte(s, new)
      BY <1>6 DEF SetBit, new
    <2> HIDE DEF byte
    <2> QED
      BY <1>1, <1>3, <1>5, <2>1, WritingPutByte
  <1>7. CASE ~WholeWord(s)
    <2> DEFINE bf == [i \in {p.at} |-> new]
               td == todo[s]
    <2>1. /\ buffer' = [buffer EXCEPT ![s] = bf] /\ pc' = [pc EXCEPT ![s] = "storeByte"]
          /\ data' = data /\ clean' = clean
      BY <1>7 DEF SetBit, new
    <2>2. bf[p.at] = new
      OBVIOUS
    <2> HIDE DEF bf
    <2>3. buffer'[s] = bf /\ pc'[s] = "storeByte"
      BY <2>1 DEF ControlInv, Rows
    <2>4. m \in Nat /\ Len(answers[s]) = m /\ transfer[s] = {x}
      BY <1>3, OutFacts DEF Out
    <2>5. WriteRow(x, m, r, "setBit", p, td, buffer[s], clean[s], data)
      BY <1>1, <1>3, RowIs
    <2>6. ASSUME clean[s] PROVE LandedBits(x, m, r, "storeByte", p, td, data)
      <3>1. LandedBits(x, m, r, "setBit", p, td, data)
        BY <2>5, <2>6 DEF WriteRow
      <3> HIDE DEF r, p, td
      <3>2. \A a \in x.own :
              /\ Bit(data, a) <=> Bit(data, a)
              /\ Landed(x, m, r, "storeByte", p, td, m + 1, a) <=>
                   Landed(x, m, r, "setBit", p, td, m + 1, a)
        BY DEF Landed, Moved
      <3> QED
        BY <2>4, <3>1, <3>2, SameLanded
    <2>7. OtherBits(x, r, "storeByte", p, bf, data) /\ StoredBit("storeByte", p, bf)
      <3> HIDE DEF r, p
      <3> QED
        BY <1>4, <1>5, <2>2 DEF OtherBits, StoredBit
    <2>8. WriteRow(x, m, r, "storeByte", p, td, bf, clean[s], data)
      BY <2>6, <2>7 DEF WriteRow, Complete
    <2> QED
      BY <1>1, <2>1, <2>3, <2>4, <2>8, RowThen
  <1> QED
    BY <1>6, <1>7

\* The byte that was loaded is stored.
LEMMA WritingStoreByte ==
  ASSUME NEW s \in Session, ControlInv, WritingOK(s), StoreByte(s)
  PROVE  WritingOK(s)'
  <1> DEFINE byte == buffer[s][plan[s].at]
             p    == plan[s]
  <1>1. /\ pc[s] = "storeByte" /\ UNCHANGED <<transfer, request, plan, todo, answers>>
        /\ PutByte(s, byte)
    BY DEF StoreByte
  <1>2. PICK x \in Transfers : \E m \in 0..Len(x.rest) : Out(s, x, m)
    BY <1>1, Active DEF ControlInv
  <1>3. PICK m \in 0..Len(x.rest) : Out(s, x, m)
    BY <1>2
  <1>4. WriteRow(x, m, request[s], "storeByte", p, todo[s], buffer[s], clean[s], data)
    BY <1>1, <1>3, RowIs
  <1>5. clean[s] => \A a \in x.own : a[1] = request[s].tag /\ a[2] = p.at =>
          (a[3] \in byte <=> IF a[3] = p.bit THEN 0 \in p.bytes[1] ELSE Bit(data, a))
    BY <1>4 DEF WriteRow, OtherBits, StoredBit
  <1> HIDE DEF byte
  <1> QED
    BY <1>1, <1>3, <1>5, WritingPutByte

\* The next request of a packet.
LEMMA WritingNext ==
  ASSUME NEW s \in Session, ControlInv, WritingOK(s), NextInPacket(s)
  PROVE  WritingOK(s)'
  <1>1. /\ pc[s] = "next" /\ pc' = [pc EXCEPT ![s] = "asked"]
        /\ UNCHANGED <<data, transfer, plan, todo, buffer, clean>>
    BY DEF NextInPacket
  <1>2. PICK x \in Transfers : \E m \in 0..Len(x.rest) : Out(s, x, m)
    BY <1>1, Active DEF ControlInv
  <1>3. PICK m \in 0..Len(x.rest) : Out(s, x, m)
    BY <1>2
  <1> DEFINE r  == request[s]
             p  == plan[s]
             td == todo[s]
             u  == request'[s]
             k  == m + 1
  <1>4. /\ m \in Nat /\ Len(x.rest) \in Nat /\ p = PlanOf(r) /\ StageOK("next", p, m < Len(x.rest))
        /\ RequestOK(x, r, Requests(x)[m + 1]) /\ transfer[s] = {x} /\ answers[s] = AnswersTo(x, m)
    BY <1>1, <1>3, OutFacts DEF Out
  <1>5. m < Len(x.rest) /\ x.rest # <<>>
    <2>1. m < Len(x.rest)
      BY <1>4 DEF StageOK
    <2> QED
      BY <1>4, <2>1
  <1>6. answers'[s] = AnswersTo(x, k)
    <2>1. r = Requests(x)[m + 1]
      BY <1>4, <1>5 DEF RequestOK
    <2>2. answers' = [answers EXCEPT ![s] = AllAnswers(s)]
      BY DEF NextInPacket
    <2>3. answers'[s] = AllAnswers(s)
      BY <2>2 DEF ControlInv, Rows
    <2> QED
      BY <1>4, <2>1, <2>3, OneMoreAnswer DEF AllAnswers
  <1>7. pc'[s] = "asked" /\ Len(answers'[s]) = k
    BY <1>1, <1>4, <1>6 DEF ControlInv, Rows, AnswersTo
  <1>8. WriteRow(x, m, r, "next", p, td, buffer[s], clean[s], data)
    BY <1>1, <1>3, RowIs
  <1> HIDE DEF r, p, td, u
  <1>9. clean[s] => LandedBits(x, m + 1, u, "asked", p, td, data)
    BY <1>4, <1>5, <1>8, NextLands DEF WriteRow
  <1>10. WriteRow(x, k, u, "asked", p, td, buffer[s], clean[s], data)
    BY <1>9, PlainRow
  <1> HIDE DEF k
  <1> QED
    BY <1>1, <1>4, <1>7, <1>10, RowThen DEF p, td, u

\* What becomes of a transfer when the client takes a reply.
LEMMA TakeOut ==
  ASSUME NEW s \in Session, ControlInv, pc[s] = "reply", Take(s),
         NEW x \in Transfers, NEW m \in 0..Len(x.rest), Out(s, x, m)
  PROVE  LET whole == x.request.bytes
             next  == request[s].offset + Len(request[s].bytes)
         IN \/ /\ pc'[s] = "done" /\ request'[s] = request[s]
               /\ x.request.service = "WriteTagFragmented" /\ plan[s].do = "write" =>
                    ~(next < Len(whole))
            \/ /\ pc'[s] = "asked" /\ x.rest = <<>>
               /\ \/ x.request.service \notin Writing
                  \/ /\ x.request.service = "WriteTagFragmented" /\ plan[s].do # "nothing"
                     /\ request'[s].offset = next /\ next < Len(whole)
  <1> DEFINE r     == request[s]
             whole == x.request.bytes
             next  == r.offset + Len(r.bytes)
  <1>1. /\ WellFormed(r) /\ PlanOK(r, plan[s]) /\ (InPacket(s) <=> x.rest # <<>>) /\ transfer[s] = {x}
        /\ RequestOK(x, r, Requests(x)[m + 1])
    BY OutFacts DEF Out
  <1>2. ASSUME Finish(s) PROVE pc'[s] = "done" /\ request'[s] = r
    BY <1>2 DEF Finish, ControlInv, Rows
  <1>3. CASE InPacket(s)
    <2>1. Finish(s)
      BY <1>3 DEF Take, TakePacket
    <2>2. x.request.service # "WriteTagFragmented"
      <3>1. 1 \in 1..(Len(x.rest) + 1)
        BY RequestsOK
      <3> QED
        BY <1>1, <1>3, <3>1, RequestsOK
    <2> QED
      BY <1>2, <2>1, <2>2
  <1>4. CASE ~InPacket(s)
    <2>1. x.rest = <<>> /\ Requests(x)[m + 1] = x.request
      BY <1>1, <1>4, Single
    <2>2. r.service = x.request.service /\ r.by = x.request.by
      BY <1>1, <2>1 DEF RequestOK
    <2>3. \/ plan[s].do = "nothing" /\ Finish(s)
          \/ plan[s].do = "read" /\ TakeRead(s)
          \/ plan[s].do = "definition" /\ TakeDefinition(s)
          \/ plan[s].do \notin {"nothing", "read", "definition"} /\ TakeWrite(s)
      BY <1>4 DEF Take
    <2>4. CASE plan[s].do = "nothing" /\ Finish(s)
      BY <1>2, <2>4
    <2>5. CASE plan[s].do = "read" /\ TakeRead(s)
      <3>1. x.request.service \notin Writing
        BY <1>1, <2>2, <2>5 DEF PlanOK, Reading, Writing
      <3>2. pc' = [pc EXCEPT ![s] = "asked"] \/ Finish(s)
        BY <2>5 DEF TakeRead
      <3>3. pc'[s] = "asked" \/ Finish(s)
        BY <3>2 DEF ControlInv, Rows
      <3> QED
        BY <1>2, <2>1, <2>5, <3>1, <3>3
    <2>6. CASE plan[s].do = "definition" /\ TakeDefinition(s)
      <3>1. x.request.service \notin Writing
        BY <1>1, <2>2, <2>6 DEF PlanOK, WellFormed, Writing
      <3>2. pc' = [pc EXCEPT ![s] = "asked"] \/ Finish(s)
        BY <2>6 DEF TakeDefinition
      <3>3. pc'[s] = "asked" \/ Finish(s)
        BY <3>2 DEF ControlInv, Rows
      <3> QED
        BY <1>2, <2>1, <2>6, <3>1, <3>3
    <2>7. CASE plan[s].do \notin {"nothing", "read", "definition"} /\ TakeWrite(s)
      <3>1. (CHOOSE y \in transfer[s] : TRUE).request.bytes = whole
        <4>1. (CHOOSE y \in transfer[s] : TRUE) = x
          BY <1>1, Zenon
        <4> QED
          BY <4>1
      <3>2. \/ /\ request' = [request EXCEPT ![s].offset = next, ![s].bytes = ChunkFrom(whole, next)]
               /\ pc' = [pc EXCEPT ![s] = "asked"] /\ next < Len(whole)
               /\ r.service = "WriteTagFragmented"
            \/ Finish(s) /\ ~(r.service = "WriteTagFragmented" /\ next < Len(whole))
        BY <2>7, <3>1, Zenon DEF TakeWrite
      <3>3. CASE Finish(s) /\ ~(r.service = "WriteTagFragmented" /\ next < Len(whole))
        BY <1>2, <2>2, <3>3
      <3>4. CASE /\ request' = [request EXCEPT ![s].offset = next, ![s].bytes = ChunkFrom(whole, next)]
                 /\ pc' = [pc EXCEPT ![s] = "asked"] /\ next < Len(whole)
                 /\ r.service = "WriteTagFragmented"
        <4> DEFINE b == ChunkFrom(whole, next)
                   n == next
        <4>1. request' = [request EXCEPT ![s].offset = n, ![s].bytes = b]
          BY <3>4
        <4>2. r \in Request
          BY <1>1 DEF WellFormed
        <4> HIDE DEF b, n
        <4>3. request'[s].offset = n /\ pc'[s] = "asked"
          BY <3>4, <4>1, <4>2 DEF ControlInv, Rows, Request
        <4> QED
          BY <2>1, <2>2, <2>7, <3>4, <4>3 DEF n
      <3> QED
        BY <3>2, <3>3, <3>4
    <2> QED
      BY <2>3, <2>4, <2>5, <2>6, <2>7
  <1> QED
    BY <1>3, <1>4

\* The client takes a reply.
LEMMA WritingTake ==
  ASSUME NEW s \in Session, ControlInv, WritingOK(s), Take(s)
  PROVE  WritingOK(s)'
  <1>1. pc[s] = "reply" /\ UNCHANGED <<data, transfer, plan, todo, buffer, answers, clean>>
    BY DEF Take
  <1>2. PICK x \in Transfers : \E m \in 0..Len(x.rest) : Out(s, x, m)
    BY <1>1, Active DEF ControlInv
  <1>3. PICK m \in 0..Len(x.rest) : Out(s, x, m)
    BY <1>2
  <1> DEFINE r  == request[s]
             p  == plan[s]
             td == todo[s]
             u  == request'[s]
             q  == x.request
             next == r.offset + Len(r.bytes)
  <1>4. /\ m \in Nat /\ WellFormed(r) /\ p = PlanOf(r) /\ RequestOK(x, r, Requests(x)[m + 1])
        /\ PlanOK(r, p) /\ transfer[s] = {x} /\ Len(answers[s]) = m
    BY <1>1, <1>3, OutFacts DEF Out
  <1>5. WriteRow(x, m, r, "reply", p, td, buffer[s], clean[s], data)
    BY <1>1, <1>3, RowIs
  <1>6. CASE /\ pc'[s] = "done" /\ u = r
             /\ q.service = "WriteTagFragmented" /\ p.do = "write" => ~(next < Len(q.bytes))
    <2>1. clean[s] => LandedBits(x, m, r, "done", p, td, data)
      <3> HIDE DEF r, p, td
      <3> QED
        BY <1>4, <1>5, DoneLands DEF WriteRow
    <2>2. Complete(x, r, "done", p)
      <3> SUFFICES ASSUME q.service = "WriteTagFragmented", p.do = "write"
                   PROVE  next >= Len(q.bytes)
        BY DEF Complete
      <3>1. ~(next < Len(q.bytes))
        BY <1>6
      <3>2. x.rest = <<>>
        <4>1. 1 \in 1..(Len(x.rest) + 1) /\ Requests(x)[1] = q
          BY RequestsOK
        <4> QED
          BY <4>1, SingleService
      <3>3. RequestOK(x, r, q)
        BY <1>4, <3>2, Single
      <3>4. r.offset \in Nat /\ Len(r.bytes) \in Nat /\ Len(q.bytes) \in Nat
        BY <3>2, <3>3, ChunkFacts
      <3> QED
        BY <3>1, <3>4
    <2>3. WriteRow(x, m, r, "done", p, td, buffer[s], clean[s], data)
      BY <2>1, <2>2 DEF WriteRow, OtherBits, StoredBit
    <2> QED
      BY <1>1, <1>4, <1>6, <2>3, RowThen
  <1>7. CASE /\ pc'[s] = "asked" /\ x.rest = <<>>
             /\ \/ q.service \notin Writing
                \/ q.service = "WriteTagFragmented" /\ p.do # "nothing"
                   /\ u.offset = next /\ next < Len(q.bytes)
    <2>1. m = 0 /\ Requests(x)[m + 1] = q /\ WellFormed(q)
      BY <1>7, Single
    <2>2. clean[s] => LandedBits(x, m, u, "asked", p, td, data)
      <3>1. CASE q.service \notin Writing
        <4>1. \A a \in x.own : ~Landed(x, m, u, "asked", p, td, m + 1, a)
          BY <2>1, <3>1 DEF Landed
        <4> HIDE DEF r, p, td, u
        <4> QED
          BY <1>4, <2>1, <4>1, NothingLanded
      <3>2. CASE /\ q.service = "WriteTagFragmented" /\ p.do # "nothing"
                 /\ u.offset = next /\ next < Len(q.bytes)
        <4>1. RequestOK(x, r, q)
          BY <1>4, <2>1
        <4>2. /\ r.offset \in Nat /\ q.offset \in Nat /\ Len(q.bytes) \in Nat /\ Len(r.bytes) \in Nat
              /\ IsBit(q) => r.offset - q.offset = 0 /\ Len(r.bytes) = Len(q.bytes)
          BY <1>7, <3>2, <4>1, ChunkFacts
        <4>3. ~IsBit(q)
          <5> SUFFICES ASSUME IsBit(q) PROVE FALSE
            OBVIOUS
          <5>1. r.offset = q.offset /\ Len(r.bytes) = Len(q.bytes) /\ r.offset + Len(r.bytes) < Len(q.bytes)
            BY <3>2, <4>2
          <5> QED
            BY <4>2, <5>1
        <4>4. p.do = "write"
          <5>1. IsBit(r) <=> IsBit(q)
            BY <2>1, <4>1, OutOK
          <5>2. r.service = q.service /\ r.by = q.by
            BY <4>1 DEF RequestOK
          <5>3. q.by # "template"
            BY <2>1, <3>2 DEF WellFormed
          <5> QED
            BY <1>4, <3>2, <4>3, <5>1, <5>2, <5>3 DEF PlanOK, Reading
        <4>5. clean[s] => LandedBits(x, 0, r, "reply", p, td, data)
          BY <1>5, <2>1 DEF WriteRow
        <4>6. u.offset = r.offset + Len(r.bytes)
          BY <3>2
        <4> HIDE DEF r, p, td, u, q
        <4>7. clean[s] => LandedBits(x, 0, u, "asked", p, td, data)
          BY <1>4, <1>7, <3>2, <4>1, <4>4, <4>5, <4>6, ChunkLands DEF q
        <4> QED
          BY <2>1, <4>7
      <3> QED
        BY <1>7, <3>1, <3>2
    <2>3. WriteRow(x, m, u, "asked", p, td, buffer[s], clean[s], data)
      <3> HIDE DEF u, p, td
      <3> QED
        BY <2>2, PlainRow
    <2> QED
      BY <1>1, <1>4, <1>7, <2>3, RowThen
  <1> QED
    BY <1>1, <1>3, <1>6, <1>7, TakeOut

\* The server works on a request.
LEMMA WritingServe ==
  ASSUME NEW s \in Session, ControlInv, WritingOK(s), Serve(s)
  PROVE  WritingOK(s)'
  BY WritingHandle, WritingCopyOut, WritingCopiedOut, WritingCopyIn, WritingCopiedIn,
     WritingSetBit, WritingStoreByte, WritingNext DEF Serve

\* After a step of one session, another that is still clean has its bits as they were.
LEMMA StepClean ==
  ASSUME NEW s \in Session, Ask(s) \/ Take(s) \/ Serve(s), NEW c \in Session, clean'[c]
  PROVE  /\ clean[c]
         /\ c # s => \A x \in Transfers : transfer[c] = {x} => \A a \in x.own :
                       Bit(data', a) <=> Bit(data, a)
  <1>1. CASE data' = data /\ clean' = clean
    BY <1>1
  <1>2. CASE clean' = StillClean(s, data')
    BY <1>2, CleanThen
  <1>3. CASE CopyIn(s)
    BY <1>2, <1>3 DEF CopyIn
  <1>4. CASE SetBit(s) \/ StoreByte(s)
    <2>1. ASSUME NEW byte, PutByte(s, byte) PROVE clean' = StillClean(s, data')
      BY <2>1 DEF PutByte
    <2>2. CASE StoreByte(s)
      BY <1>2, <2>1, <2>2 DEF StoreByte
    <2>3. CASE SetBit(s)
      <3>1. CASE WholeWord(s)
        BY <1>2, <2>1, <2>3, <3>1 DEF SetBit
      <3>2. CASE ~WholeWord(s)
        BY <1>1, <2>3, <3>2 DEF SetBit
      <3> QED
        BY <3>1, <3>2
    <2> QED
      BY <1>4, <2>2, <2>3
  <1>5. CASE ~(CopyIn(s) \/ SetBit(s) \/ StoreByte(s))
    <2>1. data' = data /\ clean' = clean
      BY <1>5 DEF Serve, Ask, Take, Handle, CopyOut, CopiedOut, CopiedIn, NextInPacket
    <2> QED
      BY <1>1, <2>1
  <1> QED
    BY <1>3, <1>4, <1>5

\* So the rows of the other sessions are kept.
LEMMA WritingOther ==
  ASSUME NEW s \in Session, ControlInv, Ask(s) \/ Take(s) \/ Serve(s),
         NEW c \in Session \ {s}, WritingOK(c)
  PROVE  WritingOK(c)'
  <1>1. Kept(s)
    BY StepKept DEF ControlInv
  <1>2. /\ transfer'[c] = transfer[c] /\ pc'[c] = pc[c] /\ request'[c] = request[c]
        /\ plan'[c] = plan[c] /\ todo'[c] = todo[c] /\ buffer'[c] = buffer[c]
        /\ answers'[c] = answers[c]
    BY <1>1 DEF Kept, ControlInv, Rows
  <1>3. CASE transfer[c] = {}
    <2>1. transfer'[c] = {}
      BY <1>2, <1>3
    <2>2. \A y \in transfer'[c] :
            WriteRow(y, Len(answers'[c]), request'[c], pc'[c], plan'[c], todo'[c], buffer'[c],
                     clean'[c], data')
      BY <2>1
    <2> QED
      BY <2>2, Zenon DEF WritingOK
  <1>4. CASE transfer[c] # {}
    <2>1. Row(transfer[c], request[c], pc[c], plan[c], todo[c], buffer[c], answers[c], got[c])
      BY DEF ControlInv, Control
    <2>2. pc[c] # "idle"
      BY <1>4, <2>1, Zenon DEF Row, Busy
    <2>3. PICK x \in Transfers : \E m \in 0..Len(x.rest) : Out(c, x, m)
      BY <2>2, Active DEF ControlInv
    <2>4. PICK m \in 0..Len(x.rest) : Out(c, x, m)
      BY <2>3
    <2> DEFINE r  == request[c]
               p  == plan[c]
               td == todo[c]
               bf == buffer[c]
               e  == pc[c]
               f  == data'
    <2>5. WriteRow(x, m, r, e, p, td, bf, clean[c], data)
      BY <2>4, RowIs
    <2>6. transfer[c] = {x} /\ Len(answers[c]) = m /\ m \in Nat
      BY <2>4, OutFacts DEF Out
    <2>7. clean'[c] => clean[c] /\ \A a \in x.own : Bit(f, a) <=> Bit(data, a)
      BY <2>6, StepClean
    <2> HIDE DEF r, p, td, bf, e, f
    <2>8. ASSUME clean'[c] PROVE LandedBits(x, m, r, e, p, td, f)
      <3>1. \A a \in x.own :
              /\ Bit(f, a) <=> Bit(data, a)
              /\ Landed(x, m, r, e, p, td, m + 1, a) <=> Landed(x, m, r, e, p, td, m + 1, a)
        BY <2>7, <2>8
      <3>2. LandedBits(x, m, r, e, p, td, data)
        BY <2>5, <2>7, <2>8 DEF WriteRow
      <3> QED
        BY <2>6, <3>1, <3>2, SameLanded
    <2>9. ASSUME clean'[c] PROVE OtherBits(x, r, e, p, bf, f)
      <3>1. OtherBits(x, r, e, p, bf, data)
        BY <2>5, <2>7, <2>9 DEF WriteRow
      <3> QED
        BY <2>7, <2>9, <3>1 DEF OtherBits
    <2>10. WriteRow(x, m, r, e, p, td, bf, clean'[c], f)
      BY <2>5, <2>8, <2>9 DEF WriteRow
    <2>11. WriteRow(x, m, request'[c], pc'[c], plan'[c], todo'[c], buffer'[c], clean'[c], data')
      BY <1>2, <2>10 DEF r, p, td, bf, e, f
    <2> QED
      BY <1>2, <2>6, <2>11, RowThen
  <1> QED
    BY <1>3, <1>4

\* The invariant of the writes, for all sessions.
WriteInv == ControlInv /\ \A s \in Session : WritingOK(s)

\* It holds at first ...
LEMMA WriteInit ==
  ASSUME Init
  PROVE  WriteInv
  BY ControlInit DEF Init, WriteInv, WritingOK

\* ... and after every step.
LEMMA WriteStep ==
  ASSUME WriteInv, [Next]_vars
  PROVE  WriteInv'
  <1>1. ControlInv'
    BY ControlStep DEF WriteInv
  <1>2. CASE UNCHANGED vars
    <2>1. ASSUME NEW s \in Session PROVE WritingOK(s)'
      BY <1>2, Zenon DEF vars, WriteInv, WritingOK
    <2> QED
      BY <1>1, <2>1 DEF WriteInv
  <1>3. ASSUME NEW s \in Session, Ask(s) \/ Take(s) \/ Serve(s) PROVE WriteInv'
    <2>1. WritingOK(s)'
      BY <1>3, WritingAsk, WritingTake, WritingServe DEF WriteInv
    <2>2. ASSUME NEW c \in Session \ {s} PROVE WritingOK(c)'
      BY <1>3, WritingOther DEF WriteInv
    <2> QED
      BY <1>1, <2>1, <2>2 DEF WriteInv
  <1> QED
    BY <1>2, <1>3 DEF Next

\* The last number of a set with a highest possible one.
LEMMA LastNumber ==
  ASSUME NEW n \in Nat, NEW I, I \subseteq 1..n, I # {}
  PROVE  \E i \in I : \A j \in I : j <= i
  <1> DEFINE T == {k \in Nat : n - k \in I}
  <1>1. T # {}
    <2>1. PICK i \in I : TRUE
      OBVIOUS
    <2>2. n - i \in T
      BY <2>1
    <2> QED
      BY <2>2
  <1>2. T \subseteq Nat
    OBVIOUS
  <1> HIDE DEF T
  <1>3. PICK k \in T : \A l \in T : k <= l
    BY <1>1, <1>2, LeastNumber
  <1>4. n - k \in I /\ k \in Nat
    BY <1>3 DEF T
  <1>5. ASSUME NEW j \in I PROVE j <= n - k
    <2>1. n - j \in Nat /\ n - (n - j) = j
      OBVIOUS
    <2>2. n - j \in T
      BY <2>1 DEF T
    <2> QED
      BY <1>3, <1>4, <2>2
  <1> QED
    BY <1>4, <1>5

\* When the client has its last reply, all that the last request of the transfer may change is
\* in the buffer.
LEMMA AllMoved ==
  ASSUME NEW x \in Transfers, NEW m \in 0..Len(x.rest), NEW q, q = Requests(x)[m + 1],
         q.service \in Writing, NEW r, RequestOK(x, r, q), NEW p, p = PlanOf(r),
         Complete(x, r, "done", p), NEW td, NEW a \in Written(q)
  PROVE  Moved(q, r, "done", p, td, a)
  <1>1. m + 1 \in 1..(Len(x.rest) + 1) /\ WellFormed(q)
    BY RequestsOK
  <1>2. Lawful(q) /\ a[2] \in Nat
    BY <1>1, WrittenBits
  <1>3. /\ p.do \in {"write", "bit"} /\ p.at \in Nat /\ p.len \in Nat
        /\ PlaceOf(q).offset \in Nat /\ r.offset \in Nat
    BY <1>2, PlanWrites
  <1>4. CASE p.do = "bit"
    <2>1. Written(q) = {<<q.tag, p.at, p.bit>>} /\ p.len = 1
      BY <1>4, PlanWrites
    <2>2. a[2] = p.at
      BY <2>1
    <2>3. a[2] < p.at + p.len
      BY <1>3, <2>1, <2>2
    <2> QED
      BY <2>3 DEF Moved
  <1>5. CASE p.do = "write"
    <2>1. /\ Written(q) = {q.tag} \X Bytes(From(q), Width(q)) \X Bits
          /\ From(q) \in Nat /\ Width(q) \in Nat
          /\ q.service = "WriteTag" => p.at = From(q) /\ p.len = Width(q)
          /\ q.service = "WriteTagFragmented" =>
               p.at = PlaceOf(q).offset + r.offset /\ p.len = Len(r.bytes)
      BY <1>5, PlanWrites
    <2>2. a[2] < From(q) + Width(q)
      BY <1>2, <2>1 DEF Bytes
    <2>3. From(q) + Width(q) <= p.at + p.len
      <3>1. CASE q.service = "WriteTag"
        BY <1>3, <2>1, <3>1
      <3>2. CASE q.service = "WriteTagFragmented"
        <4>1. x.rest = <<>> /\ q = x.request
          BY <1>1, <3>2, SingleService
        <4>2. r.offset + Len(r.bytes) >= Len(q.bytes)
          BY <1>5, <3>2, <4>1 DEF Complete
        <4>3. /\ Len(q.bytes) \in Nat /\ q.offset \in Nat /\ Len(r.bytes) \in Nat
              /\ q.offset # 0 => r.offset - q.offset = 0 /\ Len(r.bytes) = Len(q.bytes)
          BY <3>2, <4>1, ChunkFacts
        <4>4. q.offset + Len(q.bytes) <= r.offset + Len(r.bytes)
          <5>1. CASE q.offset = 0
            BY <4>2, <4>3, <5>1
          <5>2. CASE q.offset # 0
            <6>1. r.offset = q.offset /\ Len(r.bytes) = Len(q.bytes)
              BY <1>3, <4>3, <5>2
            <6> QED
              BY <4>3, <6>1
          <5> QED
            BY <5>1, <5>2
        <4>5. From(q) = PlaceOf(q).offset + q.offset /\ Width(q) = Len(q.bytes)
          BY <3>2 DEF From, Width
        <4>6. p.at = PlaceOf(q).offset + r.offset /\ p.len = Len(r.bytes)
          BY <2>1, <3>2
        <4> DEFINE w == PlaceOf(q).offset
                   l == Len(q.bytes)
                   k == Len(r.bytes)
                   o == q.offset
        <4>7. /\ w \in Nat /\ l \in Nat /\ k \in Nat /\ o \in Nat /\ r.offset \in Nat
              /\ o + l <= r.offset + k /\ From(q) + Width(q) = (w + o) + l
              /\ p.at + p.len = (w + r.offset) + k
          BY <1>3, <4>3, <4>4, <4>5, <4>6
        <4> HIDE DEF w, l, k, o
        <4>8. (w + o) + l <= (w + r.offset) + k
          BY <4>7
        <4> QED
          BY <4>7, <4>8
      <3> QED
        BY <3>1, <3>2 DEF Writing
    <2>4. a[2] < p.at + p.len
      BY <1>2, <1>3, <2>1, <2>2, <2>3
    <2> QED
      BY <2>4 DEF Moved
  <1> QED
    BY <1>3, <1>4, <1>5

\* A write that no other session disturbed is in the buffer when the client has its last reply.
THEOREM WritesLandHolds == Spec => []WritesLand
  <1>1. Init => WriteInv
    BY WriteInit
  <1>2. WriteInv /\ [Next]_vars => WriteInv'
    BY WriteStep
  <1>3. WriteInv => WritesLand
    <2> SUFFICES ASSUME WriteInv, NEW s \in Session, NEW y \in transfer[s], Done(s), clean[s],
                        \E a \in Range(AllAnswers(s)) : a.wrote
                 PROVE  {a \in y.own : a[3] \in data[a[1]][a[2]]} = y.want
      BY DEF WritesLand
    <2>1. pc[s] = "done"
      BY DEF Done
    <2>2. PICK x \in Transfers : \E m \in 0..Len(x.rest) : Out(s, x, m)
      BY <2>1, Active DEF WriteInv, ControlInv
    <2>3. PICK m \in 0..Len(x.rest) : Out(s, x, m)
      BY <2>2
    <2> DEFINE r  == request[s]
               p  == plan[s]
               td == todo[s]
               R  == Requests(x)
               n  == m + 1
    <2>4. /\ y = x /\ m \in Nat /\ Len(x.rest) \in Nat /\ p = PlanOf(r) /\ PlanOK(r, p)
          /\ RequestOK(x, r, R[n]) /\ StageOK("done", p, m < Len(x.rest))
      BY <2>1, <2>3, OutFacts DEF Out
    <2>5. n \in Nat /\ n = Len(x.rest) + 1 /\ DOMAIN R = 1..n
      <3>1. m = Len(x.rest)
        BY <2>4 DEF StageOK
      <3> QED
        BY <2>4, <3>1, RequestsOK
    <2>6. WriteRow(x, m, r, "done", p, td, buffer[s], clean[s], data)
      BY <2>1, <2>3, RowIs DEF WriteInv
    <2>7. LandedBits(x, m, r, "done", p, td, data) /\ Complete(x, r, "done", p)
      BY <2>6 DEF WriteRow
    <2>8. x.request.service # "ReadModifyWrite"
      <3> SUFFICES ASSUME x.request.service = "ReadModifyWrite" PROVE FALSE
        OBVIOUS
      <3>1. 1 \in 1..(Len(x.rest) + 1) /\ R[1] = x.request
        BY RequestsOK
      <3>2. x.rest = <<>>
        BY <3>1, SingleService
      <3>3. m = 0 /\ r.service = "ReadModifyWrite"
        BY <2>4, <3>1, <3>2 DEF RequestOK
      <3>4. AllAnswers(s) = <<Answer(p)>>
        BY <2>3, <3>3 DEF AllAnswers, Out, AnswersTo
      <3>5. Answer(p).wrote
        BY <3>4 DEF Range
      <3>6. p.do \in {"write", "bit"}
        BY <3>5 DEF Answer
      <3> QED
        BY <2>4, <3>3, <3>6 DEF PlanOK, Writing
    <2>9. x.want = {a \in x.own : \E i \in DOMAIN R :
                      /\ a \in Written(R[i]) /\ Sets(R[i], a)
                      /\ \A j \in DOMAIN R : j > i => a \notin Written(R[j])}
      BY <2>8, TransfersAssumption DEF Described
    <2>10. ASSUME NEW i \in 1..n, NEW a \in x.own, a \in Written(R[i]),
                  \A j \in 1..n : j > i => a \notin Written(R[j])
           PROVE  Bit(data, a) <=> Sets(R[i], a)
      <3>1. WellFormed(R[i])
        BY <2>5, RequestsOK
      <3>2. R[i].service \in Writing
        <4>1. R[i].service \in Writing \cup {"ReadModifyWrite"}
          BY <2>10, <3>1, WrittenBits
        <4>2. R[i].service # "ReadModifyWrite"
          BY <2>5, <2>8, SingleService
        <4> QED
          BY <4>1, <4>2
      <3>3. Landed(x, m, r, "done", p, td, i, a)
        <4>1. i = m + 1 => Moved(R[i], r, "done", p, td, a)
          <5> SUFFICES ASSUME i = m + 1 PROVE Moved(R[i], r, "done", p, td, a)
            OBVIOUS
          <5> DEFINE q == R[i]
          <5>1. q = Requests(x)[m + 1] /\ q.service \in Writing /\ RequestOK(x, r, q) /\ a \in Written(q)
            BY <2>4, <2>10, <3>2
          <5> HIDE DEF q, r, p, td
          <5>2. Moved(q, r, "done", p, td, a)
            BY <2>4, <2>7, <5>1, AllMoved
          <5> QED
            BY <5>2 DEF q
        <4> QED
          BY <2>10, <3>2, <4>1 DEF Landed
      <3>4. \A j \in (i + 1)..(m + 1) : ~Landed(x, m, r, "done", p, td, j, a)
        <4>1. ASSUME NEW j \in (i + 1)..(m + 1) PROVE a \notin Written(R[j])
          <5>1. j \in 1..n /\ j > i
            BY <2>5
          <5> QED
            BY <2>10, <5>1
        <4> QED
          BY <4>1 DEF Landed
      <3> HIDE DEF r, p, td
      <3> QED
        BY <2>4, <2>7, <3>3, <3>4 DEF LandedBits
    <2>11. ASSUME NEW a \in x.own
           PROVE  Bit(data, a) <=> \E i \in 1..n :
                    /\ a \in Written(R[i]) /\ Sets(R[i], a)
                    /\ \A j \in 1..n : j > i => a \notin Written(R[j])
      <3> DEFINE I == {i \in 1..n : a \in Written(R[i])}
      <3>1. I # {}
        BY <2>5, OwnIs
      <3>2. PICK i \in I : \A j \in I : j <= i
        <4>1. I \subseteq 1..n
          OBVIOUS
        <4> HIDE DEF I, n
        <4> QED
          BY <2>5, <3>1, <4>1, LastNumber
      <3>3. i \in 1..n /\ a \in Written(R[i])
        BY <3>2
      <3>4. \A j \in 1..n : j > i => a \notin Written(R[j])
        <4> SUFFICES ASSUME NEW j \in 1..n, j > i, a \in Written(R[j]) PROVE FALSE
          OBVIOUS
        <4>1. j <= i
          BY <3>2
        <4> QED
          BY <2>5, <3>3, <4>1
      <3>5. Bit(data, a) <=> Sets(R[i], a)
        BY <2>10, <3>3, <3>4
      <3> HIDE DEF n, R, I
      <3> QED
        BY <2>10, <3>3, <3>4, <3>5
    <2>12. {a \in x.own : Bit(data, a)} = x.want
      <3> HIDE DEF R, n
      <3> QED
        BY <2>5, <2>9, <2>11
    <2> QED
      BY <2>4, <2>12 DEF Bit
  <1> QED
    BY <1>1, <1>2, <1>3, PTL DEF Spec

---------------------------------------------------------------------------
\* The byte that is about to be stored has the other bits as the buffer has them.
Apart(r, c, p, bf, d) ==
  c = "storeByte" =>
    /\ StoredWithByte(r, p.at)
    /\ \A b \in Bits \ {p.bit} : b \in bf[p.at] <=> b \in d[r.tag][p.at]

ApartOK(s) == Apart(request[s], pc[s], plan[s], buffer[s], data)

\* A bit that differs between two states of the buffers.
LEMMA BitChanged ==
  ASSUME NEW a \in Changed(data, data')
  PROVE  /\ a[1] \in Tags /\ a \in BitsOfTag(a[1]) /\ data' # data
         /\ ~(Bit(data', a) <=> Bit(data, a))
  <1>1. /\ a \in UNION {BitsOfTag(t) : t \in {u \in Tags : data[u] # data'[u]}}
        /\ (a[3] \in data[a[1]][a[2]]) # (a[3] \in data'[a[1]][a[2]])
    BY Zenon DEF Changed
  <1>2. PICK t \in Tags : data[t] # data'[t] /\ a \in BitsOfTag(t)
    BY <1>1
  <1>3. a[1] = t
    BY <1>2 DEF BitsOfTag
  <1> DEFINE S == data[a[1]][a[2]]
             T == data'[a[1]][a[2]]
             u == a[3]
  <1>4. (u \in S) # (u \in T)
    BY <1>1, Zenon
  <1> HIDE DEF S, T, u
  <1>5. ~((u \in S) <=> (u \in T))
    BY <1>4
  <1>6. ~((a[3] \in data[a[1]][a[2]]) <=> (a[3] \in data'[a[1]][a[2]]))
    BY <1>5 DEF S, T, u
  <1> QED
    BY <1>2, <1>3, <1>6 DEF Bit

\* A word of the handler's copy holds bits of the transfer only.
LEMMA CopyInOwn ==
  ASSUME NEW s \in Session, ControlInv, CopyIn(s),
         NEW x \in Transfers, NEW m \in 0..Len(x.rest), Out(s, x, m),
         NEW a, a[1] \in Tags, a \in BitsOfTag(a[1]), a \notin x.own
  PROVE  Bit(data', a) <=> Bit(data, a)
  <1> DEFINE r == request[s]
             p == plan[s]
             q == Requests(x)[m + 1]
             bf == buffer[s]
             D == DOMAIN bf
             t == r.tag
  <1>1. pc[s] = "copyIn"
    BY DEF CopyIn
  <1>2. /\ WellFormed(r) /\ p = PlanOf(r) /\ PlanOK(r, p) /\ StageOK("copyIn", p, m < Len(x.rest))
        /\ BufferOK("copyIn", p, todo[s], bf) /\ WellFormed(q)
        /\ r.service = q.service /\ RequestOK(x, r, q) /\ t = q.tag /\ r.by = q.by
    BY <1>1, OutFacts DEF RequestOK
  <1>3. D \subseteq Bytes(p.at, p.len)
    BY <1>2 DEF BufferOK
  <1>4. {q.tag} \X Bytes(p.at, p.len) \X Bits \subseteq Written(q)
    <2>1. CASE p.do = "write"
      <3>1. q.service \in Writing
        BY <1>2, <2>1 DEF PlanOK
      <3>2. q = Requests(x)[m + 1]
        OBVIOUS
      <3> HIDE DEF q, r, p
      <3>3. /\ Written(q) = {q.tag} \X Bytes(From(q), Width(q)) \X Bits
            /\ From(q) \in Nat /\ Width(q) \in Nat /\ p.at \in Nat /\ p.len \in Nat
            /\ From(q) <= p.at /\ p.at + p.len <= From(q) + Width(q)
        BY <1>2, <2>1, <3>1, <3>2, PlanWrites
      <3>4. Bytes(p.at, p.len) \subseteq Bytes(From(q), Width(q))
        BY <3>3 DEF Bytes
      <3> QED
        BY <3>3, <3>4
    <2>2. CASE p.do = "modify"
      <3>1. /\ r.service = "ReadModifyWrite" /\ p.at = 0 /\ p.len = Width(r) /\ r.by # "template"
            /\ Served(r)
        BY <1>2, <2>2 DEF PlanOK
      <3>2. Lawful(r)
        BY <3>1 DEF Served
      <3>3. r.bytes = q.bytes /\ (Lawful(r) <=> Lawful(q))
        BY <1>2, <3>1, OutOK, LawfulSame
      <3>4. From(q) = 0 /\ Width(q) = Width(r)
        BY <1>2, <3>1, <3>3 DEF From, Width
      <3>5. ~(q.service \in Writing /\ IsBit(q)) /\ q.service \in Writing \cup {"ReadModifyWrite"}
        BY <1>2, <3>1 DEF Writing
      <3> HIDE DEF q, r, p
      <3>6. Written(q) = {q.tag} \X Bytes(From(q), Width(q)) \X Bits
        BY <1>2, <3>2, <3>3, <3>5, WrittenIs
      <3> QED
        BY <3>1, <3>4, <3>6
    <2> QED
      BY <1>2, <2>1, <2>2 DEF StageOK
  <1>5. Written(q) \subseteq x.own
    BY RequestsOK, OwnIs
  <1>6. ~(a[1] = t /\ a[2] \in D)
    <2>1. a = <<a[1], a[2], a[3]>> /\ a[3] \in Bits
      BY DEF BitsOfTag
    <2>2. a \notin {q.tag} \X Bytes(p.at, p.len) \X Bits
      BY <1>4, <1>5
    <2> HIDE DEF q, r, p, D, t
    <2> QED
      BY <1>2, <1>3, <2>1, <2>2
  <1>7. t \in Tags /\ Memory
    BY <1>2, PlanBytes DEF ControlInv, StageOK
  <1>8. PICK w \in todo[s] : Copied(t, D, bf, w)
    <2>1. PICK w \in todo[s] :
            data' = [data EXCEPT ![t] = [i \in DOMAIN data[t] |->
                       IF i \in D /\ WordOf(i) = w THEN bf[i] ELSE data[t][i]]]
      BY DEF CopyIn
    <2> DEFINE f == [i \in DOMAIN data[t] |->
                       IF i \in D /\ WordOf(i) = w THEN bf[i] ELSE data[t][i]]
    <2>2. data' = [data EXCEPT ![t] = f]
      BY <2>1
    <2>3. \A i \in DOMAIN data[t] :
            f[i] = IF i \in D /\ WordOf(i) = w THEN bf[i] ELSE data[t][i]
      OBVIOUS
    <2> HIDE DEF f, t, D, bf
    <2>4. Copied(t, D, bf, w)
      BY <1>7, <2>2, <2>3 DEF Memory, Copied
    <2> QED
      BY <2>4
  <1> HIDE DEF t, D, bf
  <1>9. Bit(data', a) <=> IF a[1] = t /\ a[2] \in D /\ WordOf(a[2]) = w
                          THEN a[3] \in bf[a[2]] ELSE Bit(data, a)
    BY <1>7, <1>8, BitsAfterCopy
  <1> QED
    BY <1>6, <1>9

\* The store of a byte whose other bits are as the buffer has them changes the one bit.
LEMMA PutByteOwn ==
  ASSUME NEW s \in Session, ControlInv,
         NEW x \in Transfers, NEW m \in 0..Len(x.rest), Out(s, x, m),
         pc[s] \in {"setBit", "storeByte"}, NEW byte, PutByte(s, byte),
         \A b \in Bits \ {plan[s].bit} : b \in byte <=> b \in data[request[s].tag][plan[s].at],
         NEW a, a[1] \in Tags, a \in BitsOfTag(a[1]), a \notin x.own
  PROVE  Bit(data', a) <=> Bit(data, a)
  <1> DEFINE r == request[s]
             p == plan[s]
             q == Requests(x)[m + 1]
             t == r.tag
             at == p.at
  <1>1. /\ WellFormed(r) /\ p = PlanOf(r) /\ PlanOK(r, p) /\ StageOK(pc[s], p, m < Len(x.rest))
        /\ RequestOK(x, r, q) /\ r.service = q.service /\ t = q.tag
    BY OutFacts DEF RequestOK
  <1>2. p.do = "bit"
    BY <1>1 DEF StageOK
  <1>3. q.service \in Writing /\ t \in Tags /\ Memory
    <2>1. r.tag \in Tags
      BY <1>1, <1>2, PlanBytes
    <2> QED
      BY <1>1, <1>2, <2>1 DEF PlanOK, ControlInv
  <1>4. <<t, at, p.bit>> \in x.own
    <2>1. q = Requests(x)[m + 1]
      OBVIOUS
    <2> HIDE DEF q, r, p
    <2>2. Written(q) = {<<q.tag, p.at, p.bit>>}
      BY <1>1, <1>2, <1>3, <2>1, PlanWrites
    <2>3. Written(q) \subseteq x.own
      BY <2>1, RequestsOK, OwnIs
    <2> QED
      BY <1>1, <2>2, <2>3
  <1>5. data' = [data EXCEPT ![t][at] = byte]
    BY DEF PutByte
  <1>6. a = <<a[1], a[2], a[3]>> /\ a[3] \in Bits
    BY DEF BitsOfTag
  <1> DEFINE bit == p.bit
             others == Bits \ {bit}
  <1>7. \A b \in others : b \in byte <=> b \in data[t][at]
    OBVIOUS
  <1>8. <<t, at, bit>> \in x.own
    BY <1>4
  <1> HIDE DEF t, at, bit
  <1>9. Bit(data', a) <=> IF a[1] = t /\ a[2] = at THEN a[3] \in byte ELSE Bit(data, a)
    BY <1>3, <1>5, BitsAfterPut
  <1>10. CASE a[1] = t /\ a[2] = at
    <2>1. a[3] # bit
      BY <1>6, <1>8, <1>10
    <2>2. a[3] \in others
      BY <1>6, <2>1
    <2>3. a[3] \in byte <=> a[3] \in data[t][at]
      BY <1>7, <2>2
    <2> QED
      BY <1>9, <1>10, <2>3 DEF Bit
  <1>11. CASE ~(a[1] = t /\ a[2] = at)
    BY <1>9, <1>11
  <1> QED
    BY <1>10, <1>11

\* A step of a session changes only bits that its transfer addresses, and moves its pc or todo.
LEMMA StepOwn ==
  ASSUME NEW s \in Session, ControlInv, ApartOK(s), Ask(s) \/ Take(s) \/ Serve(s), data' # data
  PROVE  /\ pc'[s] # pc[s] \/ todo'[s] # todo[s]
         /\ \E x \in Transfers :
              /\ transfer[s] = {x}
              /\ \A a : a[1] \in Tags /\ a \in BitsOfTag(a[1]) /\ a \notin x.own =>
                   (Bit(data', a) <=> Bit(data, a))
  <1>1. CopyIn(s) \/ SetBit(s) \/ StoreByte(s)
    BY DEF Serve, Ask, Take, Handle, CopyOut, CopiedOut, CopiedIn, NextInPacket
  <1>2. pc[s] \in {"copyIn", "setBit", "storeByte"}
    BY <1>1 DEF CopyIn, SetBit, StoreByte
  <1>3. PICK x \in Transfers : \E m \in 0..Len(x.rest) : Out(s, x, m)
    BY <1>2, Active DEF ControlInv
  <1>4. PICK m \in 0..Len(x.rest) : Out(s, x, m)
    BY <1>3
  <1>5. transfer[s] = {x} /\ ServedPC(s) \in {"next", "reply"}
    BY <1>4, OutFacts DEF Out
  <1>6. ASSUME NEW byte, PutByte(s, byte) PROVE pc'[s] = ServedPC(s)
    <2> DEFINE c == ServedPC(s)
    <2>1. pc' = [pc EXCEPT ![s] = c]
      BY <1>6 DEF PutByte
    <2> HIDE DEF c
    <2>2. pc'[s] = c
      BY <2>1 DEF ControlInv, Rows
    <2> QED
      BY <2>2 DEF c
  <1>7. CASE CopyIn(s)
    <2>1. PICK w \in todo[s] : todo' = [todo EXCEPT ![s] = todo[s] \ {w}]
      BY <1>7 DEF CopyIn
    <2>2. todo'[s] # todo[s]
      <3>1. todo'[s] = todo[s] \ {w}
        BY <2>1 DEF ControlInv, Rows
      <3> QED
        BY <3>1
    <2>3. \A a : a[1] \in Tags /\ a \in BitsOfTag(a[1]) /\ a \notin x.own =>
            (Bit(data', a) <=> Bit(data, a))
      BY <1>4, <1>7, CopyInOwn
    <2> QED
      BY <1>5, <2>2, <2>3
  <1>8. CASE SetBit(s)
    <2> DEFINE byte == data[request[s].tag][plan[s].at]
               new  == WithBit(s, byte)
    <2>1. pc[s] = "setBit"
      BY <1>8 DEF SetBit
    <2>2. PutByte(s, new)
      BY <1>8 DEF SetBit
    <2>3. \A b \in Bits \ {plan[s].bit} : b \in new <=> b \in data[request[s].tag][plan[s].at]
      BY DEF WithBit
    <2> HIDE DEF new
    <2>4. \A a : a[1] \in Tags /\ a \in BitsOfTag(a[1]) /\ a \notin x.own =>
            (Bit(data', a) <=> Bit(data, a))
      BY <1>4, <2>1, <2>2, <2>3, PutByteOwn
    <2>5. pc'[s] # pc[s]
      BY <1>5, <1>6, <2>1, <2>2
    <2> QED
      BY <1>5, <2>4, <2>5
  <1>9. CASE StoreByte(s)
    <2> DEFINE new == buffer[s][plan[s].at]
    <2>1. pc[s] = "storeByte"
      BY <1>9 DEF StoreByte
    <2>2. PutByte(s, new)
      BY <1>9 DEF StoreByte
    <2>3. \A b \in Bits \ {plan[s].bit} : b \in new <=> b \in data[request[s].tag][plan[s].at]
      BY <2>1 DEF ApartOK, Apart
    <2> HIDE DEF new
    <2>4. \A a : a[1] \in Tags /\ a \in BitsOfTag(a[1]) /\ a \notin x.own =>
            (Bit(data', a) <=> Bit(data, a))
      BY <1>4, <2>1, <2>2, <2>3, PutByteOwn
    <2>5. pc'[s] # pc[s]
      BY <1>5, <1>6, <2>1, <2>2
    <2> QED
      BY <1>5, <2>4, <2>5
  <1> QED
    BY <1>1, <1>7, <1>8, <1>9

\* Only the load of a byte leads to its store.
LEMMA ApartOwn ==
  ASSUME NEW s \in Session, ControlInv, Ask(s) \/ Take(s) \/ Serve(s)
  PROVE  ApartOK(s)'
  <1> SUFFICES ASSUME pc'[s] = "storeByte"
               PROVE  Apart(request'[s], "storeByte", plan'[s], buffer'[s], data')
    BY Zenon DEF ApartOK, Apart
  <1>1. SetBit(s) /\ ~WholeWord(s)
    <2>1. pc[s] # "idle" => ServedPC(s) \in {"next", "reply"}
      <3> SUFFICES ASSUME pc[s] # "idle" PROVE ServedPC(s) \in {"next", "reply"}
        OBVIOUS
      <3>1. PICK x \in Transfers : \E m \in 0..Len(x.rest) : Out(s, x, m)
        BY Active DEF ControlInv
      <3> QED
        BY <3>1, OutFacts
    <2>2. ASSUME NEW c, pc' = [pc EXCEPT ![s] = c] PROVE c = "storeByte"
      BY <2>2 DEF ControlInv, Rows
    <2>3. ~(pc' = [pc EXCEPT ![s] = ServedPC(s)] /\ pc[s] # "idle")
      <3> DEFINE c == ServedPC(s)
      <3>1. pc[s] # "idle" => c # "storeByte"
        BY <2>1
      <3> HIDE DEF c
      <3>2. ~(pc' = [pc EXCEPT ![s] = c] /\ pc[s] # "idle")
        BY <2>2, <3>1
      <3> QED
        BY <3>2 DEF c
    <2>4. ~Ask(s)
      BY <2>2 DEF Ask
    <2>5. ~Take(s)
      <3>1. ~Finish(s) /\ pc' # [pc EXCEPT ![s] = "asked"]
        BY <2>2 DEF Finish
      <3> QED
        BY <3>1, Zenon DEF Take, TakePacket, TakeRead, TakeDefinition, TakeWrite
    <2>6. ~Handle(s)
      <3> SUFFICES ASSUME Handle(s) PROVE FALSE
        OBVIOUS
      <3> DEFINE p == PlanOf(request[s])
                 c == CASE p.do \in {"read", "modify"} -> "copyOut"
                        [] p.do = "write"   -> "copyIn"
                        [] p.do = "bit"     -> "setBit"
                        [] p.do \in {"nothing", "definition"} -> ServedPC(s)
      <3>1. pc[s] = "asked" /\ pc' = [pc EXCEPT ![s] = c]
        BY Zenon DEF Handle, PlanOf
      <3>2. c = "storeByte"
        <4> HIDE DEF c
        <4> QED
          BY <2>2, <3>1
      <3>3. PICK x \in Transfers : \E m \in 0..Len(x.rest) : Out(s, x, m)
        BY <3>1, Active DEF ControlInv
      <3>4. WellFormed(request[s])
        BY <3>3, OutFacts
      <3>5. PlanOK(request[s], p)
        BY <3>4, PlanIs
      <3> HIDE DEF p
      <3>6. p.do \in {"nothing", "read", "write", "modify", "bit", "definition"}
        BY <3>5 DEF PlanOK
      <3>7. ServedPC(s) \in {"next", "reply"}
        BY <2>1, <3>1
      <3> QED
        BY <3>2, <3>6, <3>7
    <2>7. ~CopyOut(s) /\ ~CopyIn(s)
      <3>1. CopyOut(s) => pc[s] = "copyOut" /\ pc' = pc
        BY DEF CopyOut
      <3>2. CopyIn(s) => pc[s] = "copyIn" /\ pc' = pc
        BY DEF CopyIn
      <3> QED
        BY <3>1, <3>2
    <2>8. ~CopiedOut(s)
      <3>1. CopiedOut(s) => /\ pc[s] = "copyOut"
                            /\ pc' = [pc EXCEPT ![s] = "copyIn"] \/ pc' = [pc EXCEPT ![s] = ServedPC(s)]
        BY DEF CopiedOut
      <3>2. pc' # [pc EXCEPT ![s] = "copyIn"]
        BY <2>2
      <3> QED
        BY <2>3, <3>1, <3>2
    <2>9. ~CopiedIn(s)
      BY <2>3 DEF CopiedIn
    <2>10. ~NextInPacket(s)
      BY <2>2 DEF NextInPacket
    <2>11. ASSUME NEW byte PROVE ~(pc[s] # "idle" /\ PutByte(s, byte))
      BY <2>3 DEF PutByte
    <2>12. ~StoreByte(s)
      BY <2>11 DEF StoreByte
    <2>13. SetBit(s)
      BY <2>4, <2>5, <2>6, <2>7, <2>8, <2>9, <2>10, <2>12 DEF Serve
    <2>14. ~WholeWord(s)
      BY <2>11, <2>13 DEF SetBit
    <2> QED
      BY <2>13, <2>14
  <1> DEFINE at  == plan[s].at
             new == WithBit(s, data[request[s].tag][at])
             bf  == [i \in {at} |-> new]
  <1>2. buffer' = [buffer EXCEPT ![s] = bf] /\ UNCHANGED <<data, request, plan>>
    BY <1>1 DEF SetBit
  <1>3. bf[at] = new
    OBVIOUS
  <1>4. \A b \in Bits \ {plan[s].bit} : b \in new <=> b \in data[request[s].tag][at]
    BY DEF WithBit
  <1>5. buffer'[s][at] = new
    <2> HIDE DEF bf
    <2> QED
      BY <1>2, <1>3 DEF ControlInv, Rows
  <1>6. StoredWithByte(request[s], at)
    BY <1>1 DEF StoredWithByte, WholeWord
  <1> HIDE DEF new
  <1> QED
    BY <1>2, <1>4, <1>5, <1>6 DEF Apart

\* No step of another session disturbs a byte that is about to be stored.
LEMMA ApartOther ==
  ASSUME BytesApart, NEW s \in Session, ControlInv, ApartOK(s), Ask(s) \/ Take(s) \/ Serve(s),
         NEW c \in Session \ {s}, ApartOK(c)
  PROVE  ApartOK(c)'
  <1> DEFINE r  == request[c]
             p  == plan[c]
             bf == buffer[c]
             t  == r.tag
             at == p.at
  <1>1. request'[c] = r /\ pc'[c] = pc[c] /\ plan'[c] = p /\ buffer'[c] = bf
    <2>1. Kept(s)
      BY StepKept DEF ControlInv
    <2> QED
      BY <2>1 DEF Kept, ControlInv, Rows
  <1> SUFFICES ASSUME pc[c] = "storeByte" PROVE Apart(r, "storeByte", p, bf, data')
    <2>1. Apart(request'[c], pc'[c], plan'[c], buffer'[c], data')
      <3>1. pc[c] # "storeByte" => Apart(r, pc[c], p, bf, data')
        BY DEF Apart
      <3> HIDE DEF r, p, bf
      <3> QED
        BY <1>1, <3>1
    <2> QED
      BY <2>1 DEF ApartOK
  <1>2. /\ StoredWithByte(r, at)
        /\ \A b \in Bits \ {p.bit} : b \in bf[at] <=> b \in data[t][at]
    BY DEF ApartOK, Apart
  <1>3. CASE data' = data
    BY <1>2, <1>3 DEF Apart
  <1>4. CASE data' # data
    <2>1. PICK y \in Transfers : \E n \in 0..Len(y.rest) : Out(c, y, n)
      BY Active DEF ControlInv
    <2>2. PICK n \in 0..Len(y.rest) : Out(c, y, n)
      BY <2>1
    <2> DEFINE q == Requests(y)[n + 1]
    <2>3. /\ WellFormed(r) /\ p = PlanOf(r) /\ PlanOK(r, p) /\ p.do = "bit"
          /\ WellFormed(q) /\ RequestOK(y, r, q) /\ n \in Nat /\ Len(y.rest) \in Nat
      BY <2>2, OutFacts DEF StageOK
    <2>4. q.service \in Writing /\ t = q.tag /\ t \in Tags /\ at \in 0..(Shape[t].size - 1)
          /\ p.bit \in Bits
      <3>1. r.service \in Writing /\ p.bit \in Bits /\ p.len = 1
        BY <2>3 DEF PlanOK
      <3>2. t \in Tags /\ at \in Nat /\ Bytes(at, p.len) \subseteq 0..(Shape[t].size - 1)
        BY <2>3, PlanBytes
      <3>3. at \in Bytes(at, p.len)
        BY <3>1, <3>2 DEF Bytes
      <3> QED
        BY <2>3, <3>1, <3>2, <3>3 DEF RequestOK
    <2>5. Lawful(q) /\ IsBit(q) /\ at = PlaceOf(q).offset /\ p.bit = PlaceOf(q).bit
      <3>1. q = Requests(y)[n + 1]
        OBVIOUS
      <3> HIDE DEF q, r, p
      <3>2. Lawful(q) /\ IsBit(q) /\ Written(q) = {<<q.tag, p.at, p.bit>>}
        BY <2>3, <2>4, <3>1, PlanWrites
      <3>3. Written(q) = {<<q.tag, PlaceOf(q).offset, PlaceOf(q).bit>>}
        BY <2>4, <3>2 DEF Written
      <3>4. <<q.tag, p.at, p.bit>> = <<q.tag, PlaceOf(q).offset, PlaceOf(q).bit>>
        BY <3>2, <3>3
      <3> QED
        BY <3>2, <3>4
    <2>6. n + 1 \in DOMAIN Requests(y)
      BY <2>3, RequestsOK
    <2>7. PICK x \in Transfers :
            \A a : a[1] \in Tags /\ a \in BitsOfTag(a[1]) /\ a \notin x.own =>
              (Bit(data', a) <=> Bit(data, a))
      BY <1>4, StepOwn
    <2>8. ASSUME NEW b \in Bits \ {p.bit}
          PROVE  b \in data'[t][at] <=> b \in data[t][at]
      <3> DEFINE a == <<t, at, b>>
      <3>1. a \notin x.own
        <4> SUFFICES ASSUME a \in x.own PROVE FALSE
          OBVIOUS
        <4>1. StoredWithByte(q, PlaceOf(q).offset)
          BY <1>2, <2>4, <2>5 DEF StoredWithByte
        <4>2. a[1] = q.tag /\ a[2] = PlaceOf(q).offset /\ a[3] = b
          BY <2>4, <2>5
        <4> HIDE DEF a
        <4>3. a[3] = PlaceOf(q).bit
          BY <2>4, <2>5, <2>6, <4>1, <4>2, Zenon DEF BytesApart
        <4> QED
          BY <2>5, <4>2, <4>3
      <3>2. a[1] \in Tags /\ a \in BitsOfTag(a[1])
        BY <2>4 DEF BitsOfTag
      <3>3. Bit(data', a) <=> Bit(data, a)
        BY <2>7, <3>1, <3>2
      <3> QED
        BY <3>3 DEF Bit
    <2> QED
      BY <1>2, <2>8 DEF Apart
  <1> QED
    BY <1>3, <1>4

\* The invariant of the bits: a byte that is about to be stored is as the buffer has it.
ApartInv == ControlInv /\ \A s \in Session : ApartOK(s)

\* It holds at first ...
LEMMA ApartInit ==
  ASSUME Init
  PROVE  ApartInv
  BY ControlInit DEF Init, ApartInv, ApartOK, Apart

\* ... and after every step.
LEMMA ApartStep ==
  ASSUME BytesApart, ApartInv, [Next]_vars
  PROVE  ApartInv'
  <1>1. ControlInv'
    BY ControlStep DEF ApartInv
  <1>2. CASE UNCHANGED vars
    <2>1. ASSUME NEW s \in Session PROVE ApartOK(s)'
      BY <1>2, Zenon DEF vars, ApartInv, ApartOK
    <2> QED
      BY <1>1, <2>1 DEF ApartInv
  <1>3. ASSUME NEW s \in Session, Ask(s) \/ Take(s) \/ Serve(s) PROVE ApartInv'
    <2>1. ApartOK(s)'
      BY <1>3, ApartOwn DEF ApartInv
    <2>2. ASSUME NEW c \in Session \ {s} PROVE ApartOK(c)'
      BY <1>3, ApartOther DEF ApartInv
    <2> QED
      BY <1>1, <2>1, <2>2 DEF ApartInv
  <1> QED
    BY <1>2, <1>3 DEF Next

\* What a step changes is part of the transfer of the session that takes it.
LEMMA StepChanges ==
  ASSUME ApartInv, NEW s \in Session, Ask(s) \/ Take(s) \/ Serve(s), data' # data
  PROVE  /\ pc'[s] # pc[s] \/ todo'[s] # todo[s]
         /\ \E x \in Transfers : transfer[s] = {x} /\ Changed(data, data') \subseteq x.own
  <1>1. PICK x \in Transfers :
          /\ transfer[s] = {x}
          /\ \A a : a[1] \in Tags /\ a \in BitsOfTag(a[1]) /\ a \notin x.own =>
               (Bit(data', a) <=> Bit(data, a))
    BY StepOwn DEF ApartInv
  <1>2. ASSUME NEW a \in Changed(data, data') PROVE a \in x.own
    BY <1>1, BitChanged
  <1> QED
    BY <1>1, <1>2, StepOwn DEF ApartInv

\* Where every byte that is stored whole is one writer's, a step of a session changes no bit
\* outside those that its transfer addresses (the copies of tag.hpp's get_data and set_data, and
\* atomic_set_bit).
THEOREM OnlyAddressedHolds ==
  ASSUME BytesApart
  PROVE  Spec => OnlyAddressed
  <1> DEFINE Moving == {c \in Session : pc[c] # pc'[c] \/ todo[c] # todo'[c]}
             Addressed == Changed(data, data') \subseteq
                         UNION {x.own : x \in UNION {transfer[s] : s \in Moving}}
  <1>1. Init => ApartInv
    BY ApartInit
  <1>2. ApartInv /\ [Next]_vars => ApartInv'
    BY ApartStep
  <1>3. ApartInv /\ [Next]_vars => [Addressed]_data
    <2> SUFFICES ASSUME ApartInv, [Next]_vars, data' # data PROVE Addressed
      OBVIOUS
    <2>1. PICK s \in Session : Ask(s) \/ Take(s) \/ Serve(s)
      BY DEF vars, Next
    <2>2. s \in Moving
      BY <2>1, StepChanges
    <2>3. PICK x \in Transfers : transfer[s] = {x} /\ Changed(data, data') \subseteq x.own
      BY <2>1, StepChanges
    <2> QED
      BY <2>2, <2>3
  <1> QED
    BY <1>1, <1>2, <1>3, PTL DEF Spec, OnlyAddressed

\* Where every byte that is stored whole is one writer's, setting a bit changes no other: writers
\* of different bits of one byte do not undo each other (tag.hpp, atomic_set_bit).
THEOREM BitsIndependentHolds ==
  ASSUME BytesApart
  PROVE  Spec => BitsIndependent
  <1> DEFINE Alone == \A s \in Session : \A x \in transfer[s] :
                        plan[s].do = "bit" /\ pc[s] \in {"setBit", "storeByte"} /\ pc'[s] = "reply" =>
                          Changed(data, data') \subseteq x.own
  <1>1. Init => ApartInv
    BY ApartInit
  <1>2. ApartInv /\ [Next]_vars => ApartInv'
    BY ApartStep
  <1>3. ApartInv /\ [Next]_vars => [Alone]_data
    <2> SUFFICES ASSUME ApartInv, [Next]_vars, data' # data,
                        NEW c \in Session, NEW y \in transfer[c],
                        pc[c] \in {"setBit", "storeByte"}, pc'[c] = "reply"
                 PROVE  Changed(data, data') \subseteq y.own
      OBVIOUS
    <2>1. PICK s \in Session : Ask(s) \/ Take(s) \/ Serve(s)
      BY DEF vars, Next
    <2>2. Kept(s)
      BY <2>1, StepKept DEF ApartInv, ControlInv
    <2>3. c = s
      BY <2>2 DEF Kept, ApartInv, ControlInv, Rows
    <2>4. PICK x \in Transfers : transfer[s] = {x} /\ Changed(data, data') \subseteq x.own
      BY <2>1, StepChanges
    <2> QED
      BY <2>3, <2>4
  <1> QED
    BY <1>1, <1>2, <1>3, PTL DEF Spec, BitsIndependent
=============================================================================
