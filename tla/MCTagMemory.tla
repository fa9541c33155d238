----------------------------- MODULE MCTagMemory -----------------------------
(***************************************************************************)
(* TagMemory for TLC: bytes of two bits, words of four bytes, replies that *)
(* hold 2 bytes of a structure or 4 of an atomic.                          *)
(***************************************************************************)
EXTENDS TagMemory

Declared(name, type, arraySize) == [name |-> name, type |-> type, arraySize |-> arraySize]

\* pair: two BOOLs in byte 0, c, then the array n.  frame: id, then a pair at 4.
MCTemplates ==
  <<[name |-> "pair", members |->
       <<Declared("run", "BOOL", 0), Declared("stop", "BOOL", 0),
         Declared("c", "SINT", 0), Declared("n", "SINT", 2)>>],
    [name |-> "frame", members |-> <<Declared("id", "SINT", 0), Declared("q", "pair", 0)>>],
    [name |-> "flags", members |->
       <<Declared("f0", "BOOL", 0), Declared("f1", "BOOL", 0), Declared("f2", "BOOL", 0),
         Declared("x", "SINT", 0), Declared("f3", "BOOL", 0), Declared("i", "INT", 0)>>]>>

MCAtomicSize == [SINT |-> 1, BOOL |-> 1, INT |-> 2, SSTRING |-> 3]
MCAlignment  == [SINT |-> 1, BOOL |-> 1, INT |-> 2]

TagOf(type, elementSize, dims, tpl, size) ==
  [type |-> type, elementSize |-> elementSize, dims |-> dims, tpl |-> tpl, size |-> size]

MCShape ==
  [f     |-> TagOf("frame", 8, <<>>, "frame", 8),
   pairs |-> TagOf("pair", 4, <<2>>, "pair", 8),
   fl    |-> TagOf("flags", 8, <<>>, "flags", 8),
   grid  |-> TagOf("SINT", 1, <<2, 3>>, NoTemplate, 6),
   bools |-> TagOf("BOOL", 1, <<8>>, NoTemplate, 4),
   odd   |-> TagOf("BOOL", 1, <<2>>, NoTemplate, 2),
   str   |-> TagOf("SSTRING", 3, <<2>>, NoTemplate, 6)]

R(service, tag, segments, count) ==
  [service |-> service, tag |-> tag, by |-> "name", segments |-> segments, elem |-> 0,
   cut |-> FALSE, count |-> count, offset |-> 0, type |-> "", bytes |-> <<>>, keep |-> <<>>]

Whole_(tag, start, len) == {<<tag, i, b>> : i \in start..(start + len - 1), b \in Bits}

T(r, start, len) == [request |-> r, rest |-> <<>>, legal |-> <<TRUE>>, own |-> {}, want |-> {},
                     expect |-> [i \in 1..len |-> start + i - 1]]
Bad(r) == [T(r, 0, 0) EXCEPT !.legal = <<FALSE>>]

\* A write of bytes, all of the tag's element type.
W(service, tag, segments, count, type, bytes, start, len) ==
  [T([R(service, tag, segments, count) EXCEPT !.type = type, !.bytes = bytes], 0, 0)
    EXCEPT !.own = Whole_(tag, start, len),
           !.want = {a \in Whole_(tag, start, len) :
                       a[2] - start + 1 \in DOMAIN bytes /\ a[3] \in bytes[a[2] - start + 1]}]

WBit(tag, segments, on, byte, bit) ==
  [T([R("WriteTag", tag, segments, 1) EXCEPT !.type = "BOOL",
        !.bytes = <<IF on THEN {0} ELSE {}>>], 0, 0)
    EXCEPT !.own = {<<tag, byte, bit>>}, !.want = IF on THEN {<<tag, byte, bit>>} ELSE {}]

\* read_template of a template.
Definition(tpl) ==
  T([R("TemplateRead", tpl, <<>>, 0) EXCEPT !.by = "template"], 0, Layout[tpl].definition)

\* A packet of transfers of one request each.
Packet(xs, legal, own, want, expect) ==
  [request |-> xs[1].request, rest |-> [i \in 1..(Len(xs) - 1) |-> xs[i + 1].request],
   legal |-> legal, own |-> own, want |-> want, expect |-> expect]

A == {0}     B == {1}     AB == {0, 1}

Reads ==
  {T(R("ReadTagFragmented", "f", <<>>, 1), 0, 8),
   T(R("ReadTagFragmented", "pairs", <<Index(1)>>, 1), 4, 4),
   T([R("ReadTagFragmented", "pairs", <<>>, 1) EXCEPT !.by = "instance", !.elem = 1], 4, 4),
   T([R("ReadTag", "grid", <<>>, 2) EXCEPT !.by = "instance", !.elem = 3], 3, 2),
   T(R("ReadTagFragmented", "f", <<Name("q"), Name("n"), Index(0)>>, 2), 6, 2),
   T(R("ReadTagFragmented", "grid", <<Index(0), Index(1)>>, 5), 1, 5),
   T(R("ReadTag", "pairs", <<Index(1), Name("stop")>>, 1), 4, 1),
   T(R("ReadTag", "grid", <<Index(1), Index(1)>>, 1), 4, 1),
   T(R("ReadTagFragmented", "bools", <<Index(5)>>, 1), 2, 1)}

Writes ==
  {W("WriteTag", "f", <<>>, 1, "frame", <<A, {}, {}, {}, B, AB, {}, A>>, 0, 8),
   W("WriteTag", "f", <<Name("q"), Name("n"), Index(1)>>, 1, "SINT", <<AB>>, 7, 1),
   W("WriteTagFragmented", "f", <<Name("q")>>, 1, "pair", <<AB, A, B, AB>>, 4, 4),
   [W("WriteTagFragmented", "pairs", <<>>, 1, "pair", <<A, B, A, B>>, 4, 4)
      EXCEPT !.request.by = "instance", !.request.elem = 1],
   W("WriteTagFragmented", "grid", <<>>, 6, "SINT", <<A, B, AB, A, B, AB>>, 0, 6),
   W("WriteTag", "str", <<>>, 1, "SSTRING", <<A, B>>, 0, 3),
   [W("WriteTag", "str", <<>>, 1, "SSTRING", <<A, AB>>, 3, 3)
      EXCEPT !.request.by = "instance", !.request.elem = 1],
   W("WriteTag", "str", <<>>, 2, "SSTRING", <<B, A, A, A, B, {}>>, 0, 6)}

BitWrites ==
  {WBit("pairs", <<Index(0), Name("run")>>, TRUE, 0, 0),
   WBit("pairs", <<Index(0), Name("stop")>>, TRUE, 0, 1),
   WBit("f", <<Name("q"), Name("stop")>>, FALSE, 4, 1),
   WBit("bools", <<Index(2)>>, TRUE, 1, 0), WBit("bools", <<Index(3)>>, TRUE, 1, 1),
   [WBit("bools", <<Index(6)>>, TRUE, 3, 0) EXCEPT !.request.service = "WriteTagFragmented"],
   WBit("odd", <<Index(0)>>, TRUE, 0, 0)}

Modifies ==
  {[T([R("ReadModifyWrite", "pairs", <<>>, 0) EXCEPT
         !.bytes = <<A, B>>, !.keep = <<AB, B>>], 0, 2) EXCEPT !.own = Whole_("pairs", 0, 2)],
   [T([R("ReadModifyWrite", "pairs", <<Index(1), Name("c")>>, 0) EXCEPT
         !.bytes = <<B>>, !.keep = <<B>>], 0, 1) EXCEPT !.own = Whole_("pairs", 0, 1)]}

Illegal ==
  {Bad(R("ReadTag", "f", <<Name("nope")>>, 1)),
   Bad(R("ReadTag", "grid", <<Index(1)>>, 1)),
   Bad(R("ReadTag", "grid", <<Index(1), Index(2)>>, 2)),
   Bad(R("ReadTagFragmented", "grid", <<>>, 7)),
   Bad(R("ReadTagFragmented", "pairs", <<Index(1)>>, 2)),
   Bad(R("ReadTag", "bools", <<Index(1)>>, 2)),
   Bad(R("ReadTag", "bools", <<>>, 8)),
   Bad(R("ReadTag", "pairs", <<Index(0), Name("run"), Name("c")>>, 1)),
   Bad(R("ReadTag", "pairs", <<Name("run")>>, 1)),
   Bad([R("ReadTag", "grid", <<>>, 1) EXCEPT !.cut = TRUE]),
   Bad([R("WriteTag", "grid", <<>>, 2) EXCEPT !.type = "SINT", !.bytes = <<A>>]),
   Bad([R("WriteTag", "grid", <<>>, 1) EXCEPT !.type = "SSTRING", !.bytes = <<A>>]),
   Bad([R("WriteTag", "grid", <<Index(1), Index(2)>>, 2) EXCEPT !.type = "SINT",
          !.bytes = <<A, A>>]),
   Bad([R("WriteTagFragmented", "grid", <<>>, 1) EXCEPT !.type = "SINT", !.bytes = <<A, A>>]),
   Bad([R("WriteTagFragmented", "pairs", <<Index(1)>>, 2) EXCEPT !.type = "pair",
          !.bytes = <<A, A, A>>, !.offset = 2]),
   Bad([R("ReadModifyWrite", "grid", <<>>, 0) EXCEPT !.bytes = <<A, A, A>>, !.keep = <<A, A, A>>]),
   Bad(R("GetAttributeAll", "grid", <<Index(0), Index(0)>>, 0))}

\* Two elements of an array of BOOL that is shorter than a word.
OddBits == {WBit("odd", <<Index(0)>>, TRUE, 0, 0), WBit("odd", <<Index(1)>>, TRUE, 0, 1)}

More ==
  {T(R("ReadTag", "fl", <<Name("i")>>, 1), 4, 2), T(R("ReadTag", "fl", <<Name("f3")>>, 1), 3, 1),
   WBit("fl", <<Name("f2")>>, TRUE, 1, 0)}

Packets ==
  LET count == W("WriteTag", "grid", <<>>, 2, "SINT", <<A, B>>, 0, 2)
      again == W("WriteTag", "grid", <<Index(0), Index(1)>>, 1, "SINT", <<AB>>, 1, 1)
      bit   == WBit("pairs", <<Index(0), Name("stop")>>, TRUE, 0, 1)
      wrong == Bad(R("ReadTag", "f", <<Name("nope")>>, 1))
      long  == T(R("ReadTag", "grid", <<>>, 2), 0, 2)
      short == T(R("ReadTag", "bools", <<Index(7)>>, 1), 3, 1)
  IN {Packet(<<wrong, short, long>>, <<FALSE, TRUE, TRUE>>, {}, {},
             <<Marker, Marker, 3, Marker, Marker, 0, 1>>),
      Packet(<<long, wrong, short>>, <<TRUE, FALSE, TRUE>>, {}, {},
             <<Marker, Marker, 0, 1, Marker, Marker, 3>>),
      Packet(<<count, wrong, bit, again>>, <<TRUE, FALSE, TRUE, TRUE>>,
             count.own \cup again.own \cup bit.own,
             (count.want \ again.own) \cup again.want \cup bit.want, <<>>)}

Definitions == {Definition("pair"), Definition("frame")}

AllTransfers == Reads \cup Writes \cup BitWrites \cup Modifies \cup Illegal
                  \cup More \cup Packets \cup Definitions

\* The hypotheses of TagMemory_proofs; StructFragments.cfg does without the first and
\* BitsLost.cfg without the second.
ASSUME HypothesesHold == Transfers = AllTransfers => HeadersKnown /\ BytesApart
==============================================================================
