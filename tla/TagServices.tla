----------------------------- MODULE TagServices -----------------------------
(***************************************************************************)
(* logix/tag_services.cpp: what each tag service decides from a request    *)
(* and the shape of the tag, before any byte of the tag moves.  The result *)
(* is a plan: refuse with a status, or read, write, modify or set one bit  *)
(* at a place in the buffer.  The bytes move in TagMemory.                 *)
(*                                                                         *)
(* A byte is the set of its bits that are 1.  A request is a record: the   *)
(* path (tag, by, segments, elem; by is name, instance or template, and    *)
(* for the last tag is the template), the service, and the fields of its   *)
(* data (cut says that the data ends before its fixed header).  The products of *)
(* a count and an element size are taken to fit an int.                    *)
(***************************************************************************)
EXTENDS TagWalker, FiniteSetsExt

CONSTANTS
  MaxReplyData,              \* 480
  AtomicPrefix, StructPrefix \* 2 and 4: bytes ahead of the data in a reply

IsStruct(type) == type \in DOMAIN Layout
Prefix(type)   == IF IsStruct(type) THEN StructPrefix ELSE AtomicPrefix
Smaller(a, b)  == IF a <= b THEN a ELSE b

Plan(do, status, at, len, type) ==
  [do |-> do, status |-> status, at |-> at, len |-> len, type |-> type,
   bytes |-> <<>>, bit |-> NoBit]

Refuse(status) == Plan("nothing", status, 0, 0, "")

\* The early returns of a handler, in order: the first that applies.
Checked(returns, plan) ==
  LET hit == SelectInSeq(returns, LAMBDA r : r[1])
  IN IF hit = 0 THEN plan ELSE Refuse(returns[hit][2])

\* build_read_response: status 0x06 says that there is more.
Response(at, len, partial, type) ==
  Plan("read", IF partial THEN "partial" ELSE "ok", at, len, type)

\* The whole range if the reply can hold it, else as much as fits, with 0x06.
Whole(at, len, type) ==
  IF Prefix(type) + len > MaxReplyData
  THEN Response(at, MaxReplyData - Prefix(type), TRUE, type)
  ELSE Response(at, len, FALSE, type)

\* Mutant: the reply is cut to what fits, but says that nothing is left.
FragmentSaysLast(base, offset, total, size, type) ==
  LET remaining == Smaller(total - offset, size - (base + offset))
      chunk     == Smaller(remaining, MaxReplyData - Prefix(type))
  IN Response(base + offset, chunk, offset + chunk < remaining, type)

\* One fragment from offset on.
Fragment(base, offset, total, size, type) ==
  LET remaining == Smaller(total - offset, size - (base + offset))
      chunk     == Smaller(remaining, MaxReplyData - Prefix(type))
  IN Response(base + offset, chunk, offset + chunk < total, type)

Store(at, bytes) == [Plan("write", "ok", at, Len(bytes), "") EXCEPT !.bytes = bytes]

BitOf(w, do, bytes) == [Plan(do, "ok", w.offset, 1, "BOOL") EXCEPT !.bit = w.bit,
                                                                  !.bytes = bytes]

---------------------------------------------------------------------------
\* The services on a whole tag or on one of its elements.

ReadTag(r, elem) ==
  LET s   == Shape[r.tag]
      at  == elem * s.elementSize
      len == r.count * s.elementSize
  IN Checked(<< <<r.cut, "0x13">>, <<at + len > s.size, "2105">> >>,
             Whole(at, len, s.type))

\* The length byte of a SHORT_STRING as a number.
StringLength(byte) == MapThenSumSet(LAMBDA b : 2^b, byte)

\* A SHORT_STRING may be sent without its padding.
IsShortWrite(r, len) ==
  /\ Shape[r.tag].type = "SSTRING"
  /\ r.bytes # <<>>
  /\ Len(r.bytes) >= 1 + StringLength(r.bytes[1])
  /\ Len(r.bytes) < len

\* Mutant: the rest of the slot is not zeroed.
Unpadded(bytes, len) == [i \in 1..len |-> bytes[IF i <= Len(bytes) THEN i ELSE 1]]

Padded(bytes, len) == [i \in 1..len |-> IF i <= Len(bytes) THEN bytes[i] ELSE {}]

WriteTag(r, elem) ==
  LET s     == Shape[r.tag]
      at    == elem * s.elementSize
      len   == r.count * s.elementSize
      short == IsShortWrite(r, len)
  IN Checked(<< <<r.cut, "0x13">>,
                <<r.type # s.type, "2107">>,
                <<~short /\ Len(r.bytes) < len, "0x13">>,
                <<at + len > s.size, "2105">> >>,
             Store(at, IF short THEN Padded(r.bytes, len) ELSE SubSeq(r.bytes, 1, len)))

ReadTagFragmented(r, elem) ==
  LET s     == Shape[r.tag]
      base  == elem * s.elementSize
      total == r.count * s.elementSize
  IN Checked(<< <<r.cut, "0x13">>,
                <<r.offset >= total, "2105">>,
                <<base + r.offset >= s.size, "2105">> >>,
             Fragment(base, r.offset, total, s.size, s.type))

WriteTagFragmented(r, elem) ==
  LET s     == Shape[r.tag]
      at    == elem * s.elementSize + r.offset
      total == r.count * s.elementSize
  IN Checked(<< <<r.cut, "0x13">>,
                <<r.type # s.type, "2107">>,
                <<r.offset + Len(r.bytes) > total, "2104">>,
                <<at + Len(r.bytes) > s.size, "2105">> >>,
             Store(at, r.bytes))

\* The masks always apply from the first byte of the tag.
ReadModifyWrite(r) ==
  LET len == Len(r.bytes)
  IN Checked(<< <<r.cut, "0x13">>,
                <<len \notin {1, 2, 4, 8, 12}, "0x03">>,
                <<Len(r.keep) < len, "0x13">> >>,
             Plan("modify", "ok", 0, Smaller(len, Shape[r.tag].size), ""))

---------------------------------------------------------------------------
\* The same services on what the walker found.

ReadTagAt(r, w) ==
  LET len == r.count * w.elementSize
  IN IF w.bit # NoBit
     THEN Checked(<< <<r.cut, "0x13">>, <<r.count # 1, "2105">> >>,
                  BitOf(w, "read", <<>>))
     ELSE Checked(<< <<r.cut, "0x13">>,
                     <<w.offset + len > Shape[r.tag].size, "2105">> >>,
                  Whole(w.offset, len, w.type))

WriteTagAt(r, w) ==
  LET len == r.count * w.elementSize
  IN IF w.bit # NoBit
     THEN Checked(<< <<r.cut, "0x13">>, <<r.type # w.type, "2107">>,
                     <<r.count # 1 \/ r.bytes = <<>>, "0x13">> >>,
                  BitOf(w, "bit", r.bytes))
     ELSE Checked(<< <<r.cut, "0x13">>, <<r.type # w.type, "2107">>,
                     <<Len(r.bytes) < len, "0x13">>,
                     <<w.offset + len > Shape[r.tag].size, "2105">> >>,
                  Store(w.offset, SubSeq(r.bytes, 1, len)))

\* Mutant: the walker's byte offset used as an element index, as it once was.
ReadTagFragmentedAtElement(r, w) ==
  ReadTagFragmented(r, w.offset \div w.elementSize)

ReadTagFragmentedAt(r, w) ==
  LET size  == Shape[r.tag].size
      total == r.count * w.elementSize
  IN IF w.bit # NoBit
     THEN Checked(<< <<r.cut, "0x13">>, <<r.count # 1 \/ r.offset # 0, "2105">> >>,
                  BitOf(w, "read", <<>>))
     ELSE Checked(<< <<r.cut, "0x13">>,
                     <<r.offset >= total, "2105">>,
                     <<w.offset + r.offset >= size, "2105">> >>,
                  Fragment(w.offset, r.offset, total, size, w.type))

WriteTagFragmentedAt(r, w) ==
  LET total == r.count * w.elementSize
      at    == w.offset + r.offset
  IN IF w.bit # NoBit
     THEN Checked(<< <<r.cut, "0x13">>, <<r.type # w.type, "2107">>,
                     <<r.count # 1 \/ r.offset # 0 \/ r.bytes = <<>>, "0x13">> >>,
                  BitOf(w, "bit", r.bytes))
     ELSE Checked(<< <<r.cut, "0x13">>, <<r.type # w.type, "2107">>,
                     <<r.offset + Len(r.bytes) > total, "2104">>,
                     <<at + Len(r.bytes) > Shape[r.tag].size, "2105">> >>,
                  Store(at, r.bytes))

\* template_object.cpp: a part of a template's definition.
TemplateRead(r) ==
  LET full  == Layout[r.tag].definition
      chunk == Smaller(Smaller(full - r.offset, r.count), MaxTemplateChunk)
  IN Checked(<< <<r.cut, "0x13">>, <<r.offset >= full, "2105">> >>,
             Plan("definition", IF r.offset + chunk < full THEN "partial" ELSE "ok",
                  r.offset, chunk, ""))

---------------------------------------------------------------------------
\* logix_dispatcher.cpp: a path that names a tag goes through the walker; a path
\* with a Symbol Object instance and an element id does not.

DispatchTagService(r, elem) ==
  CASE r.service = "ReadTag"            -> ReadTag(r, elem)
    [] r.service = "WriteTag"           -> WriteTag(r, elem)
    [] r.service = "ReadTagFragmented"  -> ReadTagFragmented(r, elem)
    [] r.service = "WriteTagFragmented" -> WriteTagFragmented(r, elem)
    [] r.service = "ReadModifyWrite"    -> ReadModifyWrite(r)
    [] OTHER                            -> Refuse("0x08")

\* ReadModifyWrite is sent to the tag whatever member the path names.
DispatchViaWalker(r, w) ==
  IF r.segments = <<>> THEN DispatchTagService(r, 0)
  ELSE IF ~w.ok THEN Refuse("0x05")
  ELSE CASE r.service = "ReadTag"            -> ReadTagAt(r, w)
         [] r.service = "WriteTag"           -> WriteTagAt(r, w)
         [] r.service = "ReadTagFragmented"  -> ReadTagFragmentedAt(r, w)
         [] r.service = "WriteTagFragmented" -> WriteTagFragmentedAt(r, w)
         [] OTHER                            -> DispatchTagService(r, 0)

\* The plan for a request, w being what the walker found for its path.
Dispatch(r, w) == CASE r.by = "name"     -> DispatchViaWalker(r, w)
                    [] r.by = "instance" -> DispatchTagService(r, r.elem)
                    [] r.by = "template" -> TemplateRead(r)
==============================================================================
