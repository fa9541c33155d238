------------------------------ MODULE TagMemory ------------------------------
(***************************************************************************)
(* Tags written and read by several sessions at once.  Each session is one *)
(* client and the server thread that reads its connection; a client has    *)
(* one request outstanding.  A tag's buffer has no lock (tag.hpp): a       *)
(* memcpy moves it word by word in an order of its own, so transfers of    *)
(* two sessions interleave; only a bit is set in one atomic step, and only *)
(* where a whole word of the buffer holds it.                              *)
(*                                                                         *)
(* A client sends a whole transfer: one request; a fragmented one          *)
(* continued at the offset reached, until a reply is not "partial"; the    *)
(* definition of a template likewise; or a Multiple Service Packet, whose  *)
(* requests after the first are rest.  A transfer also says what it is     *)
(* about: own, the bits that its paths and counts address by the layout of *)
(* the tags, as <<tag, byte, bit>>; want, those of them a write sets;      *)
(* expect, the offsets a read is to return; and legal, for each request.   *)
(* Described says when a transfer says so of itself truly.                 *)
(***************************************************************************)
EXTENDS TagServices, FiniteSets

CONSTANTS
  Session,
  Transfers,     \* the transfers a client may ask for
  WordBytes,     \* 4: the word atomic_set_bit works on
  ChunkBytes,    \* data a client puts in one Write Tag Fragmented
  LaterStrip     \* bytes the client takes for the header of a later fragment of a structure

Bits   == 0..(ByteBits - 1)
Byte   == SUBSET Bits
Tags   == DOMAIN Shape
Marker == -1     \* a header byte taken for data

ASSUME MemoryAssumption ==
  /\ ByteBits \in Nat \ {0} /\ WordBytes \in Nat \ {0}
  /\ ChunkBytes \in Nat \ {0} /\ LaterStrip \in Nat
  /\ StructPrefix \in Nat /\ AtomicPrefix \in Nat /\ MaxReplyData \in Nat
  /\ MaxReplyData > StructPrefix /\ MaxReplyData > AtomicPrefix
  /\ \A t \in Tags : Shape[t].size \in Nat

VARIABLES
  data,      \* the buffers
  transfer,  \* what a client does, {} before it chose
  request,   \* its request now
  pc,        \* where the session is
  plan,      \* the handler's decision
  todo,      \* words its memcpy still has to move
  buffer,    \* the handler's copy: offset -> byte
  answers,   \* of the requests of its packet served before this one
  got,       \* the client's copy of a read: the offset each byte came from
  clean      \* no other session changed a bit of the transfer's since it began

vars == <<data, transfer, request, pc, plan, todo, buffer, answers, got, clean>>

PCs == {"idle", "asked", "copyOut", "copyIn", "setBit", "storeByte", "next", "reply", "done"}

WordOf(i)       == i \div WordBytes
Bytes(at, len)  == at .. (at + len - 1)
Words(at, len)  == {WordOf(i) : i \in Bytes(at, len)}

\* The bits of a tag, and those that differ between two states of the buffers.
BitsOfTag(t) == {t} \X (0..(Shape[t].size - 1)) \X Bits

Changed(before, after) ==
  {a \in UNION {BitsOfTag(t) : t \in {u \in Tags : before[u] # after[u]}} :
     (a[3] \in before[a[1]][a[2]]) # (a[3] \in after[a[1]][a[2]])}

\* clean after a step of session s that leaves the buffers as after.
StillClean(s, after) ==
  [c \in Session |-> clean[c] /\
     (c = s \/ transfer[c] = {} \/
      \A x \in transfer[c] : Changed(data, after) \cap x.own = {})]

Init ==
  /\ data = [t \in Tags |-> [i \in 0..(Shape[t].size - 1) |-> {}]]
  /\ transfer = [s \in Session |-> {}]
  /\ request = [s \in Session |-> <<>>]
  /\ pc = [s \in Session |-> "idle"]
  /\ plan = [s \in Session |-> Refuse("none")]
  /\ todo = [s \in Session |-> {}]
  /\ buffer = [s \in Session |-> <<>>]
  /\ answers = [s \in Session |-> <<>>]
  /\ got = [s \in Session |-> <<>>]
  /\ clean = [s \in Session |-> TRUE]

---------------------------------------------------------------------------
\* The client.

\* The data of a fragmented write from an offset on.
ChunkFrom(bytes, offset) ==
  SubSeq(bytes, offset + 1, Smaller(Len(bytes), offset + ChunkBytes))

\* read_template: the size to ask for, from the attributes of the template.
AskedSize(r) == ReadSize(Layout[r.tag].words)

\* What goes out first for a request: the first of the data, or the size to ask for.
First(r) ==
  CASE r.service = "WriteTagFragmented" -> [r EXCEPT !.bytes = ChunkFrom(r.bytes, 0)]
    [] r.by = "template"                -> [r EXCEPT !.count = AskedSize(r)]
    [] OTHER                            -> r

Ask(s) ==
  /\ pc[s] = "idle"
  /\ \E x \in Transfers :
       /\ transfer' = [transfer EXCEPT ![s] = {x}]
       /\ request' = [request EXCEPT ![s] = First(x.request)]
  /\ pc' = [pc EXCEPT ![s] = "asked"]
  /\ UNCHANGED <<data, plan, todo, buffer, answers, got, clean>>

\* The offsets of the bytes of a reply, header first.
ReplyItems(p) ==
  [i \in 1..(Prefix(p.type) + p.len) |->
     IF i <= Prefix(p.type) THEN Marker ELSE p.at + (i - Prefix(p.type) - 1)]

\* read_struct_bytes: the header the client skips.
Strip(s) == IF ~IsStruct(plan[s].type) THEN AtomicPrefix
            ELSE IF got[s] = <<>> THEN StructPrefix ELSE LaterStrip

Finish(s) == pc' = [pc EXCEPT ![s] = "done"] /\ UNCHANGED request

\* Mutant: each fragment replaces what came before, and the offset with it.
TakeReadRestarts(s) ==
  LET items == ReplyItems(plan[s])
      all   == SubSeq(items, Strip(s) + 1, Len(items))
  IN /\ got' = [got EXCEPT ![s] = all]
     /\ IF request[s].service = "ReadTagFragmented" /\ plan[s].status = "partial"
        THEN /\ request' = [request EXCEPT ![s].offset = Len(all)]
             /\ pc' = [pc EXCEPT ![s] = "asked"]
        ELSE Finish(s)

TakeRead(s) ==
  LET items == ReplyItems(plan[s])
      all   == got[s] \o SubSeq(items, Strip(s) + 1, Len(items))
  IN /\ got' = [got EXCEPT ![s] = all]
     /\ IF /\ request[s].service = "ReadTagFragmented"
           /\ plan[s].status = "partial"
           /\ Len(items) > Strip(s)
        THEN /\ request' = [request EXCEPT ![s].offset = Len(all)]
             /\ pc' = [pc EXCEPT ![s] = "asked"]
        ELSE Finish(s)

\* A client other than the repository's: TagClient has no fragmented write.
TakeWrite(s) ==
  LET whole == (CHOOSE x \in transfer[s] : TRUE).request.bytes
      next  == request[s].offset + Len(request[s].bytes)
  IN /\ UNCHANGED got
     /\ IF request[s].service = "WriteTagFragmented" /\ next < Len(whole)
        THEN /\ request' = [request EXCEPT ![s].offset = next,
                                           ![s].bytes = ChunkFrom(whole, next)]
             /\ pc' = [pc EXCEPT ![s] = "asked"]
        ELSE Finish(s)

\* read_template goes on until it has the size it asked for or the reply says so.
TakeDefinition(s) ==
  LET all  == got[s] \o [i \in 1..plan[s].len |-> plan[s].at + i - 1]
      left == AskedSize(request[s]) - Len(all)
  IN /\ got' = [got EXCEPT ![s] = all]
     /\ IF plan[s].status = "partial" /\ left > 0
        THEN /\ request' = [request EXCEPT ![s].offset = Len(all), ![s].count = left]
             /\ pc' = [pc EXCEPT ![s] = "asked"]
        ELSE Finish(s)

\* What a packet keeps of the answer to one of its requests.
Answer(p) == [served |-> p.do # "nothing", wrote |-> p.do \in {"write", "bit"},
              items  |-> IF p.do = "read" THEN ReplyItems(p) ELSE <<>>]

AllAnswers(s) == Append(answers[s], Answer(plan[s]))

\* read_multiple and write_multiple: the bodies of the answers that are no error, in
\* the order of the requests, each with its header.
Gather(items, a) == items \o a.items

TakePacket(s) ==
  /\ got' = [got EXCEPT ![s] = FoldLeft(Gather, <<>>, AllAnswers(s))]
  /\ Finish(s)

Rest(s) == UNION {{x.rest[i] : i \in {Len(answers[s]) + 1} \cap DOMAIN x.rest} :
                    x \in transfer[s]}
InPacket(s) == \E x \in transfer[s] : x.rest # <<>>

\* A refusal ends the transfer, but that of one request of a packet.
Take(s) ==
  /\ pc[s] = "reply"
  /\ IF InPacket(s) THEN TakePacket(s)
     ELSE CASE plan[s].do = "nothing"    -> Finish(s) /\ UNCHANGED got
            [] plan[s].do = "read"       -> TakeRead(s)
            [] plan[s].do = "definition" -> TakeDefinition(s)
            [] OTHER                     -> TakeWrite(s)
  /\ UNCHANGED <<data, transfer, plan, todo, buffer, answers, clean>>

---------------------------------------------------------------------------
\* The server's thread.

\* What the walker finds depends on the path and the layout alone.
Named  == {r \in UNION {{x.request} \cup Range(x.rest) : x \in Transfers} : r.by = "name"}
Walked == [p \in {<<r.tag, r.segments>> : r \in Named} |-> Walk(p[1], p[2])]

WalkedTo(r) == IF r.by = "name" THEN Walked[<<r.tag, r.segments>>] ELSE Failed

\* A request is served: the packet goes on with the next, or the reply is sent.
ServedPC(s) == IF Rest(s) # {} THEN "next" ELSE "reply"

NextInPacket(s) ==
  /\ pc[s] = "next"
  /\ \E r \in Rest(s) : request' = [request EXCEPT ![s] = r]
  /\ answers' = [answers EXCEPT ![s] = AllAnswers(s)]
  /\ pc' = [pc EXCEPT ![s] = "asked"]
  /\ UNCHANGED <<data, transfer, plan, todo, buffer, got, clean>>

Handle(s) ==
  /\ pc[s] = "asked"
  /\ \E p \in {Dispatch(request[s], WalkedTo(request[s]))} :
       /\ plan' = [plan EXCEPT ![s] = p]
       /\ pc' = [pc EXCEPT ![s] = CASE p.do \in {"read", "modify"} -> "copyOut"
                                    [] p.do = "write"   -> "copyIn"
                                    [] p.do = "bit"     -> "setBit"
                                    [] p.do \in {"nothing", "definition"} -> ServedPC(s)]
       /\ todo' = [todo EXCEPT ![s] = IF p.do = "definition" THEN {} ELSE Words(p.at, p.len)]
       /\ buffer' = [buffer EXCEPT ![s] =
            IF p.do = "write" THEN [i \in Bytes(p.at, p.len) |-> p.bytes[i - p.at + 1]]
            ELSE <<>>]
  /\ UNCHANGED <<data, transfer, request, answers, got, clean>>

\* get_data and the copy from it.
CopyOut(s) ==
  /\ pc[s] = "copyOut"
  /\ \E w \in todo[s] :
       LET here == {i \in Bytes(plan[s].at, plan[s].len) : WordOf(i) = w}
       IN buffer' = [buffer EXCEPT ![s] =
            [i \in DOMAIN @ \cup here |->
               IF i \in here THEN data[request[s].tag][i] ELSE @[i]]]
          /\ todo' = [todo EXCEPT ![s] = @ \ {w}]
  /\ UNCHANGED <<data, transfer, request, pc, plan, answers, got, clean>>

\* The copy is complete: it is the reply, or is written back under the masks.
CopiedOut(s) ==
  /\ pc[s] = "copyOut" /\ todo[s] = {}
  /\ IF plan[s].do = "modify"
     THEN /\ pc' = [pc EXCEPT ![s] = "copyIn"]
          /\ todo' = [todo EXCEPT ![s] = Words(plan[s].at, plan[s].len)]
          /\ buffer' = [buffer EXCEPT ![s] = [i \in DOMAIN @ |->
               (@[i] \cup request[s].bytes[i + 1]) \cap request[s].keep[i + 1]]]
     ELSE /\ pc' = [pc EXCEPT ![s] = ServedPC(s)]
          /\ UNCHANGED <<todo, buffer>>
  /\ UNCHANGED <<data, transfer, request, plan, answers, got, clean>>

\* set_data.
CopyIn(s) ==
  /\ pc[s] = "copyIn"
  /\ \E w \in todo[s] :
       LET after == [data EXCEPT ![request[s].tag] = [i \in DOMAIN @ |->
                       IF i \in DOMAIN buffer[s] /\ WordOf(i) = w
                       THEN buffer[s][i] ELSE @[i]]]
       IN /\ data' = after
          /\ clean' = StillClean(s, after)
          /\ todo' = [todo EXCEPT ![s] = @ \ {w}]
  /\ UNCHANGED <<transfer, request, pc, plan, buffer, answers, got>>

CopiedIn(s) ==
  /\ pc[s] = "copyIn" /\ todo[s] = {}
  /\ pc' = [pc EXCEPT ![s] = ServedPC(s)]
  /\ UNCHANGED <<data, transfer, request, plan, todo, buffer, answers, got, clean>>

\* Mutant: the bits of a byte are counted from one.
WithBitFromOne(s, byte) ==
  IF 0 \in plan[s].bytes[1] THEN byte \cup {plan[s].bit + 1} ELSE byte \ {plan[s].bit}

\* A byte with the plan's bit as the request has it.
WithBit(s, byte) ==
  IF 0 \in plan[s].bytes[1] THEN byte \cup {plan[s].bit} ELSE byte \ {plan[s].bit}

\* Mutant: the bit is always set by loading and storing the byte.
NeverWholeWord(s) == FALSE

\* The word that holds the byte lies inside the buffer.
WholeWord(s) ==
  (WordOf(plan[s].at) + 1) * WordBytes <= Shape[request[s].tag].size

PutByte(s, byte) ==
  LET after == [data EXCEPT ![request[s].tag][plan[s].at] = byte]
  IN /\ data' = after
     /\ clean' = StillClean(s, after)
     /\ pc' = [pc EXCEPT ![s] = ServedPC(s)]
     /\ UNCHANGED buffer

\* atomic_set_bit: one step on the word, else the byte is loaded ...
SetBit(s) ==
  /\ pc[s] = "setBit"
  /\ LET byte == data[request[s].tag][plan[s].at]
     IN IF WholeWord(s) THEN PutByte(s, WithBit(s, byte))
        ELSE /\ buffer' = [buffer EXCEPT ![s] = [i \in {plan[s].at} |-> WithBit(s, byte)]]
             /\ pc' = [pc EXCEPT ![s] = "storeByte"]
             /\ UNCHANGED <<data, clean>>
  /\ UNCHANGED <<transfer, request, plan, todo, answers, got>>

\* ... and stored.
StoreByte(s) ==
  /\ pc[s] = "storeByte"
  /\ PutByte(s, buffer[s][plan[s].at])
  /\ UNCHANGED <<transfer, request, plan, todo, answers, got>>

Serve(s) == Handle(s) \/ CopyOut(s) \/ CopiedOut(s) \/ CopyIn(s) \/ CopiedIn(s)
            \/ SetBit(s) \/ StoreByte(s) \/ NextInPacket(s)

Next == \E s \in Session : Ask(s) \/ Take(s) \/ Serve(s)

\* The server's threads run and a client takes the reply it waits for.
Fairness == \A s \in Session : WF_vars(Serve(s)) /\ WF_vars(Take(s))

Spec == Init /\ [][Next]_vars /\ Fairness

---------------------------------------------------------------------------
\* What the transfers say of themselves: from the paths and the counts of a transfer as a
\* whole, however it will be cut into fragments, and not from what the services decide.

Request ==
  [service : STRING, tag : Tags \cup DOMAIN Layout, by : {"name", "instance", "template"},
   segments : Seq([kind : {"symbolic", "element"}, name : STRING, index : Nat]), elem : Nat,
   cut : BOOLEAN, count : Nat, offset : Nat, type : STRING, bytes : Seq(Byte), keep : Seq(Byte)]

\* Where a request leads: to what its path names, or to an element of a tag.
PlaceOf(r) ==
  IF r.by = "name" /\ r.segments # <<>> THEN WalkedTo(r)
  ELSE [Root(r.tag) EXCEPT
         !.offset = (IF r.by = "instance" THEN r.elem ELSE 0) * Shape[r.tag].elementSize]

IsBit(r) == PlaceOf(r).bit # NoBit
Total(r) == r.count * PlaceOf(r).elementSize
Fits(r, from, len) == PlaceOf(r).offset + from + len <= Shape[r.tag].size

LawfulRead(r) ==
  IF IsBit(r) THEN r.count = 1
  ELSE Fits(r, 0, Total(r)) /\ (r.service = "ReadTagFragmented" => Total(r) > 0)

LawfulWrite(r) ==
  /\ r.type = PlaceOf(r).type
  /\ IF IsBit(r)
     THEN r.count = 1 /\ r.bytes # <<>> /\ (r.service = "WriteTag" \/ r.offset = 0)
     ELSE IF r.service = "WriteTag"
     THEN /\ Fits(r, 0, Total(r))
          /\ \/ Len(r.bytes) >= Total(r)
             \/ (r.by = "name" => r.segments = <<>>) /\ IsShortWrite(r, Total(r))
     ELSE r.offset + Len(r.bytes) <= Total(r) /\ Fits(r, r.offset, Len(r.bytes))

Reading == {"ReadTag", "ReadTagFragmented"}
Writing == {"WriteTag", "WriteTagFragmented"}

Lawful(r) ==
  /\ ~r.cut
  /\ \/ r.by = "template"
     \/ /\ PlaceOf(r).ok
        /\ \/ r.service \in Reading /\ LawfulRead(r)
           \/ r.service \in Writing /\ LawfulWrite(r)
           \/ /\ r.service = "ReadModifyWrite"
              /\ Len(r.bytes) \in {1, 2, 4, 8, 12} /\ Len(r.keep) >= Len(r.bytes)

\* The bits that a request may change, and whether it sets one of them.
From(r) == IF r.service = "ReadModifyWrite" THEN 0
           ELSE PlaceOf(r).offset + (IF r.service = "WriteTag" THEN 0 ELSE r.offset)

Width(r) == CASE r.service = "WriteTag" -> Total(r)
              [] r.service = "ReadModifyWrite" -> Smaller(Len(r.bytes), Shape[r.tag].size)
              [] OTHER -> Len(r.bytes)

Written(r) ==
  IF ~Lawful(r) \/ r.service \notin Writing \cup {"ReadModifyWrite"} THEN {}
  ELSE IF r.service \in Writing /\ IsBit(r) THEN {<<r.tag, PlaceOf(r).offset, PlaceOf(r).bit>>}
  ELSE {r.tag} \X Bytes(From(r), Width(r)) \X Bits

Sets(r, a) ==
  IF IsBit(r) THEN 0 \in r.bytes[1]
  ELSE a[2] - From(r) < Len(r.bytes) /\ a[3] \in r.bytes[a[2] - From(r) + 1]

\* What a packet returns for one of its requests.
Returned(r) ==
  IF ~Lawful(r) \/ r.service \notin Reading THEN <<>>
  ELSE LET len == IF IsBit(r) THEN 1 ELSE Total(r)
       IN ReplyItems(Plan("read", "ok", PlaceOf(r).offset,
                          Smaller(len, MaxReplyData - Prefix(PlaceOf(r).type)), PlaceOf(r).type))

Requests(x) == <<x.request>> \o x.rest

\* One request, whole or in fragments.
DescribedSingle(x) ==
  LET r == x.request
  IN /\ r.service = "WriteTagFragmented" =>
          \/ Len(r.bytes) <= ChunkBytes
          \/ r.offset = 0 /\ ~IsBit(r) /\ Lawful(r)
     /\ r.service # "WriteTagFragmented" => r.offset = 0
     /\ r.by = "template" =>
          x.expect = [i \in 1..Layout[r.tag].definition |-> i - 1]
     /\ r.by # "template" /\ Lawful(r) /\ r.service \in Reading =>
          x.expect = [i \in 1..(IF IsBit(r) THEN 1 ELSE Total(r)) |->
                        PlaceOf(r).offset + i - 1]

\* A packet: expect can be cut into what is returned for each of its requests.
DescribedPacket(x) ==
  /\ \A r \in Range(Requests(x)) : r.by # "template" /\ r.service \in {"ReadTag", "WriteTag"}
  /\ \E at \in [0..Len(Requests(x)) -> 0..Len(x.expect)] :
       /\ at[0] = 0 /\ at[Len(Requests(x))] = Len(x.expect)
       /\ \A i \in DOMAIN Requests(x) :
            /\ at[i - 1] <= at[i]
            /\ SubSeq(x.expect, at[i - 1] + 1, at[i]) = Returned(Requests(x)[i])

Described(x) ==
  /\ x.request \in Request /\ x.rest \in Seq(Request) /\ x.expect \in Seq(Int)
  /\ \A r \in Range(Requests(x)) :
       IF r.by = "template" THEN r.tag \in DOMAIN Layout /\ r.service = "TemplateRead"
       ELSE r.tag \in Tags
  /\ x.legal = [i \in DOMAIN Requests(x) |-> Lawful(Requests(x)[i])]
  /\ x.own = UNION {Written(r) : r \in Range(Requests(x))}
  /\ x.request.service # "ReadModifyWrite" =>
       x.want = {a \in x.own : \E i \in DOMAIN Requests(x) :
                   /\ a \in Written(Requests(x)[i]) /\ Sets(Requests(x)[i], a)
                   /\ \A j \in DOMAIN Requests(x) : j > i => a \notin Written(Requests(x)[j])}
  /\ IF x.rest = <<>> THEN DescribedSingle(x) ELSE DescribedPacket(x)

ASSUME TransfersAssumption == \A x \in Transfers : Described(x)

\* The client knows the header of every reply: it takes the same off every fragment of a
\* structure, or reads no structure in more than one.
HeadersKnown ==
  \/ LaterStrip = StructPrefix
  \/ \A x \in Transfers :
       LET q == x.request
       IN x.rest = <<>> /\ q.service = "ReadTagFragmented" /\ q.by # "template"
          /\ IsStruct(PlaceOf(q).type) => Total(q) <= MaxReplyData - StructPrefix

\* A bit of a byte that no whole word of the buffer holds: it is stored with its byte.
StoredWithByte(r, at) == ~((WordOf(at) + 1) * WordBytes <= Shape[r.tag].size)

\* No transfer has another bit of a byte that is stored whole.
BytesApart ==
  \A x, y \in Transfers : \A i \in DOMAIN Requests(x) : \A a \in y.own :
    LET q == Requests(x)[i]
    IN q.service \in Writing /\ Lawful(q) /\ IsBit(q) /\ StoredWithByte(q, PlaceOf(q).offset)
       /\ a[1] = q.tag /\ a[2] = PlaceOf(q).offset
         => a[3] = PlaceOf(q).bit

---------------------------------------------------------------------------
\* Properties.

TypeOK ==
  /\ \A t \in Tags : data[t] \in [0..(Shape[t].size - 1) -> Byte]
  /\ transfer \in [Session -> {{}} \cup {{x} : x \in Transfers}]
  /\ pc \in [Session -> PCs]
  /\ \A s \in Session : todo[s] \subseteq Words(plan[s].at, plan[s].len)
  /\ \A s \in Session : \A i \in DOMAIN buffer[s] : buffer[s][i] \in Byte
  /\ clean \in [Session -> BOOLEAN]

Done(s) == pc[s] = "done"

\* A client that reads to the end has the bytes its path and count address, each
\* once and in order, however many fragments it took and whether the path went
\* through the walker (a byte offset) or an instance and an element (an index); it
\* has the whole definition of a template, whose size the server and the client
\* compute apart; and of a packet the answers to the requests that were served,
\* in their order, whatever became of the others.
ReadsTile ==
  \A s \in Session : \A x \in transfer[s] :
    /\ Done(s)
    /\ \/ InPacket(s) \/ plan[s].do = "definition"
       \/ plan[s].do = "read" /\ plan[s].status = "ok"
    => got[s] = x.expect

\* A request whose path and range lie in the tag, with the right type, is served; any
\* other one is refused; in a packet each on its own.
ServedIffLegal ==
  \A s \in Session : \A x \in transfer[s] :
    Done(s) => x.legal = [i \in DOMAIN AllAnswers(s) |-> AllAnswers(s)[i].served]

\* A write that no other session disturbed is in the buffer when the client has its
\* last reply: all its fragments, the padding of a SHORT_STRING, the one bit, the
\* writes of a packet in their order.
WritesLand ==
  \A s \in Session : \A x \in transfer[s] :
    Done(s) /\ clean[s] /\ (\E a \in Range(AllAnswers(s)) : a.wrote) =>
      {a \in x.own : a[3] \in data[a[1]][a[2]]} = x.want

\* A step of a session changes no bit outside those its transfer addresses, nor any
\* at all for one that is refused: not a neighbour in the array, in the structure or
\* in the byte that hosts several BOOL members.
OnlyAddressed ==
  [][Changed(data, data') \subseteq
       UNION {x.own : x \in UNION {transfer[s] : s \in
                {c \in Session : pc[c] # pc'[c] \/ todo[c] # todo'[c]}}}]_data

\* Writers of different bits of one byte do not undo each other (tag.hpp, on
\* atomic_set_bit): setting a bit changes no other.
BitsIndependent ==
  [][\A s \in Session : \A x \in transfer[s] :
       plan[s].do = "bit" /\ pc[s] \in {"setBit", "storeByte"} /\ pc'[s] = "reply" =>
         Changed(data, data') \subseteq x.own]_data

\* Every transfer ends: each partial reply brings the client nearer its end.
TransfersEnd == \A s \in Session : (transfer[s] # {}) ~> Done(s)
==============================================================================
