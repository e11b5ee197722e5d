----------------------------- MODULE WireStream -----------------------------
(***************************************************************************)
(* One stream from end to end: its writer, and the readers of              *)
(* moqt-core/src/stream and web/src/stream.  Bytes arrive in pieces of any *)
(* size; a reader takes what it needs next and decodes when an item, a     *)
(* message, a header or an object, is complete.  What the relay reads and  *)
(* has to pass on, it writes to a second stream, which has a reader too.   *)
(*                                                                         *)
(* A stream of "Streams" is                                                *)
(*   writer    "native" (moqt-core), "browser", or "foreign": a peer that  *)
(*             uses more of the protocol than this repository's own code   *)
(*   kind      "request" (messages; the control stream and its SETUP as    *)
(*             well) or "data" (a header and objects)                      *)
(*   items     what is written                                             *)
(*   readers   of the first and, if the relay is the first, of the second  *)
(*             stream: "native" or "browser"                               *)
(***************************************************************************)
EXTENDS WebWire

CONSTANTS Streams, RelayRequestId

\* The integers of an item.
IntsOf(kind, item) ==
  IF kind = "request"
  THEN {item.fields[i] : i \in {k \in DOMAIN item.fields : Fields(item.type)[k] = "int"}}
  ELSE IF "alias" \in DOMAIN item THEN {item.alias, item.group} ELSE {item.delta}

\* The items are a sequence, and every integer of theirs is a u64 (the structs of
\* moqt-core/src/wire).
ASSUME StreamsAssumption == RelayRequestId \in U64 /\ \A s \in Streams :
  /\ s.items \in Seq({s.items[i] : i \in DOMAIN s.items})
  /\ \A i \in DOMAIN s.items : IntsOf(s.kind, s.items[i]) \subseteq U64

VARIABLES stream,    \* which one it is
          written,   \* how many of its items
          wire,      \* of each stream: bytes, how many arrived, and its end
          reader     \* of each stream: bytes used, parts of the item it is at, items read

vars == <<stream, written, wire, reader>>

Hops == DOMAIN stream.readers

\* parts are the fields read; part the first byte of an integer.
Reading == [state |-> "reading", used |-> 0, parts |-> <<>>, part |-> <<>>, out |-> <<>>]

Init ==
  /\ stream \in Streams
  /\ written = 0
  /\ wire = [h \in Hops |-> [bytes |-> <<>>, arrived |-> 0, end |-> "open"]]
  /\ reader = [h \in Hops |-> Reading]

-----------------------------------------------------------------------------
\* Writers

\* A peer of the draft: more parameters, and integers longer than they need be.
ForeignInt(u) == InBytes(u, 8)

ForeignParameterValue(p) ==
  CASE p.type = PARAM_SUBSCRIPTION_FILTER -> EncodeBytes(EncodeInts(p.value))
    [] p.type = PARAM_LARGEST_OBJECT -> EncodeInts(p.value)
    [] p.type \in {PARAM_FORWARD, 32, 34} -> p.value
    [] p.type = 3 -> EncodeBytes(p.value)
    [] OTHER -> ForeignInt(p.value)

ForeignHeaderType(h) == HeaderType(h) + IF h.firstObject THEN 2 ELSE 0

ForeignObject(properties, o) ==
  ForeignInt(o.delta) \o EncodeVarint(U(Len(o.payload)))
    \o (IF properties THEN EncodeBytes(o.properties) ELSE <<>>) \o o.payload

Encoding(item) ==
  CASE stream.kind = "request" ->
         (CASE stream.writer = "native" -> Encode(item)
            [] stream.writer = "browser" -> WebEncode(item)
            [] stream.writer = "foreign" -> EncodeWith(ForeignParameterValue, item))
    [] stream.kind = "data" /\ written = 0 ->
         EncodeSubgroupHeader(IF stream.writer = "foreign" THEN ForeignHeaderType(item)
                                                           ELSE HeaderType(item), item)
    [] OTHER -> IF stream.writer = "foreign"
                THEN ForeignObject(stream.items[1].properties, item) ELSE EncodeObject(item)

Refuses(item) == stream.writer = "native" /\ stream.kind = "request" /\ ~Encodable(item)

Complete == written = Len(stream.items)

Writing == wire[1].end = "open" /\ ~Complete

Sends(h, bytes) == wire' = [wire EXCEPT ![h].bytes = @ \o bytes]

WriteItem ==
  /\ Writing
  /\ ~Refuses(stream.items[written + 1])
  /\ Sends(1, Encoding(stream.items[written + 1]))
  /\ written' = written + 1
  /\ UNCHANGED <<stream, reader>>

\* encode fails, and the stream is dropped.
RefuseItem ==
  /\ Writing
  /\ Refuses(stream.items[written + 1])
  /\ wire' = [wire EXCEPT ![1].end = "fin"]
  /\ UNCHANGED <<stream, written, reader>>

\* Request streams stay open.
Finish ==
  /\ stream.kind = "data" /\ Complete
  /\ wire[1].end = "open"
  /\ wire' = [wire EXCEPT ![1].end = "fin"]
  /\ UNCHANGED <<stream, written, reader>>

-----------------------------------------------------------------------------
\* Transport

ArriveByte(h) ==
  /\ wire[h].arrived < Len(wire[h].bytes)
  /\ wire[h].end # "reset"
  /\ wire' = [wire EXCEPT ![h].arrived = @ + 1]
  /\ UNCHANGED <<stream, written, reader>>

\* A reset, or a lost connection: what has not arrived is lost.
BreakOff(h) ==
  /\ reader[h].state = "reading"
  /\ wire[h].end # "reset"
  /\ wire' = [wire EXCEPT ![h].end = "reset"]
  /\ UNCHANGED <<stream, written, reader>>

-----------------------------------------------------------------------------
\* Readers

\* What is read next: an integer, a number of bytes, or nothing.
AnInt == [what |-> "int", n |-> 0]

Bytes(n) == [what |-> "bytes", n |-> n]

Nothing == [what |-> "nothing", n |-> 0]

\* The integer that was read as part i, if it was.
Number(parts, i) == IF i \in DOMAIN parts THEN Num(DecodeVarint(parts[i]).value) ELSE 0

\* read_message_frame
FramePlan(parts) ==
  <<AnInt, Bytes(2), IF Len(parts) < 2 THEN Nothing ELSE Bytes(parts[2][1] * 256 + parts[2][2]),
    Nothing>>[Len(parts) + 1]

\* As a bug: the priority is not read.
HeaderPlanWithoutPriority(parts) ==
  LET plan == <<AnInt, AnInt, AnInt>>
                \o (IF HasSubgroup(Number(parts, 1)) THEN <<AnInt>> ELSE <<>>) \o <<Nothing>>
  IN plan[Len(parts) + 1]

\* read_subgroup_header
HeaderPlan(parts) ==
  LET type == Number(parts, 1)
      plan == <<AnInt, AnInt, AnInt>>
                \o (IF HasSubgroup(type) THEN <<AnInt>> ELSE <<>>)
                \o (IF HasPriority(type) THEN <<Bytes(1)>> ELSE <<>>) \o <<Nothing>>
  IN plan[Len(parts) + 1]

\* read_object: object id delta, length, properties if the header says so, payload
ObjectPlan(parts, properties) ==
  LET plan == <<AnInt, AnInt>>
                \o (IF properties THEN <<AnInt, Bytes(Number(parts, 3))>> ELSE <<>>)
                \o <<Bytes(Number(parts, 2)), Nothing>>
  IN plan[Len(parts) + 1]

Native(h) == stream.readers[h] = "native"

AtHeader(h) == stream.kind = "data" /\ reader[h].out = <<>>

AtObject(h) == stream.kind = "data" /\ reader[h].out # <<>>

\* As a bug: the native reader does not look at it either.
NoProperties(h) == FALSE

\* The browser does not look at the properties bit of the header.
HasProperties(h) == Native(h) /\ reader[h].out[1].properties

Plan(h, parts) ==
  IF AtHeader(h) THEN HeaderPlan(parts)
  ELSE IF AtObject(h) THEN ObjectPlan(parts, HasProperties(h))
  ELSE FramePlan(parts)

ByteLength(h, first) == IF Native(h) THEN VarintByteLength(first) ELSE WebVarintByteLength(first)

\* The next read_exact: the first byte of an integer, the rest of it, or bytes.
Need(h) ==
  IF reader[h].part # <<>> THEN ByteLength(h, reader[h].part[1]) - 1
  ELSE IF Plan(h, reader[h].parts).what = "int" THEN 1 ELSE Plan(h, reader[h].parts).n

\* As a bug: read instead of read_exact.
CanReadSome(h) ==
  /\ reader[h].state = "reading"
  /\ reader[h].used < wire[h].arrived

CanRead(h) ==
  /\ reader[h].state = "reading"
  /\ reader[h].used + Need(h) <= wire[h].arrived

\* The reader with n bytes more: the first byte of an integer is kept until the
\* rest is there.
WithBytes(h, r, n) ==
  LET got == r.part \o SubSeq(wire[h].bytes, r.used + 1, r.used + n)
      begins == Plan(h, r.parts).what = "int" /\ r.part = <<>> /\ ByteLength(h, got[1]) # 1
  IN [r EXCEPT !.used = @ + n,
               !.part = IF begins THEN got ELSE <<>>,
               !.parts = IF begins THEN @ ELSE Append(@, got)]

IsNoInt(h, r) == r.part # <<>> /\ ByteLength(h, r.part[1]) = 0

IsComplete(h, r) == r.part = <<>> /\ Plan(h, r.parts) = Nothing

\* delta, length, [length of the properties, properties,] payload
ObjectOf(h, parts) ==
  Parsed([delta |-> (IF Native(h) THEN DecodeVarint(parts[1]) ELSE WebDecodeVarint(parts[1])).value,
          properties |-> IF Len(parts) = 5 THEN parts[4] ELSE <<>>,
          payload |-> Last(parts)], <<>>)

\* The item whose last part was read.
Item(h, parts) ==
  CASE AtObject(h) -> ObjectOf(h, parts)
    [] AtHeader(h) /\ Native(h) -> DecodeSubgroupHeader(FlattenSeq(parts))
    [] AtHeader(h) /\ ~Native(h) -> WebDecodeSubgroupHeader(FlattenSeq(parts))
    [] stream.kind = "request" /\ Native(h) -> Decode(FlattenSeq(parts))
    [] OTHER -> WebDecode(FlattenSeq(parts))

\* The relay asks the publisher under an id of its own, with the parameters it
\* has decoded.
RelaySubscribe(m) == [m EXCEPT !.fields = <<RelayRequestId, U(0), @[3], @[4], @[5]>>]

\* What the relay writes to the second stream: objects as they came, everything
\* else encoded again.
PassedOn(item, parts) ==
  IF AtObject(1) THEN FlattenSeq(parts)
  ELSE IF AtHeader(1) THEN EncodeSubgroupHeader(HeaderType(item), item)
  ELSE Encode(IF item.type = MSG_SUBSCRIBE THEN RelaySubscribe(item) ELSE item)

PassesOn(h) == h = 1 /\ 2 \in Hops /\ wire[2].end = "open"

\* A reader that ends, well or not, drops its stream; the relay finishes the second.
Stops(h, r) ==
  /\ reader' = [reader EXCEPT ![h] = r]
  /\ wire' = IF PassesOn(h) THEN [wire EXCEPT ![2].end = "fin"] ELSE wire
  /\ UNCHANGED <<stream, written>>

\* read_exact returns, and the item is not complete.
ReadPart(h) ==
  /\ CanRead(h)
  /\ \E r \in {WithBytes(h, reader[h], Need(h))} :
       /\ ~IsNoInt(h, r) /\ ~IsComplete(h, r)
       /\ reader' = [reader EXCEPT ![h] = r]
  /\ UNCHANGED <<stream, written, wire>>

\* The reader after an item.  Of a request stream as many messages are read as
\* belong to the request.
WithItem(r, item) ==
  [Reading EXCEPT !.used = r.used, !.out = Append(r.out, item),
     !.state = IF stream.kind = "request" /\ Len(r.out) + 1 = Len(stream.items) THEN "end" ELSE "reading"]

ReadItem(h) ==
  /\ CanRead(h)
  /\ \E r \in {WithBytes(h, reader[h], Need(h))} :
       /\ IsComplete(h, r)
       /\ \E item \in {Item(h, r.parts)} :
            /\ item.ok
            /\ reader' = [reader EXCEPT ![h] = WithItem(r, item.value)]
            /\ IF PassesOn(h) THEN Sends(2, PassedOn(item.value, r.parts)) ELSE UNCHANGED wire
  /\ UNCHANGED <<stream, written>>

\* An integer of no form, or an item that does not decode.
ReadRubbish(h) ==
  /\ CanRead(h)
  /\ \E r \in {WithBytes(h, reader[h], Need(h))} :
       /\ IsNoInt(h, r) \/ (IsComplete(h, r) /\ ~Item(h, r.parts).ok)
       /\ Stops(h, [r EXCEPT !.state = "error"])

\* As a bug: what is still on the way is forgotten.
IsCutOffEarly(h) ==
  /\ reader[h].state = "reading"
  /\ wire[h].end # "open"
  /\ ~CanRead(h)

\* The stream is over before what is needed came.
IsCutOff(h) ==
  /\ reader[h].state = "reading"
  /\ \/ wire[h].end = "reset"
     \/ /\ wire[h].end = "fin"
        /\ wire[h].arrived = Len(wire[h].bytes)
        /\ ~CanRead(h)

\* read_object takes any failure to read the first integer of an object for the
\* end; in the browser it is the end if the stream finished before its first byte.
TakenForEnd(h) ==
  /\ AtObject(h)
  /\ reader[h].parts = <<>>
  /\ Native(h) \/ (wire[h].end = "fin" /\ reader[h].part = <<>>)

ReadToTheEnd(h) ==
  /\ IsCutOff(h) /\ TakenForEnd(h)
  /\ Stops(h, [reader[h] EXCEPT !.state = "end"])

ReadFails(h) ==
  /\ IsCutOff(h) /\ ~TakenForEnd(h)
  /\ Stops(h, [reader[h] EXCEPT !.state = "error"])

AllRead == \A h \in Hops : reader[h].state # "reading"

Over == AllRead /\ UNCHANGED vars

Write == WriteItem \/ RefuseItem \/ Finish

Transport == \E h \in Hops : ArriveByte(h) \/ BreakOff(h)

Read == \E h \in Hops :
  ReadPart(h) \/ ReadItem(h) \/ ReadRubbish(h) \/ ReadToTheEnd(h) \/ ReadFails(h)

Next == Write \/ Transport \/ Read \/ Over

Spec == Init /\ [][Next]_vars
=============================================================================
