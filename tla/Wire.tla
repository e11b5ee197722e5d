-------------------------------- MODULE Wire --------------------------------
(***************************************************************************)
(* The codecs of moqt-core/src/wire.  Bytes are sequences of 0..255.       *)
(*                                                                         *)
(* A message is [type, fields]; "Formats" gives the kinds of its fields in *)
(* the order in which encode writes and decode reads them.                 *)
(***************************************************************************)
EXTENDS Varint, SequencesExt

CONSTANTS MaxFields,     \* of a namespace (32)
          MaxReason,     \* bytes of a reason phrase (1024)
          MaxValue       \* bytes of a setup option (65535)

ASSUME LimitAssumption ==
  \A limit \in {MaxFields, MaxReason, MaxValue} : limit \in Nat \ {0} /\ limit < Huge

MSG_SUBSCRIBE == 3
MSG_SUBSCRIBE_OK == 4
MSG_REQUEST_ERROR == 5
MSG_PUBLISH_NAMESPACE == 6
MSG_REQUEST_OK == 7
MSG_PUBLISH_DONE == 11
MSG_SETUP == 12032

PARAM_LARGEST_OBJECT == 9
PARAM_FORWARD == 16
PARAM_SUBSCRIPTION_FILTER == 33

-----------------------------------------------------------------------------
\* Reading

\* n times Read(values so far, rest), collecting what it returns.
Repeat(Read(_, _), n, buf) ==
  LET after[i \in 0..n] ==
        IF i = 0 THEN Parsed(<<>>, buf)
        ELSE Then(after[i - 1], LAMBDA values, left :
               Then(Read(values, left), LAMBDA new, rest : Parsed(values \o new, rest)))
  IN after[n]

\* A step that returns one value, and one that returns none.
One(r) == Then(r, LAMBDA value, rest : Parsed(<<value>>, rest))

Skip(r) == Then(r, LAMBDA value, rest : Parsed(<<>>, rest))

Take(n, buf) == IF n > Len(buf) THEN Failed ELSE Parsed(SubSeq(buf, 1, n), From(buf, n + 1))

DecodeInts(n, buf) == Repeat(LAMBDA values, rest : One(DecodeVarint(rest)), n, buf)

\* A length and that many bytes.
DecodeBytes(max, buf) ==
  Then(DecodeVarint(buf), LAMBDA n, rest : IF Num(n) > max THEN Failed ELSE Take(Num(n), rest))

EncodeBytes(b) == EncodeVarint(U(Len(b))) \o b

-----------------------------------------------------------------------------
\* Track namespaces

NamespaceEncodable(ns) == Len(ns) <= MaxFields /\ \A i \in DOMAIN ns : ns[i] # <<>>

EncodeTrackNamespace(ns) ==
  EncodeVarint(U(Len(ns))) \o FlattenSeq([i \in DOMAIN ns |-> EncodeBytes(ns[i])])

DecodeTrackNamespace(buf) ==
  LET NotEmpty(field, rest) == IF field = <<>> THEN Failed ELSE Parsed(<<field>>, rest)
      Field(fields, rest) == Then(DecodeBytes(Huge, rest), NotEmpty)
  IN Then(DecodeVarint(buf), LAMBDA count, rest :
       IF Num(count) > MaxFields THEN Failed ELSE Repeat(Field, Num(count), rest))

-----------------------------------------------------------------------------
\* Message parameters: [type, value].  The value of a filter is its integers,
\* of LARGEST_OBJECT group and object, of FORWARD one byte.

LastType(list) == IF list = <<>> THEN 0 ELSE Last(list).type

\* Types are written as differences to the one before.
Delta(list, i) == list[i].type - LastType(SubSeq(list, 1, i - 1))

Ascending(list) == \A i \in DOMAIN list : Delta(list, i) >= 0

ParametersEncodable(params) ==
  /\ Ascending(params)
  /\ \A i \in DOMAIN params :
       params[i].type = PARAM_SUBSCRIPTION_FILTER => params[i].value = <<U(1)>>

EncodeInts(us) == FlattenSeq([i \in DOMAIN us |-> EncodeVarint(us[i])])

EncodeParameterValue(p) ==
  CASE p.type = PARAM_SUBSCRIPTION_FILTER -> EncodeBytes(EncodeInts(p.value))
    [] p.type = PARAM_LARGEST_OBJECT -> EncodeInts(p.value)
    [] OTHER -> p.value

EncodeParameters(Value(_), params) ==
  EncodeVarint(U(Len(params)))
    \o FlattenSeq([i \in DOMAIN params |-> EncodeVarint(U(Delta(params, i))) \o Value(params[i])])

\* The integers of a filter of type 1 to 4.
FilterLength == <<1, 1, 3, 4>>

DecodeFilter(buf) ==
  LET Ints(type, payload) ==
        IF type \in 1..4 THEN DecodeInts(FilterLength[type], payload) ELSE Failed
      Filter(payload) == Then(DecodeVarint(payload), LAMBDA type, rest : Ints(Num(type), payload))
  IN Then(DecodeBytes(Huge, buf), LAMBDA payload, rest :
       Then(Filter(payload), LAMBDA ints, unused : Parsed(ints, rest)))

\* The value of a parameter by its type; no other type is known.
DecodeParameterValue(type, buf) ==
  CASE type = PARAM_SUBSCRIPTION_FILTER -> DecodeFilter(buf)
    [] type = PARAM_LARGEST_OBJECT -> DecodeInts(2, buf)
    [] type \in {PARAM_FORWARD, 32, 34} -> Take(1, buf)
    [] type = 3 -> DecodeBytes(Huge, buf)
    [] type \in {2, 4, 8, 50} -> DecodeVarint(buf)
    [] OTHER -> Failed

\* As a bug: FORWARD is read and thrown away.
WithoutForward == {PARAM_SUBSCRIPTION_FILTER, PARAM_LARGEST_OBJECT}

KnownParameters == {PARAM_SUBSCRIPTION_FILTER, PARAM_LARGEST_OBJECT, PARAM_FORWARD}

\* One parameter.  A type that is skipped leaves prev_type as it is, so the
\* next difference is added to the last type that was kept.
DecodeParameter(params, buf) ==
  LET Kept(type, value) == IF type \in KnownParameters THEN <<[type |-> type, value |-> value]>> ELSE <<>>
      OfType(type, left) ==
        Then(DecodeParameterValue(type, left), LAMBDA value, rest : Parsed(Kept(type, value), rest))
  IN Then(DecodeVarint(buf), LAMBDA delta, rest : OfType(LastType(params) + Num(delta), rest))

\* A count, and as many.  One that exceeds the bytes left cannot be satisfied.
DecodeCounted(ReadInt(_), Read(_, _), buf) ==
  Then(ReadInt(buf), LAMBDA count, rest :
    IF Num(count) > Len(rest) THEN Failed ELSE Repeat(Read, Num(count), rest))

DecodeParameters(buf) == DecodeCounted(DecodeVarint, DecodeParameter, buf)

-----------------------------------------------------------------------------
\* Key-value pairs: [type, value], of an integer if the type is even and of
\* bytes if it is odd; "int" says which the caller gave.

IsEven(n) == n % 2 = 0

PairsEncodable(pairs) ==
  Ascending(pairs) /\ \A i \in DOMAIN pairs : pairs[i].int = IsEven(pairs[i].type)

EncodeKeyValuePairs(pairs) ==
  FlattenSeq([i \in DOMAIN pairs |->
    EncodeVarint(U(Delta(pairs, i)))
      \o (IF pairs[i].int THEN EncodeVarint(pairs[i].value) ELSE EncodeBytes(pairs[i].value))])

\* A pair of the given type.
PairOf(ReadInt(_), ReadBytes(_), type, buf) ==
  Then(IF IsEven(type) THEN ReadInt(buf) ELSE ReadBytes(buf),
       LAMBDA value, rest : Parsed(<<[type |-> type, int |-> IsEven(type), value |-> value]>>, rest))

DecodePair(pairs, buf) ==
  Then(DecodeVarint(buf), LAMBDA delta, rest :
    PairOf(DecodeVarint, LAMBDA b : DecodeBytes(MaxValue, b), LastType(pairs) + Num(delta), rest))

\* Until the buffer is empty.
UntilEmpty(Read(_, _), buf) ==
  Repeat(LAMBDA values, rest : IF rest = <<>> THEN Parsed(<<>>, rest) ELSE Read(values, rest),
         Len(buf), buf)

DecodeKeyValuePairs(buf) == UntilEmpty(DecodePair, buf)

-----------------------------------------------------------------------------
\* Messages

SubscribeFields == <<"int", "int", "namespace", "bytes", "parameters">>

SubscribeOkFields == <<"int", "parameters", "bytes">>

PublishDoneFields == <<"int", "int", "reason">>

RequestErrorFields == <<"int", "int", "reason">>

\* Its encoder writes no parameters, its decoder drops those it reads.
PublishNamespaceFields == <<"int", "int", "namespace", "unused">>

RequestOkFields == <<"unused">>

SetupFields == <<"pairs">>

Fields(type) ==
  CASE type = MSG_SUBSCRIBE -> SubscribeFields
    [] type = MSG_SUBSCRIBE_OK -> SubscribeOkFields
    [] type = MSG_PUBLISH_DONE -> PublishDoneFields
    [] type = MSG_REQUEST_ERROR -> RequestErrorFields
    [] type = MSG_PUBLISH_NAMESPACE -> PublishNamespaceFields
    [] type = MSG_REQUEST_OK -> RequestOkFields
    [] type = MSG_SETUP -> SetupFields

MessageTypes == {MSG_SUBSCRIBE, MSG_SUBSCRIBE_OK, MSG_PUBLISH_DONE, MSG_REQUEST_ERROR,
                 MSG_PUBLISH_NAMESPACE, MSG_REQUEST_OK, MSG_SETUP}

FieldEncodable(kind, v) ==
  /\ kind = "namespace" => NamespaceEncodable(v)
  /\ kind = "parameters" => ParametersEncodable(v)
  /\ kind = "pairs" => PairsEncodable(v)

EncodeField(Value(_), kind, v) ==
  CASE kind = "int" -> EncodeVarint(v)
    [] kind \in {"bytes", "reason"} -> EncodeBytes(v)
    [] kind = "namespace" -> EncodeTrackNamespace(v)
    [] kind = "parameters" -> EncodeParameters(Value, v)
    [] kind = "unused" -> EncodeParameters(Value, <<>>)
    [] kind = "pairs" -> EncodeKeyValuePairs(v)

DecodeField(kind, buf) ==
  CASE kind = "int" -> DecodeVarint(buf)
    [] kind = "bytes" -> DecodeBytes(Huge, buf)
    [] kind = "reason" -> DecodeBytes(MaxReason, buf)
    [] kind = "namespace" -> DecodeTrackNamespace(buf)
    [] kind = "parameters" -> DecodeParameters(buf)
    [] kind = "unused" -> Skip(DecodeParameters(buf))
    [] kind = "pairs" -> DecodeKeyValuePairs(buf)

Message(type, fields) == [type |-> type, fields |-> fields]

\* Type, length in two bytes (the cast drops what does not fit), payload.
EncodeMessage(type, payload) ==
  EncodeVarint(U(type)) \o <<(Len(payload) \div 256) % 256, Len(payload) % 256>> \o payload

DecodeFrame(ReadInt(_), buf) ==
  Then(ReadInt(buf), LAMBDA type, rest :
    IF Len(rest) < 2 THEN Failed
    ELSE Then(Take(rest[1] * 256 + rest[2], From(rest, 3)), LAMBDA payload, after :
           Parsed([type |-> Num(type), payload |-> payload], after)))

DecodeMessage(buf) == DecodeFrame(DecodeVarint, buf)

Encodable(m) == \A i \in DOMAIN m.fields : FieldEncodable(Fields(m.type)[i], m.fields[i])

EncodeWith(Value(_), m) ==
  EncodeMessage(m.type,
    FlattenSeq([i \in DOMAIN m.fields |-> EncodeField(Value, Fields(m.type)[i], m.fields[i])]))

Encode(m) == EncodeWith(EncodeParameterValue, m)

\* The fields of a payload; what follows the last one is not looked at.
DecodeFields(Field(_, _), kinds, payload) ==
  Repeat(LAMBDA values, rest : One(Field(kinds[Len(values) + 1], rest)), Len(kinds), payload)

Decode(frame) ==
  LET Body(m) == IF m.type \in MessageTypes THEN DecodeFields(DecodeField, Fields(m.type), m.payload) ELSE Failed
  IN Then(DecodeMessage(frame), LAMBDA m, rest :
       Then(Body(m), LAMBDA fields, unused : Parsed(Message(m.type, fields), rest)))

-----------------------------------------------------------------------------
\* Data streams.  An optional field is a sequence of at most one value.

\* The type has no bit for firstObject, "the subgroup's id is that of its first
\* object": the struct cannot say it.
HeaderType(h) ==
  16 + (IF h.properties THEN 1 ELSE 0) + (IF h.subgroup # <<>> THEN 4 ELSE 0)
     + (IF h.endOfGroup THEN 8 ELSE 0) + (IF h.priority = <<>> THEN 32 ELSE 0)

EncodeSubgroupHeader(type, h) ==
  EncodeVarint(U(type)) \o EncodeVarint(h.alias) \o EncodeVarint(h.group)
    \o EncodeInts(h.subgroup) \o h.priority

ValidHeaderTypes == (16..21) \cup (24..29) \cup (48..53) \cup (56..61)

HasSubgroup(type) == (type \div 2) % 4 = 2

HasPriority(type) == (type \div 32) % 2 = 0

DecodeHeader(ReadInt(_), valid, buf) ==
  LET Ints(n, left) == Repeat(LAMBDA values, rest : One(ReadInt(rest)), n, left)
      Optional(type, left) ==
        Then(Ints(IF HasSubgroup(type) THEN 1 ELSE 0, left), LAMBDA subgroup, rest :
          Then(Take(IF HasPriority(type) THEN 1 ELSE 0, rest), LAMBDA priority, unused :
            Parsed([subgroup |-> subgroup, priority |-> priority], unused)))
      Header(type, ints, optional) ==
        [properties |-> ~IsEven(type), firstObject |-> FALSE, endOfGroup |-> ~IsEven(type \div 8),
         alias |-> ints[2], group |-> ints[3],
         subgroup |-> optional.subgroup, priority |-> optional.priority]
  IN Then(Ints(3, buf), LAMBDA ints, left :
       IF Num(ints[1]) \notin valid THEN Failed
       ELSE Then(Optional(Num(ints[1]), left), LAMBDA optional, rest :
              Parsed(Header(Num(ints[1]), ints, optional), rest)))

DecodeSubgroupHeader(buf) == DecodeHeader(DecodeVarint, ValidHeaderTypes, buf)

EncodeObject(o) == EncodeVarint(o.delta) \o EncodeBytes(o.payload)
=============================================================================
