------------------------------ MODULE WebWire ------------------------------
(***************************************************************************)
(* The codecs of web/src/wire.  They follow the same formats as "Wire" and *)
(* check less: what is too short is cut off, limits are not looked at.     *)
(* The parameters have other numbers.                                      *)
(***************************************************************************)
EXTENDS Wire

\* buf.slice(pos, pos + len): what there is of it.
Slice(n, buf) == Take(IF n > Len(buf) THEN Len(buf) ELSE n, buf)

WebDecodeBytes(buf) == Then(WebDecodeVarint(buf), LAMBDA n, rest : Slice(Num(n), rest))

WebDecodeTrackNamespace(buf) ==
  LET Field(fields, left) == Then(WebDecodeVarint(left), LAMBDA n, rest : One(Take(Num(n), rest)))
  IN DecodeCounted(WebDecodeVarint, Field, buf)

WEB_PARAM_AUTHORIZATION == 2
WEB_PARAM_SUBSCRIPTION_FILTER == 4
WEB_PARAM_LARGEST_OBJECT == 5
WEB_PARAM_FORWARD == 6

WebIntParameters == {WEB_PARAM_SUBSCRIPTION_FILTER, WEB_PARAM_LARGEST_OBJECT, WEB_PARAM_FORWARD}

\* subscriptionFilterNextGroupStart
WebNextGroupStart == [type |-> WEB_PARAM_SUBSCRIPTION_FILTER, value |-> U(2)]

\* Only numbers are sent.
WebEncodeParameterValue(p) == EncodeVarint(p.value)

\* Every type advances the one before, those that are not kept too; types that
\* are not known are taken to have a length.
WebDecodeParameter(params, buf) ==
  LET OfType(type, left) ==
        Then(IF type \in WebIntParameters THEN WebDecodeVarint(left) ELSE WebDecodeBytes(left),
             LAMBDA value, rest : Parsed(<<[type |-> type, value |-> value]>>, rest))
  IN Then(WebDecodeVarint(buf), LAMBDA delta, rest : OfType(LastType(params) + Num(delta), rest))

WebDecodeParameters(buf) ==
  LET Known(p) == p.type \in WebIntParameters \cup {WEB_PARAM_AUTHORIZATION}
  IN Then(DecodeCounted(WebDecodeVarint, WebDecodeParameter, buf), LAMBDA params, rest :
       Parsed(SelectSeq(params, Known), rest))

WebDecodePair(pairs, buf) ==
  Then(WebDecodeVarint(buf), LAMBDA delta, rest :
    PairOf(WebDecodeVarint, WebDecodeBytes, LastType(pairs) + Num(delta), rest))

WebDecodeKeyValuePairs(buf) == UntilEmpty(WebDecodePair, buf)

\* Nothing is checked: whatever the caller gives is written.
WebEncode(m) == EncodeWith(WebEncodeParameterValue, m)

WebDecodeField(kind, buf) ==
  CASE kind = "int" -> WebDecodeVarint(buf)
    [] kind \in {"bytes", "reason"} -> WebDecodeBytes(buf)
    [] kind = "namespace" -> WebDecodeTrackNamespace(buf)
    [] kind = "parameters" -> WebDecodeParameters(buf)
    [] kind = "pairs" -> WebDecodeKeyValuePairs(buf)

\* The session looks at the type of every answer, and decodes these.
WebDecodedTypes == {MSG_SETUP, MSG_SUBSCRIBE, MSG_SUBSCRIBE_OK, MSG_PUBLISH_DONE}

WebDecodeMessage(frame) == DecodeFrame(WebDecodeVarint, frame)

WebDecode(frame) ==
  LET Kinds(type) == IF type \in WebDecodedTypes THEN Fields(type) ELSE <<>>
  IN Then(WebDecodeMessage(frame), LAMBDA m, rest :
       Then(DecodeFields(WebDecodeField, Kinds(m.type), m.payload), LAMBDA fields, unused :
         Parsed(Message(m.type, fields), rest)))

\* Any type is taken for a header.
WebDecodeSubgroupHeader(buf) == DecodeHeader(WebDecodeVarint, 0..Huge, buf)
=============================================================================
