---------------------------- MODULE MCWireStream ----------------------------
(***************************************************************************)
(* Streams for TLC: every kind of message, header and object, with         *)
(* integers at the ends of every form.                                     *)
(***************************************************************************)
EXTENDS WireStreamProperties

\* The largest value of len bytes, and the smallest of one more.
Largest(len) == Tail([i \in 1..9 |-> IF i < 10 - len THEN 0
                                     ELSE IF i = 10 - len THEN Room(len) - 1 ELSE 255])

Smallest(len) == Tail([i \in 1..9 |-> IF len < 8 /\ i = 10 - len THEN Room(len)
                                      ELSE IF len = 8 /\ i = 2 THEN 1 ELSE 0])

\* Bounds of the first len bytes' forms; up to 5 bytes a browser number is exact.
Ends(lens) == {Largest(len) : len \in lens} \cup {Smallest(len) : len \in lens \ {9}}

Direct == <<"native">>
ToBrowser == <<"browser">>

Stream(writer, kind, items, readers) ==
  [writer |-> writer, kind |-> kind, items |-> items, readers |-> readers]

Ns == <<<<1>>, <<2, 3>>>>

Parameter(type, value) == [type |-> type, value |-> value]

NextGroup == Parameter(33, <<U(1)>>)

SubscribeMessage(params) == Message(MSG_SUBSCRIBE, <<U(2), U(0), Ns, <<9>>, params>>)

OkMessage(alias, params, properties) == Message(MSG_SUBSCRIBE_OK, <<alias, params, properties>>)

DoneMessage(count) == Message(MSG_PUBLISH_DONE, <<U(2), count, <<5>>>>)

\* What the native programs send in requests; the second namespaces are refused.
NativeRequests ==
  {Stream("native", "request", <<DoneMessage(u)>>, r) :
     u \in Ends(1..5), r \in {Direct, ToBrowser}}
  \cup {Stream("native", "request", <<DoneMessage(u)>>, Direct) : u \in Ends({6, 8, 9})}
  \cup {Stream("native", "request", <<OkMessage(Smallest(1), <<>>, <<>>), DoneMessage(U(1))>>, <<"native", r>>) :
          r \in {"native", "browser"}}
  \cup {Stream("native", "request", <<SubscribeMessage(<<NextGroup>>)>>, <<"native", r>>) :
          r \in {"native", "browser"}}
  \cup {Stream("native", "request", <<Message(MSG_PUBLISH_NAMESPACE, <<U(0), U(0), ns, <<>>>>)>>, Direct) :
          ns \in {<<>>, Ns} \cup {<<<<1>>, <<>>>>, <<<<1>>, <<1>>, <<1>>>>}}
  \cup {Stream("native", "request", <<m>>, r) : r \in {Direct, ToBrowser}, m \in
          {Message(MSG_REQUEST_OK, <<<<>>>>), Message(MSG_REQUEST_ERROR, <<U(300), U(0), <<1, 2>>>>),
           Message(MSG_PUBLISH_DONE, <<U(2), U(0), <<1, 2, 3>>>>),
           Message(MSG_SETUP, <<<<>>>>),
           Message(MSG_SETUP, <<<<[type |-> 1, int |-> FALSE, value |-> <<7>>],
                                  [type |-> 4, int |-> TRUE, value |-> U(200)],
                                  [type |-> 5, int |-> FALSE, value |-> <<7, 8>>]>>>>)}}

BrowserRequests ==
  {Stream("browser", "request", <<OkMessage(u, <<>>, <<>>), DoneMessage(u)>>, <<"native", r>>) :
     u \in {Largest(2)}, r \in {"native", "browser"}}
  \cup {Stream("browser", "request", <<SubscribeMessage(<<WebNextGroupStart>>)>>, <<"native", r>>) :
          r \in {"native", "browser"}}
  \cup {Stream("browser", "request", <<Message(MSG_PUBLISH_NAMESPACE, <<U(0), U(0), Ns, <<>>>>)>>, Direct),
        Stream("browser", "request", <<Message(MSG_PUBLISH_NAMESPACE, <<U(0), U(0), <<<<>>>>, <<>>>>)>>, Direct),
        Stream("browser", "request", <<Message(MSG_SETUP, <<<<>>>>)>>, Direct)}

\* Parameters of a foreign peer; those that are skipped come last.
ForeignParameters ==
  {<<Parameter(9, <<U(7), U(300)>>), Parameter(16, <<1>>), Parameter(33, <<U(1)>>), Parameter(50, U(0))>>,
   <<Parameter(33, <<U(3), U(4), U(5)>>), Parameter(34, <<2>>)>>,
   <<Parameter(16, <<0>>), Parameter(32, <<9>>)>>,
   <<Parameter(3, <<8, 8>>)>>, <<Parameter(40, U(0))>>}

ForeignRequests ==
  {Stream("foreign", "request", <<SubscribeMessage(ps)>>, Direct) : ps \in ForeignParameters}
  \cup {Stream("foreign", "request", <<OkMessage(U(200), ps, <<6>>)>>, <<"native", r>>) :
          r \in {"native", "browser"},
          ps \in {<<Parameter(9, <<U(7), U(300)>>), Parameter(16, <<1>>)>>, <<Parameter(9, <<U(0), U(1)>>)>>}}
  \cup {Stream("foreign", "request", <<SubscribeMessage(<<p, NextGroup>>)>>, <<"native", r>>) :
          r \in {"native", "browser"}, p \in {Parameter(16, <<1>>)}}

Header(properties, endOfGroup, alias, group, subgroup, priority) ==
  [properties |-> properties, firstObject |-> FALSE, endOfGroup |-> endOfGroup, alias |-> alias,
   group |-> group, subgroup |-> subgroup, priority |-> priority]

Object(properties, payload) == [delta |-> U(0), properties |-> properties, payload |-> payload]

OwnHeader == Header(FALSE, TRUE, U(1), Smallest(1), <<U(0)>>, <<>>)

OwnData ==
  {Stream(w, "data", <<OwnHeader, Object(<<>>, <<4, 4>>)>>, <<"native", "browser">>) : w \in {"native", "browser"}}
  \cup {Stream("browser", "data", <<OwnHeader, Object(<<>>, <<>>), Object(<<>>, <<4>>)>>, <<"native", "native">>)}

ForeignStream(header, second) ==
  Stream("foreign", "data", <<header, Object(IF header.properties THEN <<6>> ELSE <<>>, <<4>>)>>,
         <<"native", second>>)

ForeignData ==
  {ForeignStream(Header(TRUE, FALSE, U(1), U(2), <<>>, <<200>>), r) : r \in {"native", "browser"}}
  \cup {ForeignStream(Header(TRUE, TRUE, U(1), U(2), <<U(3)>>, <<>>), "native")}
  \cup {ForeignStream([Header(FALSE, FALSE, U(1), U(2), <<>>, <<>>) EXCEPT !.firstObject = TRUE], r) :
           r \in {"native", "browser"}}
  \cup {Stream("foreign", "data", <<Header(TRUE, TRUE, U(1), U(2), <<>>, <<>>), Object(<<0>>, <<>>)>>,
                <<"native", "browser">>)}

MCStreams == NativeRequests \cup BrowserRequests \cup ForeignRequests \cup OwnData \cup ForeignData

\* For the documented statement: a skipped parameter before one that is not.
SkippingStreams ==
  {Stream("foreign", "request", <<SubscribeMessage(ps)>>, Direct) :
     ps \in {<<Parameter(2, U(5)), Parameter(33, <<U(1)>>)>>, <<Parameter(2, U(5)), Parameter(16, <<1>>)>>}}

MCRelayRequestId == U(4)
=============================================================================
