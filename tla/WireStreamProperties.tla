----------------------- MODULE WireStreamProperties -----------------------
(***************************************************************************)
(* What a stream promises: that what is read is what was written.          *)
(***************************************************************************)
EXTENDS WireStream

ReaderOK(h) ==
  LET r == reader[h]
  IN /\ r.state \in {"reading", "end", "error"}
     /\ r.used <= wire[h].arrived
     /\ Len(r.part) <= 1
     /\ r.state = "reading" => Plan(h, r.parts) # Nothing

\* Every reader is between two reads of an item it has not completed, and has
\* used no byte that did not arrive (the readers' read_exact).
TypeOK ==
  /\ stream \in Streams
  /\ written \in 0..Len(stream.items)
  /\ \A h \in Hops :
       /\ wire[h].end \in {"open", "fin", "reset"}
       /\ wire[h].arrived <= Len(wire[h].bytes)
       /\ \A i \in DOMAIN wire[h].bytes : wire[h].bytes[i] \in Byte
       /\ ReaderOK(h)

-----------------------------------------------------------------------------
HasParameters(m) == m.type \in {MSG_SUBSCRIBE, MSG_SUBSCRIBE_OK}

ParametersOf(m) == m.fields[IF m.type = MSG_SUBSCRIBE THEN 5 ELSE 2]

WithoutParameters(m) ==
  IF HasParameters(m) THEN [m EXCEPT !.fields[IF m.type = MSG_SUBSCRIBE THEN 5 ELSE 2] = <<>>] ELSE m

\* What of message m is meant for the reader of stream h: the relay numbers its
\* own requests and may have an alias of its own, and the browser looks at the type
\* only of some answers.
Meant(h, m) ==
  IF ~Native(h) /\ m.type \notin WebDecodedTypes THEN [m EXCEPT !.fields = <<>>]
  ELSE IF h = 2 /\ HasParameters(m) THEN [WithoutParameters(m) EXCEPT !.fields[1] = RelayRequestId]
  ELSE WithoutParameters(m)

\* The bit of the header that HeaderType cannot set.
FirstObject(header) ==
  IF "firstObject" \in DOMAIN header THEN [header EXCEPT !.firstObject = TRUE] ELSE header

\* A header up to the alias behind the relay, and an object; the browser does not use
\* its delta.
MeantData(h, item) ==
  IF h = 2 /\ "alias" \in DOMAIN item THEN [item EXCEPT !.alias = U(0)]
  ELSE IF ~Native(h) /\ "delta" \in DOMAIN item THEN [item EXCEPT !.delta = U(0)]
  ELSE item

SameItem(h, sent, got) ==
  IF stream.kind = "request"
  THEN sent.type = got.type /\ Meant(h, sent).fields = Meant(h, got).fields
  ELSE MeantData(h, sent) \in {MeantData(h, got), MeantData(h, FirstObject(got))}

\* What the browser does not understand: the objects of a stream whose header says
\* that they have properties (readObject looks at the length only), and messages with
\* parameters that it takes for ones with a length (LARGEST_OBJECT and FORWARD have
\* other numbers in parameter.ts).  The relay passes both on from any peer.
Misread(h, i) ==
  /\ ~Native(h)
  /\ \/ stream.kind = "data" /\ i > 1 /\ stream.items[1].properties
     \/ /\ stream.kind = "request" /\ i <= Len(stream.items) /\ HasParameters(stream.items[i])
        /\ \E k \in DOMAIN ParametersOf(stream.items[i]) :
              ParametersOf(stream.items[i])[k].type \in {PARAM_LARGEST_OBJECT, PARAM_FORWARD}

MisreadsSome(h) == \E i \in DOMAIN stream.items : Misread(h, i)

\* Whatever the pieces it arrives in and wherever it breaks off, what a reader
\* hands out is a prefix of what the writer wrote, item by item and field by
\* field, after the relay as before it: the streams of moqt-core/src/stream/mod.rs,
\* data.rs and of web/src/stream/stream-reader.ts read in pieces what encode wrote
\* at once.  Of a header only "the subgroup is named after its first object" gets
\* lost, since the relay encodes it again.  Behind the relay the alias may be
\* another; what the browser misreads is excepted; parameters have their own
\* property.
ReadAsWritten ==
  \A h \in Hops : \A i \in DOMAIN reader[h].out :
    Misread(h, i) \/ (i <= written /\ SameItem(h, stream.items[i], reader[h].out[i]))

\* The parameters of the types this implementation knows, in their order.
ParametersKept(params) ==
  LET kept[n \in 0..Len(params)] ==
        IF n = 0 THEN <<>>
        ELSE IF params[n].type \in {9, 16, 33} THEN Append(kept[n - 1], params[n])
        ELSE kept[n - 1]
  IN kept[Len(params)]

\* The parameters this implementation uses reach the native program they were sent
\* to with their values, also from a writer that sends others (decode_parameters,
\* parameter.rs).  Which of them the relay puts into its own SUBSCRIBE and
\* SUBSCRIBE_OK is not asked here.
ParametersSurvive ==
  (stream.writer # "browser" /\ stream.kind = "request" /\ Native(1)) =>
    \A i \in DOMAIN reader[1].out :
      HasParameters(reader[1].out[i]) =>
        ParametersOf(reader[1].out[i]) = ParametersKept(ParametersOf(stream.items[i]))

Broken(h) == \E g \in Hops : g <= h /\ wire[g].end = "reset"

Refused == wire[1].end = "fin" /\ ~Complete

\* A parameter of no type in the draft.
IsUnknown(p) == p.type \notin {2, 3, 4, 8, 9, 16, 32, 33, 34, 50}

HasUnknown ==
  stream.kind = "request" /\ stream.writer # "browser" /\ \E i \in DOMAIN stream.items :
    LET m == stream.items[i] IN HasParameters(m) /\ \E k \in DOMAIN ParametersOf(m) : IsUnknown(ParametersOf(m)[k])

\* A reason longer than decode_reason_phrase takes, which encode_reason_phrase writes.
LongReason ==
  Native(1) /\ stream.kind = "request" /\ \E i \in DOMAIN stream.items :
    LET m == stream.items[i]
    IN \E k \in DOMAIN m.fields : Fields(m.type)[k] = "reason" /\ Len(m.fields[k]) > MaxReason

\* A namespace that decode_track_namespace refuses, which the browser writes: an
\* empty name, or too many.
UncheckedNamespace ==
  stream.writer = "browser" /\ stream.kind = "request" /\ \E i \in DOMAIN stream.items :
    LET m == stream.items[i]
    IN \E k \in DOMAIN m.fields : Fields(m.type)[k] = "namespace" /\ ~NamespaceEncodable(m.fields[k])

\* A reader fails only on a stream that broke off, that its writer gave up, that has
\* a parameter the draft does not know, or on one of the three things that are written
\* and not understood: but for these, what the encoders write, the decoders take, and
\* no reader loses its place.
NothingRefused ==
  \A h \in Hops : reader[h].state = "error" =>
    \/ Broken(h) \/ Refused \/ HasUnknown
    \/ LongReason \/ UncheckedNamespace \/ MisreadsSome(h)

\* A reader that ends well and understands what it reads has read all of it
\* (read_object: None is the end; tryReadExact: null is a clean end).
EndsComplete ==
  \A h \in Hops :
    (reader[h].state = "end" /\ ~Broken(h) /\ ~MisreadsSome(h)) => Len(reader[h].out) = Len(stream.items)

-----------------------------------------------------------------------------
\* Documented (wire/parameter.rs:15-17): parameters that are not used are
\* skipped without error.
SkippedWithoutError ==
  \A h \in Hops : (reader[h].state = "error" /\ stream.kind = "request") => Broken(h) \/ Refused \/ HasUnknown
=============================================================================
