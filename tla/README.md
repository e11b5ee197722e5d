# MOQT relay: formal models

TLA+ specifications of the MOQT relay and its clients (`src/`), checked with TLC
and, where it says so, proved with TLAPS.

## 1. Inventory

### The system

Publishers announce namespaces to a relay, subscribers ask the relay for tracks;
the relay asks the publisher once per track, hands the answer to every
subscriber, and copies the publisher's data streams to all of them.

| Part | Source | State it keeps | Operations | Talks to |
|---|---|---|---|---|
| relay, control plane | `moqt-relay/src/relay.rs` | `RelayState` behind one mutex: `sessions`, `namespace_to_publisher`, `subscriptions`, `track_locks`; one task per connection, per SUBSCRIBE and per PUBLISH_NAMESPACE | connect, `remove_session`, `register_namespace`, `handle_subscribe` | sessions (calls), its other tasks (shared state) |
| relay, data plane | `relay.rs` `handle_data_stream` | one task per stream of a publisher, its `active_writers` | look up, open copies, forward, finish, drain | `subscriptions` (read once), streams |
| streams | `moqt-core/src/stream/`, `session/subgroup.rs` | bytes in flight; a writer sends FIN when it is dropped | read/write a message, a header, an object | QUIC / WebTransport (external) |
| requests | `moqt-core/src/session/subscribe_request.rs`, `subscription.rs`, `publish_namespace_request.rs` | the stream of one request | accept, reject, forward SUBSCRIBE_OK / PUBLISH_DONE | the peer |
| session | `moqt-core/src/session/mod.rs` | control streams, next request id | `connect`, `accept`, `subscribe`, `publish_namespace`, `next_event`, `open_subgroup` | transport |
| wire codecs | `moqt-core/src/wire/`, `web/src/wire/` | none | encode, decode | - |
| native clients | `moqt-pub/src/main.rs`, `moqt-sub/src/main.rs` | current group, counters; frames between two tasks in a channel of 64; the groups put out | publish stdin or demo groups; receive groups until PUBLISH_DONE | session |
| browser clients | `web/src/publisher.ts`, `subscriber.ts`, `session.ts`, `stream/stream-reader.ts` | module variables that overlapping async calls share | start, stop, handle a frame, handle a group | WebTransport, WebCodecs |
| set-up | `client.rs`, `quic_config.rs`, both `main.rs` | none | TLS and QUIC configuration, command lines | libraries |

### What is hard

* *Interleaving.* Every SUBSCRIBE is a task. What it reads under the state mutex
  it uses after waiting for the publisher, for a subscriber's stream or for the
  track lock.
* *Order.* SUBSCRIBE_OK, PUBLISH_DONE and data streams travel on different
  streams and are handled by different tasks.
* *Failure.* A peer may leave at every wait; a subscriber may stop reading one
  stream and keep the others; a publisher may break off inside a group. `?` ends
  a task at a dozen places, and what it holds is dropped.
* *Waiting.* The track lock is held across the publisher's answer and across
  writes to subscribers; the state mutex across one write.
* *Callbacks.* In the browser, each `await` lets other callbacks run on the same
  module variables.

`PROJECT.json` lists each hazard at its line with the properties that would catch
it going wrong.

### What makes each part correct

* Control plane: one upstream per track; a subscriber is told what the relay
  routes by; a request is answered once or its stream is closed; a subscription
  lasts as long as its publisher and one of its subscribers, whoever else leaves;
  the end of the track reaches the subscribers.
* Data plane: every copy is a gapless prefix of the stream from its first object;
  a finished copy of a finished stream is complete, unless the stream was lost with
  its connection; one object is held at a time;
  one subscriber's failure does not harm the others.
* Clients: no keyframe comes inside a group, and the frames of a stream are in
  order; the decoder gets a keyframe after every flush; the announced number of
  streams is the number sent; a subscriber puts out whole groups, in turn; both
  programs end.
* Codecs: `decode(encode(x)) = x`, and nothing of the rest of the buffer is used.

## 2. Plan

| # | Modules | What | Runs | Proofs |
|---|---|---|---|---|
| 1 | `Relay`, `RelayProperties`, `TrackAggregation`, `MCRelay` | control plane, and aggregation as an abstract specification | `aggregation`, `routing`, `liveness`, and the documented statement `ok_before_done` | `RelayProofs`: types and all other safety properties, and that it implements `TrackAggregation` (done) |
| 2 | `DataForward`, `DataForwardProperties`, `StreamCopy` | data plane, and one subscriber's view as an abstract specification | `forwarding`, `fin` | `DataForwardProofs`: types, `CompleteCopies`, `HoldsOneObject`, the refinement of `StreamCopy` (done) |
| 3 | `WebPublisher`, `WebSubscriber`, `MCWebSubscriber` | the browser clients, whose callbacks overlap | `web_publisher`, `web_subscriber`, `keyframes` | `WebPublisherProofs`, `WebSubscriberProofs`: types and all other safety properties (done) |
| 4 | `Session`, `NativePublisher`, `NativeSubscriber`, composed with the relay in `NativeTrack`; `NativeTrackProperties`, `MCNativeTrack` | the native clients: one SUBSCRIBE answered, frames between two tasks, groups received one after the other, PUBLISH_DONE against the last groups; a track from SETUP to the exit of both programs | `native_track` | `NativeTrackProofs`: types, order of the frames, keyframes, the count of PUBLISH_DONE, what moqt-sub puts out, and that it is everything when nothing goes wrong (done) |
| 5 | `Varint`, `Wire`, `WebWire`, `WireStream`, `WireStreamProperties`, `MCWireStream` | the codecs, native and browser, and a stream from its writer through the relay to its reader, in pieces of any size | `wire`, `skipped_param` | `WireProofs`: that no bytes read as an integer are fewer than those written for it, and that every integer, message and header reads back as itself; `WireStreamProofs`: the same of streams read in pieces, once or twice, by native readers (done); the browser's readers (only TLC) |

The order follows what the repository is for: the relay's shared state first, the
copying of data second, then the programs at either end, then the bytes.

## 3. The modules

### Relay

`Relay.tla` is `relay.rs` without `handle_data_stream`. `sessions`,
`nsPublisher`, `subscriptions` and `trackLock` are the fields of `RelayState`;
`link` is the transport of a session as the relay sees it, `loop` its event loop
in `handle_connection`, `nsTask` the PUBLISH_NAMESPACE tasks, and `req`, `pc`,
`ok`, `up`, `notify` the local state of `handle_subscribe`. `sent` is what was
written to a subscriber's request stream; it is what the properties speak of.

A step is a stretch of a task between two waits. `pc` has one value per wait:

| `pc` | waits for | lines of `relay.rs` |
|---|---|---|
| `filter` | the reject write, or the track lock | 394-431 |
| `check` | the state mutex, to look for a subscription | 441-443 |
| `forwardAggregated` | the write of the aggregated SUBSCRIBE_OK, track lock held | 446-453 |
| `lookup` | the state mutex, to find the publisher | 457-459 |
| `reject` | the write of REQUEST_ERROR, track lock *and state mutex* held | 460-467 |
| `awaitOk` | the publisher's answer, then the state mutex | 471-490 |
| `forwardOk` | the write of SUBSCRIBE_OK | 494-499 |
| `awaitDone` | PUBLISH_DONE, then the state mutex | 502-504 |
| `notify` | the writes of PUBLISH_DONE | 506-508 |

`stateLock` is set only where the code holds the state mutex across a wait (the
`match` of 458, whose scrutinee keeps the guard alive to the end of the arm);
everywhere else a region under that mutex has no wait inside and is one step
guarded by `StateFree`. `AcquireTrackLock` also stands for looking the lock up
in `track_locks`; that lookup takes the state mutex for a moment and is not
guarded, which adds behaviours and takes none away.

Requests are named by members of `Req`; an upstream SUBSCRIBE has the name of
the request whose task opened it. The order of `subscribers` (a `Vec`) and of
the waiters of a mutex is left open. `SUBSCRIBE_OK` is the name of the upstream
it came from. A failed write ends the task where the code has `?` and is
ignored where it has `let _ =`. Malformed input is one step, `LoopBreaks` of a
`Garbler`: whatever next_event fails on, the loop ends. A track name that is
not UTF-8 and a filter other than NextGroupStart are forms of SUBSCRIBE.

A PUBLISH_NAMESPACE task may register after its session was removed
(`RegisterNamespace` has no guard on the session, as `relay.rs:280-284` has none);
`RoutedToAnnouncer` therefore asks only that the session announced the prefix, and
`KeepsItsAnnouncer` that a namespace is not taken from its publisher by the removal
of another one.

`RelayProperties.tla` states the properties and the fairness,
`TrackAggregation.tla` the promise of "Subscription Aggregation" in
`docs/design/moqt-relay.md` with no tasks, locks or sessions:
`ImplementsAggregation` maps the holder of a track lock in `lookup` or
`awaitOk` to the request that is opening.

### DataForward

`DataForward.tla` is `handle_data_stream` over `DataStreamReader`,
`SubgroupReader`, `SubgroupWriter` and `DataStreamWriter`, for the groups of one
track of one publisher. An object is its number. `upstream`, `members`, `link`,
`pub` change as the control plane changes them; `src` and `written` are the
publisher's streams; `pc`, `read`, `todo`, `writers` the task; `copy` what a
subscriber has of a stream. `todo` and `writers` split `active_writers` into
those still to be written to and `still_active`. A write succeeds while the
connection is up and the stream is open; losing either makes the next write
fail. `AtEnd` says when `read_object` returns `None`: after the last object and
FIN, *or at any time once the stream has broken* (`data.rs:82-89` does not tell
the two apart). `LosePublisher` cuts every stream that is open and any of those
that were finished but not read to the end (`UnderWay`): what was not delivered
is lost with the connection, FIN or not, and the copies then end short. So
`CompleteCopies` and `MembersGetTheGroup` speak of streams that were not cut, and
`fin` shows what the others look like. `StreamCopy.tla` is what one subscriber may see of one stream.

### Session, NativePublisher, NativeSubscriber, NativeTrack

`Session.tla` is one connection of `moqt-core/src/session/mod.rs` between the
relay and each of the two programs: the queues of streams that wait to be accepted,
the request ids, and `answers`, what was written to a request's stream and is
not read yet. Both ends write SETUP before they read one, so both SETUPs are on
their way in the initial states, and `ReadSetup` is what is left of `connect` and
`accept`. What has arrived can be read after a connection is lost; what is
written to a lost connection is gone, and `Message("FIN", 0)` is what a reader sees
when the writer of a request's stream is dropped.

`NativePublisher.tla` is `moqt-pub/src/main.rs`. `main` is where its main task
stands, `stdin` its blocking thread, `channel` what lies between them.

| `main` | waits for | lines |
|---|---|---|
| `connect`, `announce` | SETUP, REQUEST_OK | 63-69 |
| `await`, `accept` | the one call of `next_event`; writing SUBSCRIBE_OK | 73-84 |
| `recv` | a frame (`frame_rx.recv`) | 199 |
| `open`, `write` | opening the stream of a group; writing an object | 212-221; 99-106 |
| `sleep` | the 500 ms after a group of the demo | 108 |
| `done`, `linger` | writing PUBLISH_DONE; the second after it | 92-94, 111 |
| `returned` | the runtime, which waits for the blocking thread | `#[tokio::main]` |

`groupId`, `currentGroup`, `groupStarted` and `streamCount` are the variables of
`send_from_stdin`, and in demo mode of its loop. The thread is blocked in `blocking_send` (`"send"`) until there is
room or `frame_rx` is dropped; it is told that the main task is gone only there, so
a program whose connection is lost ends when stdin yields its next frame or ends.

`NativeSubscriber.tla` is `moqt-sub/src/main.rs`: the main task, which waits
for PUBLISH_DONE, sleeps and closes, and the receive task, which reads one group
to its end before it takes the next. `out` is what is put out.

`NativeTrack.tla` joins them with the relay as the two programs see it: one
publisher, one subscriber and somebody else whose request (`"other"`) reaches the
publisher as well. `RemoveSession`, `HandleSubscribe` ... `ForwardPublishDone` and
`LookUp` ... `EndOfStream` are the steps of `Relay` and `DataForward` with fewer
waits between them. The variable `scenario` is constant; it says what a behaviour
starts from. `timely` sleeps end after everything they wait for has arrived
(`Flushed`, `PublisherFlushed`, `SubscriberDrained`), others at any moment: the
model has no clock, and the code's sleeps are either long enough or not.

What the model shows and the properties had to allow for: streams that reach the
relay before it has recorded the subscription are dropped (`LookUp`), so
`PlayedToTheEnd` speaks of the groups the relay began to copy; demo mode returns
right after PUBLISH_DONE, which is lost if the connection goes first, so the
property speaks of pipe mode; and a subscription recorded *after* its
publisher's session was removed is never taken out, holds the subscriber's request
open and leaves `moqt-sub` waiting (`Orphaned`), which `ProgramsEnd` excepts.

### WebPublisher

`WebPublisher.tla` is `publisher.ts`. The variables from `session` to
`streamCount` are its module variables; `call` is where the call of
`handleEncodedChunk` for a frame stands. The encoder calls back once per frame
and waits for nothing, so several calls stand at an `await` at once, on the same
`currentGroup`, `groupStarted` and `groupId`. A stream is named after the frame
whose call opened it; `refused` is a call that threw because the group was
already closed, `lost` one that threw because the connection was. The rest of
the code corresponds as follows.

* `if (!session) return` never returns: `stop` closes the encoder first
  (`pending # << >> => session` in `TypeOK`). It is therefore not an action.
* `start` is one step: no frame exists before its last line. The Start button is
  disabled only at its end (`publisher.ts:74`), so a start that fails or waits for ever
  after it has set `session` can be followed by another (`StartFails`); two that
  overlap and both come to their end, with two encoders, are left out.
* A stream counts as closed when `close()` is *called*; later writes throw.
* `stop` has three: the flush it waits for, finishing the group, the end. When
  finishing the group throws, `session` stays set and *Start* stays disabled;
  pressing *Stop* again continues at the group, since `encoder` is gone.
* The encoder (external) hands out frames in order, may make keyframes of its
  own, and drops what it holds when it is closed.

Frames that come before the first stream is open each open one more stream of
group 0, keyframes among them. Such a keyframe lies inside group 0, which
`KeyframesLead` therefore excepts, and `LaterGroups` begins with group 1.

### WebSubscriber

`WebSubscriber.tla` is `subscriber.ts`. `activeGroupId` and `activeAbort` are
module variables; `task` is where `processGroup` stands for a stream: `flush`
while it waits for the decoder, `read` while it waits for an object. A stream of
a group that is not newer is left unread. An aborted group notices at its next
object or at its end, not before. `nextEvent` throws when a stream was reset before
its header was read, or when the connection is lost; `receiveLoop` then ends
(`ReceiveFails`, `subscriber.ts:83`) while session, decoder and tasks stay, and no later
group is taken until Stop and Start are pressed. `NotHeldBack` says so: a newer group
is taken, *or the loop has ended*. The decoder (external) asks for a key chunk
from the call of `flush()` on, refuses a delta until it gets one, and drops
waiting flushes when it is closed or fails. The relay's streams come in any
order, end, and break off if `Breakable`.

### Varint, Wire, WebWire

Operators, one per encoder and decoder of `moqt-core/src/wire/` (`Varint`,
`Wire`) and `web/src/wire/` (`WebWire`, which states where the browser differs).
Bytes are numbers, a buffer is a sequence, and a decoder returns a value and the
rest of the buffer or fails, as `&mut &[u8]` and `?` do. A 64-bit integer is its
eight bytes, because TLC's integers are shorter; the table of `varint.rs:11-21`
becomes `Prefix`, `Room` and `Fits`. A message is its type and fields, and
`Fields` gives the kinds of its fields in the order in which both `encode` and
`decode` treat them, so that the fifteen files come down to one reading and one
writing operator per kind.

### WireStream

`WireStream.tla` is a stream in use: a writer, the bytes under way, and the
readers `read_varint`, `read_message_frame`, `read_subgroup_header`,
`read_object` and their twins in `stream-reader.ts` and `session.ts`. `parts` are
the fields a reader has read of the item it is at, `part` the first byte of an
integer whose rest is awaited, and `Plan` says what comes next; a reader waits
until all of that has arrived (`read_exact`). What the relay reads it writes to a
second stream as it does in the code: objects as bytes, headers and messages
encoded again, SUBSCRIBE under an id of its own. The foreign writer (external) is
a peer that uses what the draft allows and the programs here do not send: more
parameters, longer integers, properties.

The relay's copy of a header is encoded again (`relay.rs:343`), although
`docs/design/decisions.md:21` says that the bytes are passed on as they came:
SUBGROUP_ID_MODE 01 becomes 00. `SameItem` is where the model allows it.

What is written and not read as it was is named in `WireStreamProperties`, and the
instance has each case:

* `Misread`: the browser does not look at the properties bit of a header
  (`session.ts:102-111`), and takes LARGEST_OBJECT and FORWARD, whose numbers in
  `parameter.ts` are other ones, for parameters with a length. Both reach it through
  the relay from a peer that sends them.
* `LongReason`: `encode_reason_phrase` (`reason_phrase.rs:35`) checks no length,
  `decode_reason_phrase` (`:44`) does.
* `UncheckedNamespace`: the browser's encoder checks no namespace, so it writes an empty
  field (when nothing is typed in) or too many; the relay refuses both.
* `HasUnknown`: a parameter of no type of the draft is refused, as `parameter.rs:20` says.

`ReadAsWritten`, `NothingRefused` and `EndsComplete` except only these, beside the streams that were cut or given up.

## 4. The runs

| Run | Module / configuration | Properties | Shows |
|---|---|---|---|
| `aggregation` | `MCRelay` / `MCRelayAggregation.cfg` | `TypeOK`, `CheckedAbsenceHolds`, `ToldWhatIsRouted`, `MembersAreTold`, `NoEmptySubscription`, `LeavesWithItsSession`, `ImplementsAggregation` | Three SUBSCRIBEs of two sessions for one track of one publisher, with publisher and subscriber leaving: one upstream per track, everybody is told the alias its data is routed by, and the relay implements TrackAggregation. |
| `routing` | `MCRelay` / `MCRelayRouting.cfg` | `RoutedToRequesters`, `RoutedToAnnouncer`, `OneAnswer`, `KeepsItsAnnouncer` | Two publishers with overlapping namespaces and equal aliases, every form of SUBSCRIBE, one publisher that breaks its session: requests go to an announcer of a prefix, data to who asked for it, each request gets one answer, and a namespace keeps the publisher that announced it last when the one before it is removed. |
| `liveness` | `MCRelay` / `MCRelayLiveness.cfg` | `RequestsSettle`, `MembersHearTheEnd` | Under the fairness of the runtime and of a publisher that answers, every SUBSCRIBE settles and the subscribers of a track hear its end. |
| `forwarding` | `DataForwardProperties` / `DataForward.cfg` | `TypeOK`, `CompleteCopies`, `HoldsOneObject`, `ImplementsCopy`, `MembersGetTheGroup` | One group forwarded to three subscribers that join, leave and cancel, with a publisher that may reset its stream or lose its connection, before FIN or after it: each copy is a gapless part of the stream from its start, complete if the stream was not cut, and one subscriber's failure does not harm the others. |
| `web_publisher` | `WebPublisher` / `WebPublisher.cfg` | `TypeOK`, `StreamsInOrder`, `KeyframesLead`, `LaterGroups` | Overlapping encoder callbacks, stop and a connection that may break, over two runs of one page, one of which may fail to start: frames stay in order, no keyframe comes inside a group (the streams of group 0 excepted), and every group but the first is one stream. |
| `web_subscriber` | `MCWebSubscriber` / `MCWebSubscriber.cfg` | `TypeOK`, `DecodedInOrder`, `RefusesOnlyWhenStopping`, `NotHeldBack` | Three groups that arrive in any order and may stall or break, a connection that may be lost, a decoder that may fail, and stop: the decoder sees whole prefixes of ever newer groups, and while the receive loop runs no group waits for an older one. |
| `wire` | `MCWireStream` / `MCWireStream.cfg` | `TypeOK`, `ReadAsWritten`, `ParametersSurvive`, `NothingRefused`, `EndsComplete` | Every kind of message, header and object, written by the native programs, the browser or a peer that uses more of the draft, arriving byte by byte, through the relay or not, and broken off anywhere: what is read is what was written, but for what the browser misreads, and nothing is refused but what is listed as such. |
| `native_track` | `MCNativeTrack` / `MCNativeTrack.cfg` | `TypeOK`, `FramesInOrder`, `GroupsAtKeyframes`, `CountedStreams`, `PlayedInTurn`, `PlayedToTheEnd`, `ProgramsEnd`, `UpstreamsSettle` | One track from moqt-pub through the relay to moqt-sub, from SETUP to the exit of both programs, in nine scenarios with a second SUBSCRIBE, short sleeps and lost connections: frames stay in order, groups are whole, PUBLISH_DONE counts right, and both programs end. |

The remaining runs check one documented statement each and find it violated (see below): `ok_before_done`, `fin`, `keyframes`, `skipped_param`.

Deadlock is checked in `wire`, where a reader that waits can always be cut off.
Elsewhere it is not: sessions, requests, groups and objects are finite, so each
instance comes to rest when everything has happened.

### Bounds, and why they are enough

* `aggregation`: three requests of two sessions for one track. Aggregation is per
  track, and the races are between an opener, a joiner and a latecomer; two
  sessions so that one leaves and one stays, three requests so that one of them
  subscribes twice. Two aliases, so that a second upstream can differ from the
  first. The publisher may break its session and lose its connection.
* `routing`: two tracks in two overlapping namespaces, two publishers, two
  aliases; what is checked is which publisher and which alias, so each needs two.
* `liveness`: one opener and one joiner, with every fault, without symmetry
  (which is unsound for liveness).
* `forwarding`: three subscribers - one that only leaves, one that only
  cancels, one that does both - and three objects: the first, one in the
  middle, the last. One group: the tasks of two groups share only the
  subscription, which each of them reads once.
* `fin`, `ok_before_done`: the smallest instance that shows the statement violated.
* `web_publisher`: five frames with a keyframe requested every three, so that
  groups have an end, a middle and a successor; the encoder may turn any frame
  into a keyframe. Two starts, so that the second finds what the first
  left, be it a whole run or a start that failed. Three frames may wait in the encoder, which is more than the overlapping
  calls need. The connection may break at any moment.
* `web_subscriber`: three groups, because a third may arrive while the first is
  aborted and the second waits for its flush; two objects per group, since the
  first counts as key and the second does not; one object unread at a time. The first stream may be reset, and the connection
  lost with all of them. One
  run of the page: what `stop` leaves to the next run is `activeGroupId`, and after
  a new start groups up to that number are skipped.
* `wire`: 70 streams. Integers at both ends of each form (to the browser up to 6
  bytes, the range in which its numbers are exact), namespaces with none, two,
  too many and an empty field, every message, every known and skipped parameter,
  native and browser writers and readers with the relay between them or not. Foreign peers send properties and parameters
  to native programs and to browsers, one reason is longer than `MaxReason` and one
  namespace has an empty field. Of a foreign
  peer's parameters the skipped ones come last: what happens when they do not is
  `skipped_param`. One item, two where the second depends on the place the first
  left the reader at. Bytes arrive one at a time, and a stream may break off after
  each of them.
* `native_track`: the nine scenarios of `MCNativeTrack`, one of them in each initial
  state. Each adds one thing to the plain run of three frames - a second
  SUBSCRIBE, sleeps that are too short, a connection that may be lost, demo mode -
  with as few frames as that takes; two things added at once mostly multiply
  states. Three frames, any of them keyframes, give groups of one, two and three
  objects and up to three groups: a first, a middle and a last. `Room` is 1, so
  that the channel is full whenever the thread is one frame ahead; the demo has two
  groups of one object, one sleep between them and one at the end.

### Fairness

`RelayFairness`: each task that can run is run (tokio), a lost connection makes
`next_event` fail, and tasks get the locks they wait for (tokio's mutexes are
fair). `PublisherFairness`: a publisher that stays connected answers a
SUBSCRIBE; the relay has no timeout and depends on it. In `DataForward`, each
task that can run is run, and a write that cannot fail succeeds: a subscriber
that stays connected and does not cancel reads. Nothing is assumed of peers
that leave, of when SUBSCRIBEs arrive, or of a publisher finishing.
In `WebSubscriber`, `FairSpec` is the browser running every callback that can
run: the receive loop, a group whose object or flush has arrived, the rest of
`stop`, the end of the receive loop after an error. Nothing is assumed of the relay, the
connection or the user. `WebPublisher` has no
liveness property and states no fairness.

`NativeTrack.FairSpec` asks only that some task runs as long as one can
(`WF_vars(Running)`): every task has a last step, since the input ends, so when none
can run each has had all its turns. Nothing is assumed of connections, which may be
lost or not, nor of the other subscriber.

### Statements of the documentation that the code does not live up to

* **`OkBeforeDone`** (`ok_before_done`, `moqt-relay/src/relay.rs:445`). A joining subscriber is entered in the list at 445 and its SUBSCRIBE_OK written at 446-451 without the state mutex; the task that received PUBLISH_DONE takes the list at 504 and may write PUBLISH_DONE first. src/docs/design/overview.md:105 says of the request stream "SUBSCRIBE → SUBSCRIBE_OK/REQUEST_ERROR → PUBLISH_DONE".
* **`FinMeansFin`** (`fin`, `moqt-core/src/stream/data.rs:84`). Any ReadExactError at the first field of an object is taken for the end of the stream, a reset or a lost connection too, and the relay then finishes the copies. src/moqt-core/src/stream/data.rs:74 says "Returns `Ok(None)` on stream FIN (no more objects)." and line 83 "ReadExactError::FinishedEarly indicates stream FIN".
* **`KeyframesStartGroups`** (`keyframes`, `web/src/publisher.ts:102`). src/web/src/publisher.ts:99 says "Keyframe starts a new group", but finish() throws when the current group is closed already: for a keyframe that comes while an earlier one still waits for finish or openSubgroup (102, 111), and for every keyframe after stop and a second start, because stop (121-148) leaves currentGroup and groupStarted as they are. The call ends there, and the frame and its group are lost.
* **`SkippedWithoutError`** (`skipped_param`, `moqt-core/src/wire/parameter.rs:198`). The arms for parameters that are not used end in `continue` (195-233) and so leave `prev_type` (239) as it was; types are deltas, so the next parameter is taken for another type: DELIVERY_TIMEOUT (2) before SUBSCRIPTION_FILTER (33) is refused as type 31. src/moqt-core/src/wire/parameter.rs:15-17 says "The remaining 7 spec-defined types are read and skipped based on their wire encoding so the decoder can advance past them without error."

Three more have no run of their own; the models follow the code, and no property
says the opposite of the document:

* `wire/parameter.rs:17` and `:194` and `docs/design/decisions.md:15` say that a relay does
  not forward parameters; `relay.rs:475` and `:498` send those of SUBSCRIBE and of
  SUBSCRIBE_OK on. `ParametersSurvive` asks what the first reader makes of them.
* `docs/design/moqt-relay.md:17` and `decisions.md:23` say that track aliases are managed
  apart on each side and replaced; `relay.rs:343` and `:498` pass the publisher's on.
  `ReadAsWritten` does not compare aliases behind the relay; that the two places agree
  is `ToldWhatIsRouted`.
* `relay.rs:109` says that `remove_session` removes all namespace registrations; one whose
  task runs later stays.

## 5. Proofs

`RelayProofs.tla` proves, for any sets of sessions, requests, tracks, aliases and
faults, from the assumptions `RoleAssumption`, `FormAssumption`,
`FaultAssumption` and `NoneAssumption` of `Relay.tla`:

| Theorem | States |
|---|---|
| `TypeCorrect` | `Spec => []TypeOK` |
| `AbsenceHolds` | `Spec => []CheckedAbsenceHolds` |
| `ToldIsRouted` | `Spec => []ToldWhatIsRouted` |
| `LeavesAlone` | `Spec => LeavesWithItsSession` |
| `NoneEmpty` | `Spec => []NoEmptySubscription` |

The inductive invariant is built up in layers.

1. `ControlInv` = `Types` and `TaskInv` (a task past `idle` has a message, one at
   `awaitOk` an upstream, ...; with `Types` it gives `TypeOK`) and `LockInv` (a task whose `pc` is in `Locked`
   holds the lock of its track, hence is alone there) and `AbsenceInv` (from
   `lookup` to `awaitOk` the track has no subscription). `CheckedAbsenceHolds`
   follows: only `RecordSubscription` creates a subscription, under the track lock,
   and removal of a session only takes subscriptions away.
2. `UpstreamInv`: an upstream that a task acts on has been answered, and an
   answered upstream keeps its publisher and alias (`UpstreamStable`).
3. `MemberInv`: a subscription is the record of its upstream - publisher, alias,
   OK - and each subscriber's `ok` is that OK.
4. `SentInv`: a SUBSCRIBE_OK that was sent is the `ok` of the task that sent it.

`ToldWhatIsRouted` needs all four: a subscriber that is still in the list was
told its `ok`, which is the subscription's OK, whose upstream has the
subscription's publisher and alias. `LeavesWithItsSession` and
`NoEmptySubscription` use the lemmas on who changes `subscriptions`.

Its second half goes on from there to what the relay does for those it
serves; `TrackAssumption` (tracks have a namespace, a sequence) joins the
assumptions:

| Theorem | States |
|---|---|
| `AnsweredOnce` | `Spec => []OneAnswer` |
| `AllMembersTold` | `Spec => []MembersAreTold` |
| `DataToRequesters` | `Spec => []RoutedToRequesters` |
| `RequestsToAnnouncer` | `Spec => []RoutedToAnnouncer` |
| `AnnouncerIsKept` | `Spec => KeepsItsAnnouncer` |
| `Refinement` | `Spec => ImplementsAggregation` |

1. `SilenceInv` and `AnswerInv` follow a request's answers through its `pc`: before it
   is decided (`Undecided`) it was told nothing and holds no OK; one that never holds
   an OK is told at most one error, last; one that does is told SUBSCRIBE_OK once, at
   one of the two steps `Telling`, and no error. `ReachInv` adds that past those steps
   (`After`) it was told, unless its stream could not be written. `MembersAreTold`
   follows from this and the record of members, `MemberInv`.
2. `OriginInv`: the upstream of a subscription was opened for a request for its track,
   under the guard of that track; so data goes to those who asked for it.
3. `AnnouncerInv`: who is registered has announced, and every upstream went to a
   publisher that announced a prefix. `FindPublisher` takes the longest prefix that is
   registered; that there is a longest is the least-element principle of the library
   (`LeastNumber` and `GreatestNumber` of `SequenceLemmas.tla`), which speaks of a set
   and not of an operator and can be cited where induction cannot. `AnnouncerIsKept`
   needs no more than the types: of the steps, two write `nsPublisher`.
4. `HolderInv`: who holds the guard of a track stands at a `Locked` program counter, with
   a message for that track. `Refinement` shows action by action that a step of the
   relay is one of `TrackAggregation` or leaves `opening`, `serving` and `members` as
   they are: finding no subscription under the guard begins an opening, recording one
   establishes it, the aggregated path joins, letting go of the guard without one
   gives up, the removal of a session is a `Leave`, and everything else stutters.

`DataForwardProofs.tla` proves of the data plane, for any sets of subscribers,
groups, leavers and cancellers and any number of objects, from `BoundAssumption`
and `SubscriberAssumption` of `DataForward.tla`:

| Theorem | States |
|---|---|
| `TypeCorrect` | `Spec => []TypeOK` |
| `Complete` | `Spec => []CompleteCopies` |
| `OneObject` | `Spec => []HoldsOneObject` |
| `Refinement` | `Spec => ImplementsCopy` |

Its inductive invariant is `ForwardInv`: `TaskInv` (`TypeOK` and `ProgressInv`,
where a task stands and how far it has read) and, for every copy of every
stream, `FaithfulCopy`. `CompleteCopies` alone is not inductive, because it does
not say how a copy that is still being written relates to what the task has read:
a subscriber in `writers` has exactly `read[g]` objects, one still in `todo` of a
`write` one less, and a copy finished by the relay has all that was read before
the source ended. The action lemmas are one per step of `handle_data_stream`;
`Refinement` adds to them that each step changes at most one copy of a stream as
`StreamCopy` allows, or finishes those of its stream together, and leaves the
others as they are. A stream that was finished may still be cut with its connection,
until its task is done; so `FaithfulCopy` promises a finished copy the whole group only if
its stream was not cut.

`NativeTrackProofs.tla` proves of a track's way from
moqt-pub to moqt-sub, for any number of frames, any keyframes, any room in the
channel, any size of the demo and any set of scenarios, from `PublisherAssumption`,
`ScenarioAssumption`, `StreamAssumption`, and of `Session.tla` `NoneAssumption` and
`RequestAssumption` (the value for "none" is no request):

| Theorem | States |
|---|---|
| `InOrder` | `Spec => []FramesInOrder` |
| `AtKeyframes` | `Spec => []GroupsAtKeyframes` |
| `Counted` | `Spec => []CountedStreams` |
| `TypesCorrect` | `Spec => []TypeOK` |
| `InTurn` | `Spec => []PlayedInTurn` |
| `ToTheEnd` | `Spec => []PlayedToTheEnd` |

`FramesInOrder` looks only at what was written; whether the next object fits
depends on where it is now. `PublisherInv` adds that, in parts.

1. `PipeInv`: the channel holds the frames after `frame`, one by one, and the frame
   in the thread's hands, if there is one, is the next; `streamCount` is `groupId`
   while frames are taken. `DemoInv` is its counterpart: `frame` is
   `groupId * DemoObjects` and the objects of the group so far.
2. `StreamInv`: groups below `groupId` are finished and not empty, those above
   it not opened, and `currentGroup` is `groupId` or none.
3. `OrderInv`: the last object written, in this group or, if it is empty, in the
   one before it, is `LastWritten`: `frame`, or the one before it while `frame` is
   in hand. With 1, `WriteNext` extends `FramesInOrder` by one object.
4. `KeyInv`: a frame in hand for an empty group is a keyframe, unless the group is
   the first; one in hand for a group that has objects is not. What was written
   is not above `input`, so a frame that is read later does not change it.

`Counted` adds `DoneInv`. It follows a PUBLISH_DONE from `SendPublishDone` to the
subscriber: `NoNewDone` says of every other step that a PUBLISH_DONE on its way was on
its way before (the relay hands the publisher's on), and the sender opens and
finishes no stream afterwards. That the count is right when the loop ends
(`DoneReached`) is a count of an interval, by `StreamInv`. `TypesCorrect`
needs all of this for the publisher's part, and little more for the others.

`InTurn` follows an object from moqt-pub's stream through the relay's copy into what
moqt-sub puts out. `PlayInv` has, beside the types, a part for each hand on the way.

1. `CopyInv`: a copy holds the first objects of its stream, as many as its task has
   read while it copies, and none before the subscription is looked up; a finished
   copy has them all, unless the publisher's connection is down.
2. `QueueInv`: a stream waits in a queue once, before its group has a task; a copy
   waits once, after its group was looked up and before it is taken. So no group
   is taken twice, although streams are numbered by group.
3. `ReadInv`: only of groups that were taken something was read, of none more
   than its copy has, and the one that is read is the last one taken.
4. `OutInv`: `out` is the concatenation of the pieces read. Taking a group adds an
   empty piece, reading an object lengthens the last; streams only grow (`Grown`), so
   the other pieces stay what they are.
5. `WholeInv`: of an undisturbed track every group but the one that is read is
   finished and read to its end. `EndOfGroup` has this from 1, and a finished
   stream does not change any more.

`ToTheEnd` asks in addition who has left when, and what they had heard by then. For
scenarios of the property (`Calm`: pipe mode, sleeps long enough, no faults)
`CalmInv` says:

1. `LeaveInv`: a connection is down only because its own client has closed it, and
   moqt-pub did so when the relay had read all its streams and the request it took.
2. `AskInv`: there is one SUBSCRIBE of moqt-sub, and it is in one place: not sent,
   with the relay, or upstream; until then nobody has been told anything.
3. `ServedInv`: if moqt-pub took that one, the task of the relay, moqt-pub and
   moqt-sub are in one of four joint positions (`AwaitsOk`, `ForwardsOk`, `AwaitsDone`,
   `Over`), each with what may be on the way between them. So moqt-sub hears
   SUBSCRIBE_OK, then PUBLISH_DONE, and leaves for no other reason. A request that
   `remove_session` drops comes after both.
4. `EndsRight`: a copy ends with its stream, also after moqt-pub has left, because
   no task was open then.
5. `EndedInv`, with `CopyWaits` (a copy waits in the queue or was taken): when moqt-sub
   closes its connection the queue is empty and nothing is being read, so by
   `Whole` all that was copied is put out; afterwards the relay opens no copy, and
   nothing that is finished changes.

Only the steps that touch the SUBSCRIBE, its answers or a connection need a lemma
for 1 to 3; `ControlKept` and `OtherControls` are for all the others.

`FlattenSeq` of the community modules is a recursive function under a CHOOSE, so
`SequenceLemmas.tla` first shows that the function exists and that there is only one
(`FlatExists`, `FlatUnique`, both by the least number at which it would fail), and
then what it gives for a sequence with one more element (`FlattenAppend`).

`WebPublisherProofs.tla` and `WebSubscriberProofs.tla` prove of the browser clients, for any number of frames, streams, objects and runs of
the page, from `PublisherAssumption` of `WebPublisher.tla` and `SubscriberAssumption`
of `WebSubscriber.tla`:

| Module | Theorem | States |
|---|---|---|
| `WebPublisherProofs` | `InOrder` | `Spec => []StreamsInOrder` |
| | `KeyframesInFront` | `Spec => []KeyframesLead` |
| | `OneStreamPerGroup` | `Spec => []LaterGroups` |
| | `TypesCorrect` | `Spec => []TypeOK` |
| `WebSubscriberProofs` | `TypesCorrect` | `Spec => []TypeOK` |
| | `InOrder` | `Spec => []DecodedInOrder` |
| | `RefusedByStop` | `Spec => RefusesOnlyWhenStopping` |

`PublisherInv` of the browser follows a frame through the encoder and its call.
`QueueInv`: the frames in the encoder are the last ones, one by one, and only frames
before them have calls; so the frame that comes out is newer than all that were
written. `CallInv`: a call waits to open exactly the stream that bears its name, a
call that waits for the end of a group has none yet, and `currentGroup` is a stream
that is open or was. `ObjectInv`: what is in a stream was written by a call that is
done, so a frame cannot be written twice; and a keyframe is the first object of its stream
(`KeyframesAtHead`). With `OneStreamPerGroup` that is `KeyframesLead`: a group after the
first has no other stream in which an earlier frame could be. `GroupInv`: no stream has a group above
`groupId`, and until `groupStarted` is set there is only group 0 - which is why calls that
overlap there may open several streams for it, and `LaterGroups` begins with group 1.
The bounds in `TypeOK` are counted in `CountInv`: there are as many later groups as
streams opened for them, and the calls that wait for the end of a stream, `stop`
among them, stand for the streams that are finished and not yet counted.

`SubscriberInv` rests on `ActiveInv`: of the tasks that were not told to stop, only
the one `receiveLoop` started last is running, since it aborts the one before in the
same step. `DecodedInv`: nothing after that group has been decoded, and of that group no
more than its task has read; a newer group is then in order with its first object.
`LastInv`: unless the decoder wants a key, the last chunk it was given is the last
object the active task read; the next one follows it. `KeyInv`: unless `stop`
flushed the decoder, it wants a key only before the first object of the
active group, hence `RefusedByStop`.

`WireProofs.tla` proves of the codecs of moqt-core, for any limits below `Huge`
(`LimitAssumption` of `Wire.tla`), and of any streams whose integers are u64
(`StreamsAssumption` of `WireStream.tla`):

| Theorem | States |
|---|---|
| `VarintRoundTrip` | `DecodeVarint(EncodeVarint(u) \o rest) = Parsed(u, rest)` |
| `Shortest` | `DecodeVarint(b) = Parsed(u, rest) => Len(EncodeVarint(u)) <= Len(b)` |
| `MessageRoundTrip` | `Decode(Encode(m) \o rest) = Parsed(m, rest)` |
| `HeaderRoundTrip` | the same of `DecodeSubgroupHeader`, but for `firstObject` |

`VarintRoundTrip` has the prefixes and the room of each form (`Forms`), that the ranges
of first bytes do not overlap (`OneForm`) and that masking the prefix off gives the bytes
back (`Unprefix`). `Shortest` is about all byte strings a peer may send: what is read from
a form of `len` bytes fits that form (`ReadFits`), and the encoder takes the least that fits.

`MessageRoundTrip` has one lemma per kind of field, each for every byte behind it.
A decoder that repeats a step is a recursive function under a CHOOSE, whose steps
depend on what was read before (a parameter's type is a difference to the last
one). `Progress` is where such a reader should be after each element; `ProgressSteps`
gives its steps for any encodings; that it solves the recursion, and that every solution
ends with it, is `AgreeAtTheEnd`, again by a least number. Key-value pairs end with the
buffer and are read as often as there are bytes, so `LongEnough` says that there are not
more pairs than bytes.

Its hypotheses are what the code needs. `Encodable(m)` is what `encode` checks.
`Messages` are the values of the structs: parameters only of the types this
implementation writes, a reason of at most `MaxReason` bytes and a pair's value of at
most `MaxValue` (`encode` checks neither length, `decode` both). `FitsLength`: above 65535 bytes the length of the frame is
cut off by the cast to `u16` (`mod.rs:74`), and the message is not read back.
`Huge` stands for lengths that do not fit any buffer.

`WireStreamProofs.tla` proves of the streams that `Proper` describes, of any length and
with any values, what `WireStreamProperties` says of all streams, from the same
assumptions:

| Theorem | States |
|---|---|
| `ReadAsWrittenHolds` | `Spec => [](Proper(stream) => ReadAsWritten)` |
| `NothingRefusedHolds` | `Spec => [](Proper(stream) => NothingRefused)` |
| `EndsCompleteHolds` | `Spec => [](Proper(stream) => EndsComplete)` |
| `ParametersSurviveHolds` | `Spec => [](Proper(stream) => ParametersSurvive)` |
| `StreamTypeCorrect` | `Spec => [](Proper(stream) => TypeOK)` |

A proper stream has one native reader, or the relay and one behind it, and is one of
two kinds. 29 of the 70 streams of `MCWireStream` are proper, two of them with
messages that `encode` refuses.

* Requests: messages of this implementation, as in `MessageRoundTrip`. If the relay
  reads them, its own SUBSCRIBE fits its frame too, and the SUBSCRIBE it reads has
  `required_request_id_delta` 0, as every one this implementation sends: the relay's is
  a new request and does not repeat it.
* Data: a header and objects, written by moqt-core, by the browser or by another peer.
  Objects have properties only if the header says so. Another peer writes
  its object id deltas in eight bytes and says "named after its first object" only of
  a subgroup that is not named otherwise.

The argument is about where a reader is. An item is the flattening of its parts, a part
being what the code reads at a time: an integer, whose first byte tells its length, or as
many bytes as the parts before say. `PlanFits` is that the model's plan for the next
part is right, after any number of parts of any item. Then the bytes a reader has not
used are the other parts of its item (`Within`) and all items behind it (`Between`), and
this does not mention how many of them have arrived. A read keeps it by
`MoreIsRead` (one part more) or `ItemDone` (the parts are all there and decode to the
item, by the round trips of `WireProofs`); a stream that ends in between was cut off
(`CutOffIs`), and a clean end is the end of the last item (`NothingLeft`).

`HopInv` says it of one stream: its bytes are those of its first `k` items, and its reader
has read the first of them. `StreamInv`, the inductive invariant, joins both streams:
`k` is `written` in the first and what the relay has read in the second, or less if that
was reset (`SecondHas`); and it says why a reader has stopped (`EndInv`). There is one
lemma per action.

`ParametersSurvive` speaks of the first reader; what the relay forwards is not part of it.
`ParametersKept` is a recursive function and not a `SelectSeq` because the prover
does not know what that gives. What no proper stream has, a parameter this
implementation does not write, is dropped by the decoder under TLC only.

Only model-checked: liveness (out of the prover's reach), and what `WireStreamProperties` says of the streams that are not `Proper`: those with
a reader in the browser, and requests that the browser or a peer which uses more of
the draft than this repository has written.

## 6. Not modelled

* `client.rs`, `quic_config.rs`, command lines and certificates: library calls, done
  before a session exists, with no state of their own.
* The IVF format in `moqt-pub` and `moqt-sub`: a frame is its number and whether it is
  a keyframe. A header
  or a frame that is cut off ends the thread as the end of stdin does.
* Request ids (except that each end counts its own, in `Session`) and `required_request_id_delta`: written and read, and used for nothing.
* Starts of the browser clients that overlap, and for the subscriber a start that fails half
  way: their buttons are disabled only at the end of `start`.
* GOAWAY and the control stream after SETUP: the code keeps the handles and
  does nothing with them.
* The numbers of the wire limits (32 fields, 1024 and 65535 bytes) are constants
  of `Wire`, small in the instance. A message longer than 65535 bytes, whose
  length the code cuts to 16 bits (`wire/mod.rs:74`), is described by `EncodeMessage` and
  does not occur in the instance: `NothingRefused` would be false of it, and the theorems
  exclude it by `FitsLength`. Sums of types beyond 64 bits are left out.
* Logging, the texts of reason phrases, the meaning of status codes.
