# dep_srpc: a verification project

`dep_srpc` is a header library for small RPC systems in C++: asynchronous
transports over boost/std asio, acceptors and connectors that create them, delegates
that cut byte streams into messages, and the utilities these are made of (signals,
waitable queues, timers, buffer caches, length prefixes). `tst` holds a program
built the same way, a tunnel between tun/tap devices. This directory holds TLA+
models of them, the TLC runs that check the models and proofs that TLAPS checks. The
source tree is `../src`; paths below are relative to it (the first column of the table
below gives short names for what is under `include/srpc`).

## 1. The system

| component | source | state | operations | module |
|---|---|---|---|---|
| stream transport | `include/srpc/common/transport/async/{base,stream,tcp}.h` | strand, write queue, read buffer, `active_`, delegate | write, read, close | `StreamTransport`, `WriteChannel` |
| datagram transport | `.../transport/async/udp.h` | the same, plus the peer of the last datagram | write, write_to, read, read_from, close | `UdpTransport` |
| udp acceptor | `server/acceptor/async/udp.h` | one datagram transport, a map of endpoint to virtual client; per client a read queue and a cache | bind, start_accept, close; client read/write/close | `UdpServer` |
| buffer cache | `common/cache/*` | queue of free buffers | get, push | `BufferCache` |
| tcp acceptor, listener, connector | `server/acceptor/async/tcp.h`, `lib/server/listener/*`, `client/connector/async/*` | acceptor socket; signals; the current transport | start, stop; connect, close | `Connections` |
| observers | `common/observers/base.h` | three lists of slots under two locks | connect, unsubscribe, emit | `Observers` |
| subscriptions | `common/observers/{subscription,scoped-subscription}.h` | pointers to unsubscribers | copy, move, swap, release, end | `Subscriptions`, `Guards` |
| linked list | `common/details/list.h` | nodes linked both ways, a count | push, erase, splice, swap | `LinkedList`, `Items` |
| waitable queues | `common/queues/*` | map of slots, each a queue with a condition variable | add/erase/cancel slot, push, read with time-out | `ConditionQueue`, `Mailbox` |
| message delegate | `transport/delegates/message.h` | bytes not yet cut | on_data | `MessageFraming` |
| stream delegate | `transport/delegates/stream.h` | what is left of the current stream | on_data | `StreamFraming` |
| length prefixes | `common/sizepack/*` | none | pack, unpack, length | `Sizepack` |
| binary protocol | `common/protocol/binary.h` | transport, message cut | on_message, errors close | `BinaryProtocol` |
| periodical timer | `common/timers/periodical.h` | deadline timer, `enabled_` | call, cancel | `PeriodicalTimer` |
| tunnel | `tst/{server,client}.cpp`, `tst/async-reader.hpp` | device queues, connections, the map of clients | read and write devices, broadcast | `PointIface`, `Tunnel` |
| rpc controller, the rest | section 12 | - | - | - |

How they interact: users and handlers call transports; a transport posts to its strand
and calls asio; asio completes on the strand; the strand calls the delegate. Delegates
cut messages and ask for the next read; the protocol checks messages and closes the
transport on an error. Acceptors and connectors make transports and hand them on through
signals. All of it runs on the threads of one or several `io_service`s.

### What is hard in it

* **Two sources of order.** Users call `write`, `read` and `close` from any thread;
  everything they ask for runs later on a strand, between the completions of the
  socket. The socket splits messages as it likes.
* **Two kinds of pointers.** Write handlers hold the transport (`shared_from_this`),
  close and read handlers only weakly. What still happens after the user has dropped
  the object, or after `on_close`, depends on which is pending.
* **Errors that go on.** A failed write is reported and the queue goes on with the
  next message; a close of a stream strands whatever is queued, that of a datagram
  socket drains it with errors; `on_error` posts a close and goes on reading.
* **Signals that change while they are emitted**, from any thread, and a clean-up that
  works on a copy of the set of unsubscribed numbers.
* **Shared endpoints.** The virtual clients of the udp acceptor share one socket, one
  `ep_` and one receive buffer, and are found again by their address.
* **Things done twice, or too late**: a second `connect()` before the first is answered,
  a listener restarted while an accept is being handled, a timer called or cancelled while
  its handler is about to arm it again, a reader whose time is up when its value comes.

`PROJECT.json` lists the hazards at their lines, each with the properties about it.

### The runs

| run | module | about |
|---|---|---|
| `stream` | `MCStreamTransport` | section 2 |
| `stream_callback_after_close` | `MCStreamTransport` | ends in a counterexample: section 2 |
| `udp_server` | `MCUdpServer` | section 3 |
| `connections` | `MCConnections` | section 4 |
| `observers`, `subscriptions`, `linked_list` | `Observers`, `Subscriptions`, `LinkedList` | section 5 |
| `queues` | `ConditionQueue` | section 6 |
| `framing` | `MCBinaryProtocol` | section 7 |
| `framing_empty_message` | `MCMessageFraming` | ends in a counterexample: section 7 |
| `timer` | `PeriodicalTimer` | section 8 |
| `tunnel` | `MCTunnel` | section 9 |

One run per question, with safety and liveness together under the fair specification. Its
properties are conjunctions of named parts; the sections below name the parts too, since they
are what a counterexample is about. Every property has a mutant: an operator of the module,
named `Mutant...` and placed before the one it replaces, with a plausible bug, for which the run
fails. Each run takes at most three minutes with two workers. `CHECK_DEADLOCK FALSE` stands
where the system may come to rest: everything asked for is answered and the bounds are used up.

## 2. Stream transport: `StreamTransport.tla`

The transport is modelled at the granularity of its handlers: a strand runs one handler
at a time, so a handler is one action; what the user's threads and the socket do in
between are actions of their own.

| model | code |
|---|---|
| `strand` | `dispatcher_`: what was posted or completed and has not run, in order |
| `queue` | `write_queue_` |
| `ops` | calls of `async_write_some` without an answer. The code means to have at most one; the model would show two |
| `active`, `held`, `Alive` | `active_`; the user's `shared_ptr`; the lifetime that follows from it and from the handlers that hold the object |
| `Write`, `Close`, `Read`, `Release` | the user's calls, at any time, from any thread |
| `WriteTaken`, `WriteRefused`, `ReadAnswered` | the socket: takes any part of the buffer but nothing of it, or fails; it fails for certain once closed |
| `WriteImpl`, `WriteHandlerPartial/Done/Error`, `CloseImpl`, `ReadHandler` | `write_impl`, the three branches of `write_handler`, `close_impl`/`close_unsafe`, `read_handler` |
| `accepted`, `completed`, `wire` | history: writes posted, `post_call`s made, bytes the socket took |

A write that fails may be followed by one that succeeds: the stream type is a template
parameter and nothing in the code stops after an error. A user of the model starts a
read only when the previous one has been delivered, as all delegates of the library do
(`on_need_read` at the end of `on_data`). The delegate is set before the first callback;
the constructor leaves `delegate_` uninitialised, so a callback before that is undefined.

`WriteChannel.tla` is the abstract specification: a FIFO channel that sends messages byte
by byte, reports each once and in order, success only when all of it was sent, and after
it shuts reports at most the one in flight.

**Properties** (run `stream`): `QueueDiscipline` - one operation on the socket
(`OneOperation`), for the front of the queue (`FrontInFlight`), and always one while there is
something to write on an open socket (`NothingStalls`). `DeliveredInOrder` - every message in
exactly one place, in order (`Conservation`); what the peer receives (`WireInOrder`,
`CutOnlyWithError`); a transport dropped while open finishes what it accepted
(`NothingLostByRelease`). `ClosedForGood` - `on_close` once (`ClosedOnce`), and after the
report of the message in flight nothing more: queued and later writes never hear of it
(`ClosedQueueIsFrozen`). `ImplementsChannel` - the refinement. `WritesAndClosesSettle` - every
write is reported or the transport closed; a close that was asked for happens while the
object lives.

**Bounds.** Messages of 3, 1 and 0 bytes, each written at most once, in any order: three
is the least that shows a continuation of a continuation (partial, partial, rest) and a
queue with something in the middle; zero is the boundary of `bytes < length`. Two closes
show the second finding the socket closed, two reads one before and one after the close.

**Fairness.** `io_service::run()` executes every ready handler (`WF` of `RunStrand`), the
socket answers every write, because the peer reads or the connection breaks
(`WF` of `WriteAnswered`), and aborts reads of a closed or destroyed socket. A read on an
open socket need never be answered.

**What the code does not keep.** `stream_callback_after_close`: `on_close` is called while
handlers are pending; their errors reach the delegate after it. The delegates of
`test/server/main.cpp` delete themselves in `on_close`. Besides, after a partial write
`post_call` gets the size of the last piece only (`stream.h:180`), which a comment in
`test/client/main.cpp:87-88` takes for the bytes sent of the message; the model reports what
the code reports and has no run for it.

## 3. Datagram server: `UdpTransport.tla`, `BufferCache.tla`, `UdpServer.tla`

`UdpTransport` is `async::udp` with its strand; its delegate is whoever extends it: the
handlers take the tasks the delegate posts as an argument. `UdpServer` extends it with the
acceptor, its client objects and an application like that of `test/server/main.cpp`, which
closes a client on its read error and may read, write, close and close the acceptor whenever
it likes on the io thread. `BufferCache` is the cache that each client takes its buffers from.

| model | code |
|---|---|
| `strand`, `queue`, `ops`, `receiving`, `ep`, `active` | `dispatcher_`, `write_queue_`, the pending send and receive, `ep_`, `active_` |
| `clients`, `client` | `clients_`, from address to object; the objects with `read_`, `read_queue_`, `cache_`, and what they were asked and told |
| `heap` | contents of the buffers: a buffer is a number, so that one used twice is seen |
| `OnData`, `AcceptClient`, `IgnoreData`, `PushDataImpl`, `SetReadImpl` | `accept_delegate::on_data` by its cases; the two tasks it and `read()` post |
| `SendDone`, `SendError`, `OnReadError`, `TransportClose`, `ClientCloseImpl` | the handlers and the delegate's callbacks in them |

**Properties** (run `udp_server`): `SendsInOrder` - one send at a time for the front, reported
in the order of the calls, also after a close (`SendsTheFront`, `DatagramsConserved`).
`ReceivesInOrder` - a client gets its own peer's datagrams, in order, once, from buffers that
are in one place at a time (`DeliveredInOrder`, `BufferInOnePlace`), and misses one only when its
queue is full (`LostOnlyWhenFull`). `KeepsListening` - the one receive of all clients is renewed
whatever became of the datagram. `CloseAccounted` - `on_close` at most once per client, and no
more often than a peer's clients asked. `EverythingSettles` - datagrams are reported, closes are
told, what waits is delivered to a client that reads.

What is as it is, and is modelled so: a failed receive is not renewed and silences the server
(`on_read_error`, `udp.h:182`); read and write errors go to the client that sent the *last*
datagram; a close goes by address, so a second close of a client may end the next client of
its peer; `accept_` is not initialised (either value in the model).

**Bounds.** Two peers with traffic `<<p1, p2, p1>>`: a late answer for one meets the address of the
other, and the first comes back after its close. Two writes (one in flight, one queued), one
close per client and a close of the acceptor, one failed receive, one buffer in each cache
(ten in the code), and calls only while at most one task is posted (a close: two), which bounds
the strand without bounding how often calls and handlers alternate. `Keeps = {1}`: of the first client the
application keeps a pointer after `on_close`, as the test server does in `gclients`, so that late tasks still
find the object; those of later clients find nothing.

**Fairness.** One condition, for the strand, the answers to sends and the application's reads
together: between two datagrams there is only so much of it. Nothing is assumed of arrivals,
failures and calls.

**Not in it.** The acceptor is closed on the io thread; from another thread
`clean_clients` (`udp.h:351`) races with the strand for the map. `push_to_queue` (`transport/async/udp.h:213`)
binds a raw `this`; the owner holds the transport here. The acceptor's destructor is left out.
A client's delegate is taken to live as long as the client; those of the test server delete themselves in
`on_close` though `gclients` keeps the client, and a late `on_data` would meet freed memory.

## 4. Connections: `Connections.tla`

The tcp acceptor with its listener, and one connector per client, over a network that makes
or refuses connections, and keeps a backlog. A connection that is up ends when one side closes or
drops it. `start`, `stop`, `connect`, `close` and the
dropping of either side happen at any time, from any thread; `connect` also before the last one was
answered. A handler that holds its object weakly does nothing when that is gone.

| model | code |
|---|---|
| `listening`, `pending`, `accepted`, `rearm` | state of `acceptor_`; async_accepts waiting; completed; handlers between `on_accept` and the next `start_accept` |
| `socket`, `client`, `alive`, `taken` | each transport; `client_` of a connector; who still holds connector and transport |
| `replies`, `answers`, `closing` | completed connects; `on_connect`/`on_connect_error` calls; `close_impl` tasks |

**Properties** (run `connections`): `ListenerConsistent` - every accept begun is pending, completed
or about to be renewed, none lost or doubled by a stop and restart (`ChainsConserved`), and each
connection is offered once, in order (`OfferedInOrder`). `ConnectorConsistent` - whatever a client
holds as connected the server has or will get (`BothEndsAgree`); each `connect()` is answered at most once (`AnsweredOnce`);
and a connector at rest whose transport is connected has reported that transport (`CurrentIsTold`). On the
way there it may report another: the handler of an earlier `connect()` reports `client_`, which a later one has
replaced, connected or not (`templ.h:50`); the model does the same and no property forbids it.
`ConnectAnswered`, `ListenerSettles` - each connect is answered while the connector is held;
a listener that goes on offers every connection, one that is stopped ends.

**Bounds.** Two clients, one of which connects twice; two starts (a restart); a backlog of one
(five in the code), so that it fills; two upsets - stops, closes, drops, failures - in any
combination. **Fairness.** Ready handlers run and the network answers.

## 5. Signals: `Observers.tla`, `Subscriptions.tla`, `LinkedList.tla`

`Observers` is the inside of a signal. A slot is its number. `connect` and `unsubscribe` are one
action each (one critical section of `tmp_lock_`); because they take only that lock, a slot that calls
them during an emission is no different from another thread, and they are enabled at every step. The
emission holds `list_lock_` throughout, hence one emission at a time; its steps are
`EmitBegin` (splice), `DropRemoved`/`CallSlot` (one `is_removed`), `SlotReturns` or
`SlotThrows`, `SwapRemoved` and `ClearOne` (`clear_removed`, one number of the copied set
per step) and `EmitEnd`. `remove_by_index` is modelled by where its walk stops, from the
end the code chooses.

**Properties** (run `observers`): `SlotsAccounted` - the order the searches rely on and the marks of
all that were unsubscribed (`InOrder`, `GoneIsMarked`). `EmissionRight` - none lost, all called that
were there at the start, in order, no other (`NoSlotLost`, `EmissionComplete`, `CalledInOrder`).
`NoCallAfterUnsubscribe` speaks of the decision to call, the answer of `is_removed`: the
call itself comes after `tmp_lock_` was released, so an unsubscribe from another thread
that returns in between does not stop that one call. `EmissionEnds`.
Four slots: `remove_by_index` chooses either end
only with three in `added_`, and the fourth can be connected during an emission of the
others. The number of emissions is not bounded. *Fairness:* the emitting thread runs and each
slot it calls returns or throws. Slots of the model do not emit: `list_lock_` taken twice in a
thread stops it (default mutex) or leaves the outer walk on freed memory (recursive one).

`Subscriptions` is what users hold: `subscription`, which may be copied and forgotten, and
`scoped_subscription`, which ends what it holds, with every constructor, assignment, swap, reset and release,
while the signals are cleared and moved under them. It implements `Guards` (`ImplementsGuards`):
a guard owns one subscription at most and ends exactly that. `SlotsKept`: no guarded slot is
left without a guard (`NoSlotEscapes`), and each slot is in one signal (`SlotInOneSignal`). Two signals,
two handles of each kind and three slots: enough to swap, and to own something that is replaced by
something else while a third is about.

`LinkedList` is `details::list` pointer by pointer on a heap that two lists share, as `list_` and
`added_` do, with one iterator. It implements `Items` (sequences and a cursor; `ImplementsItems`); links, ends and
counts agree in both directions (`LinksAgree`), and the iterator never stands on a freed node nor is one lost
(`NothingDangles`). Three nodes: a first, a last and one in the middle. `clear()` leaves `size_` alone,
which only its one caller, the destructor, makes harmless; the copying constructors are used nowhere.

## 6. Waitable queues: `ConditionQueue.tla`

RPC callers wait on a slot of `queues::condition` for their answer; another thread pushes
it. Every mutex section is an action of the thread that takes it: finding the slot (under
`map_lock_`) and using it (under the slot's `lock_`) are two, so a slot can be erased in
between and its threads go on with the pointer they have.

| model | code |
|---|---|
| `keyOf`, `map`, `data`, `canceled`, `sweep` | the slots ever made; which are in `map_`; `data_` and the cancel flag of each; what `cancel_all` has still to do |
| `pc`, `at`, `arg`, `result` | where each thread stands (about to push to the slot found, before or in `cond_`, woken, out of time), its slot, its value, what it was given |
| `AddSlot`, `EraseSlot`, `CancelSlot`, `CancelPointer` | the same-named calls; `cancel_slot` through the map or on a pointer |
| `CancelAll`, `CancelNext` | the loop of `cancel_all`, one slot per step with `map_lock_` held |
| `StartPush`, `Push`; `StartRead`, `Wait`, `SpuriousWake`, `Expire`, `Return` | `push_to_slot`; `read_slot` and `read_for`: `wait_for` with a predicate, which tests it a last time when the time is up |
| `IsFront`, `Pop` | the traits `simple` and `priority` |

`Mailbox.tla` is the abstract specification: boxes that hold what was put in, answer each
question once, with the front of the box, "shut" or "nothing", and "nothing" only while the
box is empty and open. It knows no map, no locks, no waiting and no wake-ups.

**Properties** (run `queues`): `NobodyLeftWaiting` - nobody sleeps on a slot that holds a value or
is cancelled unless someone has been woken for it (`NoLostWakeup`), nor on a slot that left the
map (`WaitersAreReachable`). `ErasedGivesNothing`: values come only from the slot that is at its key, so
threads that meet on one erased, or replaced by a new slot of the same key, exchange nothing. `ImplementsBoxes`:
the refinement, with its fairness. `AnswersReaders`, `CancelReleasesReaders`, both without the help of time-outs.

**Bounds.** Three threads: with a pusher and two readers `notify_one` can wake the wrong
one. One key and two slots: enough to erase a key and add it anew while a thread holds the
old pointer. Two values and the priority trait, which disagrees with the order of the pushes; for
the other trait, more keys and any number of threads the safety part is proved (section 10).

**Fairness.** Each thread that is not asleep runs on and gets the locks it asks for; no
reader is assumed to time out, and none to wake spuriously.

## 7. Messages: `Sizepack.tla`, `MessageFraming.tla`, `StreamFraming.tla`, `BinaryProtocol.tla`

`Sizepack` holds the prefixes as functions on sequences of bytes: `varint` (the low bits
first, a bit in each byte for "more") and `fixint`. `MessageFraming` is
`delegates::message`: a peer writes frames as `insert_size_prefix` of the binary protocol
makes them, the transport delivers any part of what is on the way, `OnData` is the start
of `on_data`, and each turn of its loop is `CutMessage`, or the last one, `NeedRead` or
`RefusePrefix`. The peer may end with bytes that are no frame. `ProtocolAssumption` is that no
message of the binary protocol is empty: each ends in its checksum. `StreamFraming` adds the stream
delegate and gives it the same pieces. `BinaryProtocol` composes them with `protocol::binary`
and the part of the transport under it that matters here: one strand on which pieces of data,
closes and failed reads are tasks in the order posted. It checks the sum at the end of each
message, hands on what is right, and on an error posts a close, returns into the loop and
reads once more.

**Properties** (run `framing`): `CutWhereJoined` - what is delivered, buffered and travelling is
what was sent, wherever it was cut, and the delegate asks for more only if the next message is
incomplete or too long (`DeliveredAsSent`, `EveryByteInPlace`, `WaitsOnlyForBytes`). `InStep` - both
delegates find the same messages. `DamageContained` - what is handed on is right, in order, and
what follows an error ends with one more piece at most (`HandedOnIntact`, `OneLatePiece`).
`EveryMessageHandedOn`, `ErrorsEndIt` - an undamaged message arrives, also together with the
end of the stream; errors end the reading. `MCBinaryProtocol` also evaluates, as an assumption,
that pack and unpack of a varint are inverse for every size of the run; `PackRoundTrips`
(section 10) proves it of both policies and of any width, but for a varint of 0.

**Bounds.** Bytes of three bits and sizes of five keep what matters of eight and 8..64: the
number of bits is no multiple of what a byte carries, a prefix has one, two or (garbage)
more bytes, and a byte of a message can look like one of a prefix. Three messages out of an
empty body, one with a prefix of two bytes, a damaged one and one that is too long; a read
delivers one to five bytes, across the ends of frames. The checksum is one byte of the sum.

**Fairness.** One condition: the network and the io_service go on while there is something to do.

**What the code does not keep.** `framing_empty_message`: `packed_length(0)` is 0 where `pack(0)` writes a
byte, so an empty message gets no varint and never arrives (the binary protocol sends none: a
checksum is always there). Besides, and without a run: the check for a prefix longer than `max_length`
works only until its last byte is there; the result of the shifts is then undefined, any size in
the model. A length that `validate_length` refuses ends the loop of the message delegate
without `on_error`; in the stream delegate (`stream.h:71`) it leaves half a prefix in `tmp_`. An empty
message begins a stream that never ends. `insert_prefix` (`binary.h:151`) returns the size of the prefix alone;
nobody calls it.

## 8. Timer: `PeriodicalTimer.tla`

`call()` sets the deadline, `enabled_` and the wait in three steps, the handler re-arms in two, with no
lock around them; threads call and cancel in between. Each `call()` begins a chain of waits and
handlers. Properties (run `timer`): `DoneIsDone` - a cancelled chain ticks once more at most, a handler told of an error is
not called again (`OneLateTick`, `ErrorIsLast`); `KeepsTicking` - a timer that stays enabled goes on
ticking; `CancelSilences` - one that stays cancelled becomes silent. Two threads, four calls and
three cancels: a call, a cancel and another call in the middle of the handler, twice. *Fairness:*
the io thread runs, time passes, a thread that is in `call()` returns from it. The timer outlives its
handlers (they bind a raw `this`), and setting the deadline succeeds.

## 9. Tunnel: `PointIface.tla`, `Tunnel.tla`

`PointIface` is the writing side of `point_iface`, through which the tunnel writes to its devices: a
strand, a queue, one `async_write_some`. `Tunnel` is the server and the client programs of `tst/` around it: what the server reads
from its device it sends to every client, what a client reads goes to the server, what comes over a connection is written
to the device. Transports and framing are taken at what sections 2 and 7 show of them.

**Properties** (run `tunnel`): `EachGetsItsPackets` - packets in order (`PacketsInOrder`), clients are served exactly
while connected (`ServedWhileConnected`), none is skipped (`NothingSkipped`). `DevicesAreChannels` - each
`point_iface` implements the same `WriteChannel` as the stream transport. `BroadcastArrives` and
`LostAreForgotten` - every packet is given to the write queue of the device of every client still connected, whence `DevicesAreChannels` follows it; a lost client leaves the map.

**Bounds.** Two clients, two packets from the server's device and one from a client's, packets
of two bytes on one device (so that it takes a part), one failure - a device, an accept or a
connection - at any moment. **Fairness.** Neither io_service nor network halts while there is work; one
condition is enough since what is read is bounded, and so is the work.
A failed accept or device read is not tried again; that is the code's, and the model's.

## 10. Proofs

Each `X_proofs.tla` extends `X.tla` (`Signals_proofs` extends `Observers`,
`LinkedList` and `Subscriptions`, `Framing_proofs` extends `BinaryProtocol` and with it all of section 7); `tlapm` checks it with Z3, Zenon and LS4, for every value of the
constants. The assumptions are those of the modules: bounds and lengths are natural numbers, the
traffic is a sequence of addresses, none of the distinguished values is an element of the sets, and no message of the binary
protocol is empty.

| module | theorems (the property of sections 2 to 9 they state) |
|---|---|
| `StreamTransport_proofs` | `QueueIsDisciplined` (`QueueDiscipline`), `ClosesForGood` (`ClosedForGood`), `DeliversInOrder` (`DeliveredInOrder`), `TransportIsAChannel` (`ImplementsChannel`) |
| `UdpServer_proofs` | `SendsEachInOrder` (`SendsInOrder`), `ListensOn` (`KeepsListening`), `ClientsReceiveInOrder` (`ReceivesInOrder`), `ClosesAreAccounted` (`CloseAccounted`) |
| `Connections_proofs` | `ListenerOffersEachOnce` (`ListenerConsistent`), `ConnectsAreAnsweredOnce` (`ConnectorConsistent`) |
| `Signals_proofs` | of `Observers`: `SlotsAreAccounted` (`SlotsAccounted`), `UnsubscribedStaysSilent` (`NoCallAfterUnsubscribe`), `EmissionsAreRight` (`EmissionRight`); of `LinkedList`: `AlwaysLinksAgree` (`LinksAgree`), `AlwaysNothingDangles` (`NothingDangles`), `ListsAreItems` (`ImplementsItems`); of `Subscriptions`: `EverySlotIsKept` (`SlotsKept`), `GuardsKeepTheirPromise` (`ImplementsGuards`) |
| `ConditionQueue_proofs` | `NobodyWaitsInVain` (`NobodyLeftWaiting`), `ErasedSlotsGiveNothing` (`ErasedGivesNothing`), `SlotsAreBoxes` (`ImplementsBoxes`, its safety part) |
| `Framing_proofs` | `PackRoundTrips`, of the prefixes alone; `FramesAreCutWhereJoined` (`CutWhereJoined`), `DelegatesInStep` (`InStep`), `DamageIsContained` (`DamageContained`) |
| `PeriodicalTimer_proofs` | `CancelledIsDone` (`DoneIsDone`) |
| `Tunnel_proofs` | `PacketsArriveInOrder` (`EachGetsItsPackets`), `EachDeviceIsAChannel` (`DevicesAreChannels`) |

*Stream.* The inductive invariant of the first two theorems is `QueueDiscipline` itself. No part is
inductive alone: a handler finds its message at the front only
if no second handler popped it; `write_impl` starts no second operation only if an empty
queue has none in flight; even `TypeOK` needs the others, since the length of the rest of
a message is a difference that is natural only because the operation that was answered
belongs to the front message. Lemmas say how posting and running a handler move the
completed operations in the strand (`PostOther`, `PostWrote`, `RunOther`, `RunWrote`), and
every branch that starts an operation goes through `StartedFront`. `ClosesForGood` follows: `ClosedOnce` with a
little induction of its own, `ClosedQueueIsFrozen` from the invariant. On top of it `FIFOInv` adds to
`Conservation` that nothing is written twice, and `WireInv` adds to `WireInOrder` what `total` means: the
operation in flight begins at the byte after those the socket has (`SentSoFar`), and the socket has bytes of
the reported messages and the front one only (`SentInTurn`); that the others have sent nothing is
why a new front begins with its first byte. `TransportIsAChannel` maps every handler to a step of `WriteChannel`, or
shows that it changes nothing the channel can see.

*Datagram server.* Two invariants. `Base` is of the transport: the send that is pending or answered is the one for the
front (`OneSend`), so that popping and sending the next keeps one; the writes posted are in the strand in
the order of the calls (`InTurn`), which is what the existence claims of `DatagramsConserved` need to survive the
run of a task; there is one receive, and while its handler waits, `ep_` is still its sender's
address (`InHand`) - that is why a datagram is filed with the right client although `ep_` is shared.
`Lines` is of the clients, in terms of places: buffer `b` is in place `n` of the cache, the queue or the strand
(`At`), datagram `x` in place `n` of what a client has got or will get (`Has`); the places refer to buffers that exist, are apart, hold
what came from the client's peer, in order, and all of it came before the datagram now in hand
(`AllEarlier`), without which the one appended last could not be the youngest. `ByPlaces` shows this is the
same as `TypeOK`, `BufferInOnePlace` and `DeliveredInOrder` of the model. A client that reads has nothing waiting (`ReadsWhenEmpty`), which is
why `push_data_impl` may deliver past the queue. Each handler then is one of a few steps - the lines stay as they are,
a buffer is delivered, kept, dropped or filled, a client is made - and has one lemma for what it does to the places and one for the
invariant, which also says what the step may lose (`Losing`, hence `LostOnlyWhenFull`).
`CloseAccounted` compares two sums over all the client objects a peer ever had. The invariant for it, `Accounted`, counts the closes that are
posted too (`Balanced`): a close goes by address, so it is a peer's clients together that are told no more often than they asked,
not each of them; and who is in the map was not told yet (`ToldOnce`). `Total` is a recursive function, and what it does to a sequence that gets longer,
shorter or changes in one place (`TotalAppend`, `TotalTail`, `TotalChange`) is proved by induction.

*Connections.* The invariant of the connector ties the transports to the calls: none is beyond `client_`, what was
reported or will be is connected or dead, and a transport connected while it is the current one was reported or is
going to be (`WillBeTold`). That of the listener says that a connection is in one place - backlog,
completed, offered - and once in it (`InOnePlace`), and, of a listener started once, that these places are one line in the order of
arrival (`InTurn`); `ChainsConserved` counts the accepts. `BothEndsAgree` needs both.

*Observers.* The inductive invariant adds to `SlotsAccounted` that numbers are
given before they are used (`Given`) and that what `clear_removed` has walked past is
below everything it still looks for (`WalkedPast`); the last is why the rest of the copied
set may be dropped at the end of the list. `RemovesTheId` proves that `remove_by_index`
takes off exactly its number, whichever end it walks from, given the order.
`NoCallAfterUnsubscribe` follows. A second invariant, `EInv`, is of the emission: what is marked was unsubscribed
(`MarkedIsGone`), so erasing it loses nobody, and a slot that is due is called already, unsubscribed, or at the cursor or
behind it (`Walking`); at the end nothing is behind it.

*Linked list.* The inductive invariant says that there are sequences of nodes, one for each list, which the pointers spell from either end
(`Spelled`): `front_` and `back_` are its ends, `next_` and `prev_` of each node its neighbours, `size_` its length, and the sequences
together are the allocated nodes, once each (`Apart`, `Allocated`). That one of the nodes is erased, or that two lists are joined, then is a
fact about sequences and the four pointers that change. The invariant needs `IteratorLives`, since the node erased is the iterator's, and an
erased iterator moves to a neighbour. What a walk along pointers meets (`Met`, a recursive function) is the sequence they spell, by induction over its
places, so that the model's `Holds` is that sequence: hence all three theorems.

*Subscriptions.* `SlotsKept` is inductive once the handles are known to hold only numbers that were given
out (`GivenOut`): a new slot is nobody's by chance. The refinement maps each constructor, assignment and swap to the ends and
takings of `Guards`.

*Waitable queues.* The inductive invariant is `TypeOK /\ NoLostWakeup /\ ErasedCanceled`.
`NoLostWakeup` alone is not inductive: when a slot is erased, its waiters are woken because
`erase_slot` cancels it, and that they never sleep again rests on the slot staying cancelled,
which is `ErasedCanceled`. The parts that several actions share (a cancel, a push, the
return of a read) have a lemma each that says what they do to waiters (`CancelEffect`,
`PushEffect`, `ReturnEffect`). `WaitersAreReachable`, hence `NobodyLeftWaiting`, and
`ErasedGivesNothing` follow: what is off the map is cancelled, and stays so.
`SlotsAreBoxes` proves the whole safety part of the refinement, for both traits: every step
is one of `Mailbox`, or changes nothing it can see.

*Prefixes.* `PackRoundTrips` is for sizes of any width and bytes of any number of bits. Both loops of `pack` take a size apart
by one radix: what is left after `n` turns, times their weight, is at most the size (`RestWeighs`), so nothing is left after the last. The
loops of `unpack` add up the digits from one end (`VarintReadIs`, `FixintReadIs`); at each turn, what was read and what is left, each with its
weight, are the size (`VarintValue`, `FixintValue`). `PrefixRead` is what the delegates need of it: bytes that agree with a prefix as far as they go are read as that size once
they are as long as the prefix, and are no prefix before. This holds of the sizes `Framed`: all but 0 for `varint`, for which the caller
keeps no byte free - the counterexample of section 7.

*Framing.* The induction goes no further than to `Frames` of a sequence (`FramesCat`); all else is about concatenations. When the buffer and the
wire are a frame and something behind it, `FrameCut` says what `size_length` and `unpack` find in the buffer and what a cut leaves.
The invariant of the message delegate, `Line`: the buffer and the wire are the frames of what was not delivered yet, then the garbage
(`OnLine`), or the garbage is being looked at and all messages were delivered (`Beyond`). `Core` adds that one read at most is under way or answered
(`OneRead`), which is why the loops of `on_data` see no second piece. `StreamLine` is the same for the stream delegate: between streams, `tmp_`, the
piece and the wire are the frames to come; within one, the bytes it lacks and then those frames (`Lacks`). That `tmp_` is never a whole prefix
(`StreamCore`) says where the prefix ends in the piece, and so what `Used` is. Neither invariant knows of the other delegate:
they are in step because both wait for the same bytes - with what is on the wire, each is behind the same message (`SameMessage`).

*Binary protocol.* `HandedOn`: what was handed on are the `Bodies` of the messages delivered; with `Line` these are bodies of messages sent.
`LatePieces` says where the close is that an error posted: before any piece of data in the strand (`CloseDue`), until the transport
is closed, and after that one piece at most, which was read before.

*Timer.* A chain of waits and handlers is in one place: it waits, its handler is posted or runs, or a thread is in `call()` for it
(`OnePlace`); `LateStops` says where a chain that ticked after a cancel can still be - at the test of `enabled_` -, and that is
what bounds the late ticks to one.

*Tunnel.* The invariant of a device (`PointInv`) puts its packets in one line - settled, queued, posted - with an operation exactly
while the queue has a front; a step of any handler then is one of the channel, for which each packet must be given once only, and
that is a fact about the programs around it. Those have three parts. `Links`: a connection is none, waits for its accept, is served, or is
lost, and what closes is lost. `DownInv`: a client's device, its connection and the server's queue hold consecutive packets, counted from its accept,
and for an open connection they end with the last one read; once the connection is lost the queue counts no more
(`DownLost`), which is why the writes that go on failing after the error do no harm. `UpInv`: there is a `k` such that the server's device has the
first `k` packets of the client, and the connection the next ones. The lines are sequences that get longer at one end and
shorter at the other, and one lemma per such move (`NumberedPush`, `NumberedPop`, `NumberedCut`) serves both directions.

*Induction.* The induction theorems of the library that take a property as a parameter cannot be used with the provers at hand. What can is that `<` is
well-founded on the natural numbers, which speaks of sets: a set of numbers has a least member. `Climb` of
`UdpServer_proofs` and of `Framing_proofs`, and `UpTo` of `Signals_proofs`, derive induction from it; a recursive function is shown to exist by giving one, and to be the only one by induction.

**Only model-checked.** Liveness, including that of `ImplementsBoxes`: the prover has no support for fairness and `ENABLED`. Every invariant and
every action property that a passing run checks is a theorem.

## 11. Plan

The modules are written, and what a run checks and no theorem states is about liveness. What a larger model would add first is the
missing half of a hazard without a property: slots that emit, and a close of the udp acceptor outside of its strand.

## 12. Not modelled

* `common/protobuf/controller.h`, `closure-holder.h`: nothing in the repository makes a controller or
  a closure holder; they serve generated services that are not here.
* Hashes other than the checksum's place in a message, `result.h`, `factory.h`, `config/*`, the `.proto` file: pure functions,
  aliases and data definitions.
* `test/*`: manual programs, used here as documentation of how the library is meant to be used.
* Undefined behaviour that has no state to follow: a callback through an uninitialised `delegate_`, a
  receive into a buffer that `resize_buffer` has reallocated (`base.h:86`), a raw `this` whose object is gone, a map
  raced for. The sections name the precondition each model makes instead.
