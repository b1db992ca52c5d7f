----------------------------- MODULE UdpServer -----------------------------
(***************************************************************************)
(* The datagram server: acceptor::async::udp and its client_type objects     *)
(* over one UdpTransport, with the application of test/server/main.cpp.      *)
(* All clients share the socket, its receive buffer and its strand; a client *)
(* is made when a datagram comes from an address that has none, and is found *)
(* by the address, so a late task may meet another client than its own.      *)
(*                                                                           *)
(* The application closes a client on a read error, and may read from, write *)
(* to or close a client, or close the acceptor, at any time on the io thread.*)
(***************************************************************************)
EXTENDS UdpTransport, BufferCache

CONSTANTS
    MaxCache,       \* `max_cache' given to each client: 10 in the code
    Keeps,          \* the clients the application keeps after on_close, by number
    Traffic,        \* whom the datagrams come from, in the order they come
    MaxAsks,        \* bound on the close() calls on each client
    MaxFailures,    \* bound on the receives that fail while the socket is open
    MaxPosted       \* bound on the tasks posted and not yet run

ASSUME KeepsAssumption == Keeps \subseteq Nat
ASSUME TrafficAssumption == Traffic \in Seq(Endpoints)
ASSUME ServerBoundsAssumption ==
    {MaxCache, MaxAsks, MaxFailures, MaxPosted} \subseteq Nat

VARIABLES
    accepting,  \* accept_
    shut,       \* has acceptor::close() been called?
    clients,    \* clients_: the number of the client at each address, 0 if none
    client,     \* the client objects, in the order they were made
    heap,       \* the contents of the buffers
    arrived,    \* how many datagrams have come
    failures    \* receives that failed on the open socket

serverVars == <<accepting, shut, clients, client, heap, arrived, failures>>
vars == <<udpVars, serverVars>>

\* A client object: ep_, read_, read_queue_, cache_; and what it was asked and
\* given: close() calls, on_close calls, datagrams meant for it and delivered.
NewClient(e, b, d) ==
    [ep |-> e, read |-> FALSE, queue |-> <<b>>, cache |-> <<>>,
     asked |-> 0, closed |-> 0, given |-> <<d>>, got |-> <<>>]

Known(e) == e \in Endpoints /\ clients[e] # 0
InMap(c) == clients[client[c].ep] = c

\* Can the weak pointer of a posted task be locked?  The map has a pointer until
\* the close, and the application may have one of its own for longer, as the test
\* server does in gclients.  (A client's delegate is taken to live as long.)
Alive(c) == InMap(c) \/ c \in Keeps

\* May the application use the client: it was not told of its close?
Usable(c) == client[c].closed = 0

SetReadTask(c) == [kind |-> "set_read", client |-> c]
PushTask(c, b) == [kind |-> "push", client |-> c, buf |-> b]

\* Mutant: the address is taken from ep_, the last sender's.
MutantCloseTask(e) == [kind |-> "client_close", at |-> ep]

CloseTask(e) == [kind |-> "client_close", at |-> e]

Init ==
    /\ UdpInit
    /\ accepting \in BOOLEAN        \* not initialised by the constructor
    /\ shut = FALSE
    /\ clients = [e \in Endpoints |-> 0]
    /\ client = <<>>
    /\ heap = <<>>
    /\ arrived = 0
    /\ failures = 0

----------------------------------------------------------------------------
(* Calls of the application.                                                 *)

\* bind(): the first receive is started.
Bind ==
    /\ ~receiving /\ arrived = 0 /\ Tasks("received") = {}
    /\ failures = 0 /\ active
    /\ ReadFrom
    /\ UNCHANGED <<strand, queue, ops, active, accepted, reported, serverVars>>

StartAccept ==
    /\ ~accepting
    /\ accepting' = TRUE
    /\ UNCHANGED <<udpVars, shut, clients, client, heap, arrived, failures>>

\* client_type::read: set_read_impl is posted; for a client that is reading it
\* would do nothing.
ClientRead(c) ==
    /\ Usable(c) /\ ~client[c].read
    /\ \A i \in Tasks("set_read") : strand[i].client # c
    /\ strand' = Append(strand, SetReadTask(c))
    /\ UNCHANGED <<queue, ops, receiving, ep, active, accepted, reported, serverVars>>

\* client_type::write: write_to() of the acceptor's transport.
ClientWrite(c) ==
    /\ Usable(c)
    /\ WriteTo(client[c].ep)
    /\ UNCHANGED serverVars

\* client_type::close, client_close: the acceptor's close_impl is posted.
ClientClose(c) ==
    /\ Usable(c) /\ client[c].asked < MaxAsks
    /\ client' = [client EXCEPT ![c].asked = @ + 1]
    /\ strand' = Append(strand, CloseTask(client[c].ep))
    /\ UNCHANGED <<queue, ops, receiving, ep, active, accepted, reported,
                   accepting, shut, clients, heap, arrived, failures>>

\* on_close of the clients in S.
Told(S) == [c \in DOMAIN client |->
              IF c \in S THEN [client[c] EXCEPT !.closed = @ + 1] ELSE client[c]]

\* close(): the transport's close is posted, and clean_clients runs here.
AcceptorClose ==
    /\ ~shut
    /\ shut' = TRUE
    /\ strand' = Append(strand, [kind |-> "close"])
    /\ client' = Told({c \in DOMAIN client : InMap(c)})
    /\ clients' = [e \in Endpoints |-> 0]
    /\ UNCHANGED <<queue, ops, receiving, ep, active, accepted, reported,
                   accepting, heap, arrived, failures>>

----------------------------------------------------------------------------
(* The network.                                                              *)

Arrive ==
    /\ arrived < Len(Traffic)
    /\ Received(Traffic[arrived + 1], [from |-> Traffic[arrived + 1], number |-> arrived + 1])
    /\ arrived' = arrived + 1
    /\ UNCHANGED <<accepting, shut, clients, client, heap, failures>>

Fail ==
    /\ ReceiveFailed
    /\ active => failures < MaxFailures
    /\ failures' = IF active THEN failures + 1 ELSE failures
    /\ UNCHANGED <<accepting, shut, clients, client, heap, arrived>>

SendSettlesHere == SendSettles /\ UNCHANGED serverVars

----------------------------------------------------------------------------
(* The handlers on the strand.                                               *)

NextBuffer(c) == Head(client[c].queue)
AfterRead(c)  == Tail(client[c].queue)

\* delegate_->on_data with buffer b, which then goes to the cache.
Delivered(c, b, read, rest) ==
    [client EXCEPT ![c] = [@ EXCEPT !.got = Append(client[c].got, heap[b]),
                                    !.read = read, !.queue = rest,
                                    !.cache = CachePush(client[c].cache, b, MaxCache)]]

\* set_read_impl: the oldest datagram that waits, or the next to come.
SetReadImpl ==
    /\ Runs("set_read")
    /\ LET c == Head(strand).client IN
         \/ /\ Alive(c) /\ ~client[c].read /\ client[c].queue # <<>>
            /\ client' = Delivered(c, NextBuffer(c), FALSE, AfterRead(c))
            /\ OtherHandler("set_read", <<>>)
         \/ /\ Alive(c) /\ ~client[c].read /\ client[c].queue = <<>>
            /\ client' = [client EXCEPT ![c].read = TRUE]
            /\ OtherHandler("set_read", <<>>)
         \/ /\ ~Alive(c) \/ client[c].read
            /\ UNCHANGED client
            /\ OtherHandler("set_read", <<>>)
    /\ UNCHANGED <<accepting, shut, clients, heap, arrived, failures>>

HasRoom(c) == Len(client[c].queue) < MaxCache

\* push_data_impl: delivered to a client that reads, kept for one that does not,
\* dropped when too many are kept.
PushDataImpl ==
    /\ Runs("push")
    /\ LET c == Head(strand).client
           b == Head(strand).buf IN
         \/ /\ Alive(c) /\ client[c].read
            /\ client' = Delivered(c, b, TRUE, client[c].queue)
            /\ OtherHandler("push", <<>>)
         \/ /\ Alive(c) /\ ~client[c].read /\ HasRoom(c)
            /\ client' = [client EXCEPT ![c].queue = Append(@, b)]
            /\ OtherHandler("push", <<>>)
         \/ /\ Alive(c) /\ ~client[c].read /\ ~HasRoom(c)
            /\ client' = [client EXCEPT ![c].cache = CachePush(@, b, MaxCache)]
            /\ OtherHandler("push", <<>>)
         \/ /\ ~Alive(c)
            /\ UNCHANGED client
            /\ OtherHandler("push", <<>>)
    /\ UNCHANGED <<accepting, shut, clients, heap, arrived, failures>>

\* on_data from a known address: into a buffer of the client, and push_data_impl
\* is posted.
PushData(c, d) ==
    LET b == CacheGet(client[c].cache, heap) IN
    /\ client' = [client EXCEPT ![c].cache = CacheRest(@), ![c].given = Append(@, d)]
    /\ heap' = Assigned(heap, b, d)
    /\ ReadHandler(<<PushTask(c, b)>>)
    /\ UNCHANGED <<accepting, clients>>

\* on_data from a new address: a client is made, and on_accept_client sets its
\* delegate and goes on accepting.
AcceptClient(d) ==
    LET c == Len(client) + 1
        b == CacheCreate(heap) IN
    /\ client' = Append(client, NewClient(ep, b, d))
    /\ heap' = Assigned(heap, b, d)
    /\ clients' = [clients EXCEPT ![ep] = c]
    /\ accepting' = TRUE
    /\ ReadHandler(<<>>)

\* on_data from a new address when nobody accepts.
IgnoreData == ReadHandler(<<>>) /\ UNCHANGED <<accepting, clients, client, heap>>

\* accept_delegate::on_data, and the next receive whatever became of the datagram.
OnData ==
    /\ Runs("received") /\ Head(strand).ok
    /\ \/ Known(ep) /\ PushData(clients[ep], Head(strand).data)
       \/ ~Known(ep) /\ accepting /\ AcceptClient(Head(strand).data)
       \/ ~Known(ep) /\ ~accepting /\ IgnoreData
    /\ ReadFrom
    /\ UNCHANGED <<shut, arrived, failures>>

\* accept_delegate::on_read_error: told to the client at the address left in ep_
\* as a write error, which the application only logs; no receive is started.
OnReadError ==
    /\ Runs("received") /\ ~Head(strand).ok
    /\ ReadHandler(<<>>)
    /\ UNCHANGED <<receiving, ep, serverVars>>

SendDone ==
    /\ Runs("sent") /\ Head(strand).ok
    /\ SendHandler(<<>>)
    /\ UNCHANGED serverVars

\* accept_delegate::on_write_error: told to the client at the address left in ep_
\* as a read error, and the application closes that client.
SendError ==
    /\ Runs("sent") /\ ~Head(strand).ok
    /\ \/ /\ Known(ep) /\ Usable(clients[ep])
          /\ client' = [client EXCEPT ![clients[ep]].asked = @ + 1]
          /\ SendHandler(<<CloseTask(ep)>>)
       \/ /\ ~(Known(ep) /\ Usable(clients[ep]))
          /\ UNCHANGED client
          /\ SendHandler(<<>>)
    /\ UNCHANGED <<accepting, shut, clients, heap, arrived, failures>>

\* The acceptor's close_impl: whoever is at the address by now.
ClientCloseImpl ==
    /\ Runs("client_close")
    /\ LET e == Head(strand).at IN
         \/ Known(e)  /\ client' = Told({clients[e]}) /\ clients' = [clients EXCEPT ![e] = 0]
         \/ ~Known(e) /\ UNCHANGED <<client, clients>>
    /\ OtherHandler("client_close", <<>>)
    /\ UNCHANGED <<accepting, shut, heap, arrived, failures>>

\* The transport's close_impl; accept_delegate::on_close tells the client at the
\* address left in ep_, if one has been made since clean_clients.
TransportClose ==
    /\ CloseImpl
    /\ client' = IF active /\ Known(ep) THEN Told({clients[ep]}) ELSE client
    /\ UNCHANGED <<accepting, shut, clients, heap, arrived, failures>>

RunStrand ==
    \/ SetReadImpl \/ PushDataImpl
    \/ OnData \/ OnReadError \/ SendDone \/ SendError
    \/ ClientCloseImpl \/ TransportClose
    \/ WriteToQueue /\ UNCHANGED serverVars

Calls ==
    \/ Bind \/ StartAccept \/ AcceptorClose
    \/ \E c \in DOMAIN client : ClientWrite(c)

Work ==
    \/ RunStrand
    \/ SendSettlesHere
    \/ \E c \in DOMAIN client : ClientRead(c)

Next ==
    \/ Len(strand) < MaxPosted /\ Calls
    \/ Len(strand) <= MaxPosted /\ (\E c \in DOMAIN client : ClientClose(c))
    \/ Arrive \/ Fail
    \/ Work

Spec == Init /\ [][Next]_vars

\* io_service::run() runs every ready handler, the system answers every send, and
\* the application goes on reading from its clients.  There is only so much of
\* this work between two datagrams, so one condition for all of it says no more
\* than one for each part.
FairSpec == Spec /\ WF_vars(Work)

----------------------------------------------------------------------------
(* Correctness.                                                              *)

\* The buffers of client c: kept for reuse, waiting to be read, or posted.
PushesTo(c) == {i \in Tasks("push") : strand[i].client = c}
Kept(c)   == {[stage |-> 0, nth |-> i, buf |-> client[c].cache[i]] : i \in 1..Len(client[c].cache)}
Queued(c) == {[stage |-> 2, nth |-> i, buf |-> client[c].queue[i]] : i \in 1..Len(client[c].queue)}
Posted(c) == {[stage |-> 3, nth |-> i, buf |-> strand[i].buf] : i \in PushesTo(c)}
BuffersOf(c) == Kept(c) \cup Queued(c) \cup Posted(c)

\* The datagrams that client c has got or will get, and the order of delivery.
Got(c)  == {[stage |-> 1, nth |-> i, data |-> client[c].got[i]] : i \in 1..Len(client[c].got)}
Line(c) == Got(c) \cup {[stage |-> p.stage, nth |-> p.nth, data |-> heap[p.buf]] :
                           p \in Queued(c) \cup Posted(c)}
Before(x, y) == x.stage < y.stage \/ (x.stage = y.stage /\ x.nth < y.nth)

\* Type invariant of the server's own variables.
TypeOK ==
    /\ {accepting, shut} \subseteq BOOLEAN
    /\ clients \in [Endpoints -> 0..Len(client)]
    /\ \A c \in DOMAIN client :
          /\ client[c].ep \in Endpoints
          /\ \A p \in BuffersOf(c) : p.buf \in DOMAIN heap
          /\ Len(client[c].cache) <= MaxCache
    /\ arrived \in 0..Len(Traffic)
    /\ failures \in 0..MaxFailures

\* The sending side: the discipline of the queue and the order of the datagrams.
SendsInOrder == SendsTheFront /\ DatagramsConserved

\* A client gets only what its own peer sent, in the order in which it came and
\* nothing twice, although all clients share one address variable, one receive
\* buffer and one strand, and reuse their buffers.
DeliveredInOrder ==
    \A c \in DOMAIN client :
       /\ \A x \in Line(c) : x.data.from = client[c].ep
       /\ \A x, y \in Line(c) : Before(x, y) => x.data.number < y.data.number

\* A buffer is in one place: kept for reuse, waiting to be read, or posted, and
\* of one client.  A buffer in two places is overwritten before it is delivered.
BufferInOnePlace ==
    \A c, d \in DOMAIN client : \A p \in BuffersOf(c), q \in BuffersOf(d) :
       p.buf = q.buf => c = d /\ p = q

\* A datagram meant for a client that is there is lost only when as many as may
\* wait are waiting.
Missing(c) == Range(client[c].given) \ {x.data : x \in Line(c)}
LostOnlyWhenFull ==
    [][ \A c \in DOMAIN client :
          Missing(c)' # Missing(c) => Len(client[c].queue) >= MaxCache \/ ~Alive(c) ]_vars

\* The receiving side: each client gets its own datagrams in order, from buffers of
\* its own, and all but those that found too many waiting.
ReceivesInOrder ==
    [](TypeOK /\ DeliveredInOrder /\ BufferInOnePlace) /\ LostOnlyWhenFull

\* From bind() on a receive is pending, or answered and about to be renewed, as
\* long as none has failed - also after datagrams that nobody took.  (One failure
\* is enough to silence the server: OnReadError.)
KeepsListening ==
    arrived > 0 /\ active /\ failures = 0 =>
       receiving \/ Tasks("received") # {}

\* The sum of a sequence of numbers.
Total(s) ==
    LET sum[n \in 0..Len(s)] == IF n = 0 THEN 0 ELSE sum[n - 1] + s[n]
    IN  sum[Len(s)]

\* How often each client of the peer e asked for its close, and was told of it.
AskedAt(e) == [c \in DOMAIN client |-> IF client[c].ep = e THEN client[c].asked ELSE 0]
ToldAt(e)  == [c \in DOMAIN client |-> IF client[c].ep = e THEN client[c].closed ELSE 0]

\* While the acceptor is open a client is told on_close at most once, and a peer's
\* clients are told no more often than they asked, though a close goes by the
\* address and not by the client.  (By that, a second close() of one client may
\* reach the next client of its peer.)
CloseAccounted ==
    ~shut =>
       /\ \A c \in DOMAIN client : client[c].closed <= 1
       /\ \A e \in Endpoints : Total(ToldAt(e)) <= Total(AskedAt(e))

\* What is begun and not at its end.
Unreported == Len(reported) < Len(accepted)
Asking  == {c \in DOMAIN client : client[c].asked > 0 /\ client[c].closed = 0}
Waiting == {c \in DOMAIN client : client[c].queue # <<>> /\ client[c].closed = 0}
Unsettled == Unreported \/ Asking # {} \/ Waiting # {}

\* Everything begun comes to its end: a datagram given to write_to() is reported,
\* also when the socket is closed first; a client that asks for its close is told
\* of it; and what waits for a client that goes on reading is delivered, unless
\* the client is closed.
EverythingSettles == Unsettled ~> ~Unsettled
=============================================================================
