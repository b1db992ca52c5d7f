---------------------------- MODULE UdpTransport ----------------------------
(***************************************************************************)
(* async::udp over async::base: a queue of datagrams sent one at a time, one *)
(* receive at a time, and the strand that serialises the handlers.  The      *)
(* delegate of the transport belongs to whoever extends this module: its     *)
(* callbacks are a conjunct of the action that extends a handler, and the    *)
(* tasks they post are the handler's argument `posted'.                      *)
(***************************************************************************)
EXTENDS Integers, Sequences, SequencesExt, FiniteSets

CONSTANTS
    Endpoints,      \* the peers
    NoEndpoint,     \* endpoint(): port 0
    MaxWrites       \* bound on the calls of write_to()

ASSUME NoEndpointAssumption == NoEndpoint \notin Endpoints
ASSUME MaxWritesAssumption  == MaxWrites \in Nat

VARIABLES
    strand,     \* dispatcher_: tasks and handlers ready to run, oldest first
    queue,      \* write_queue_
    ops,        \* sends the socket has not answered
    receiving,  \* is a receive unanswered?
    ep,         \* ep_: where a receive leaves the sender's address
    active,     \* active_: the socket is open
    accepted,   \* history: messages in the order write_to() posted them
    reported    \* history: messages in the order of their post_call

udpVars == <<strand, queue, ops, receiving, ep, active, accepted, reported>>

\* A message is the number of the write_to() call and the address it is for.
Message == [number : Nat, to : Endpoints \cup {NoEndpoint}]

Runs(kind) == strand # <<>> /\ Head(strand).kind = kind
Tasks(kind) == {i \in 1..Len(strand) : strand[i].kind = kind}

UdpInit ==
    /\ strand = <<>>
    /\ queue = <<>>
    /\ ops = <<>>
    /\ receiving = FALSE
    /\ ep = NoEndpoint
    /\ active = TRUE
    /\ accepted = <<>>
    /\ reported = <<>>

----------------------------------------------------------------------------
(* Calls.                                                                    *)

PushToQueue(m) == strand' = Append(strand, [kind |-> "write", msg |-> m])

\* write(), write_to(): the bytes are copied and write_to_queue is posted.
WriteTo(to) ==
    /\ Len(accepted) < MaxWrites
    /\ LET m == [number |-> Len(accepted) + 1, to |-> to] IN
          /\ PushToQueue(m)
          /\ accepted' = Append(accepted, m)
    /\ UNCHANGED <<queue, ops, receiving, ep, active, reported>>

\* Mutant: a receive is started only by bind().
MutantReadFrom == receiving' = (ep = NoEndpoint) /\ ep' = NoEndpoint

\* read_from(endpoint()): the address is reset and a receive is started.
ReadFrom == receiving' = TRUE /\ ep' = NoEndpoint

----------------------------------------------------------------------------
(* The socket's answers; their handlers are wrapped by the strand.           *)

\* A datagram d has come from e: the address is there before the handler runs.
Received(e, d) ==
    /\ receiving /\ active
    /\ receiving' = FALSE
    /\ ep' = e
    /\ strand' = Append(strand, [kind |-> "received", ok |-> TRUE, data |-> d])
    /\ UNCHANGED <<queue, ops, active, accepted, reported>>

\* The receive failed, or the socket was closed under it.
ReceiveFailed ==
    /\ receiving
    /\ receiving' = FALSE
    /\ strand' = Append(strand, [kind |-> "received", ok |-> FALSE])
    /\ UNCHANGED <<queue, ops, ep, active, accepted, reported>>

\* A send is answered; on a closed socket it fails.
SendAnswered(i, ok) ==
    /\ ok => active
    /\ ops' = RemoveAt(ops, i)
    /\ strand' = Append(strand, [kind |-> "sent", msg |-> ops[i], ok |-> ok])
    /\ UNCHANGED <<queue, receiving, ep, active, accepted, reported>>

----------------------------------------------------------------------------
(* Handlers.                                                                 *)

\* Mutant: as the stream transport does, nothing is sent on a closed socket.
MutantAsyncWrite(m) == ops' = IF active THEN Append(ops, m) ELSE ops

\* async_write(): pre_call, then a send, to an address if the message has one.
AsyncWrite(m) == ops' = Append(ops, m)

\* Mutant: write_to_queue does not look whether the queue was empty.
MutantNobodySends == TRUE

NobodySends == queue = <<>>

WriteToQueue ==
    /\ Runs("write")
    /\ queue' = Append(queue, Head(strand).msg)
    /\ IF NobodySends THEN AsyncWrite(Head(strand).msg) ELSE UNCHANGED ops
    /\ strand' = Tail(strand)
    /\ UNCHANGED <<receiving, ep, active, accepted, reported>>

PopSent(t) == queue' = Tail(queue)

\* write_handle, write_to_handle: post_call of the front message, pop, and the
\* next one, whether the send failed or not.
SendHandler(posted) ==
    /\ Runs("sent")
    /\ reported' = Append(reported, Head(queue))
    /\ PopSent(Head(strand))
    /\ IF queue' # <<>> THEN AsyncWrite(Head(queue')) ELSE UNCHANGED ops
    /\ strand' = Tail(strand) \o posted
    /\ UNCHANGED <<receiving, ep, active, accepted>>

\* read_handler; its delegate may start the next receive.
ReadHandler(posted) ==
    /\ Runs("received")
    /\ strand' = Tail(strand) \o posted
    /\ UNCHANGED <<queue, ops, active, accepted, reported>>

\* close_impl, close_unsafe.
CloseImpl ==
    /\ Runs("close")
    /\ active' = FALSE
    /\ strand' = Tail(strand)
    /\ UNCHANGED <<queue, ops, receiving, ep, accepted, reported>>

\* The handler at the head of the strand is one of the delegate's own.
OtherHandler(kind, posted) ==
    /\ Runs(kind)
    /\ strand' = Tail(strand) \o posted
    /\ UNCHANGED <<queue, ops, receiving, ep, active, accepted, reported>>

SendSettles == \E i \in 1..Len(ops), ok \in BOOLEAN : SendAnswered(i, ok)

----------------------------------------------------------------------------
(* Correctness of the sending side.                                          *)

\* One datagram is on the socket at a time, it is the one at the front of the
\* queue (write_to_handle takes it from there without a test), and a queue that
\* is not empty is being sent - on a closed socket as well, since async_write
\* does not ask for active_.
SendsTheFront ==
    /\ Len(ops) + Cardinality(Tasks("sent")) = IF queue = <<>> THEN 0 ELSE 1
    /\ \A i \in 1..Len(ops) : ops[i] = Head(queue)
    /\ \A i \in Tasks("sent") : strand[i].msg = Head(queue)

\* How many datagrams have reached the queue; the first Len(reported) left it again.
Passed == Len(reported) + Len(queue)

\* Each datagram given to write_to() is in one place - reported, queued, or
\* posted - in the order of the calls: none is lost, reported twice or overtaken.
DatagramsConserved ==
    /\ Passed <= Len(accepted)
    /\ \A n \in 1..Len(reported) : reported[n] = accepted[n]
    /\ \A n \in 1..Len(queue) : queue[n] = accepted[Len(reported) + n]
    /\ \A n \in (Passed + 1)..Len(accepted) : \E i \in Tasks("write") : strand[i].msg = accepted[n]
    /\ \A i \in Tasks("write") : \E n \in (Passed + 1)..Len(accepted) : strand[i].msg = accepted[n]
    /\ \A i, j \in Tasks("write") : i < j => strand[i].msg.number < strand[j].msg.number
=============================================================================
