-------------------------- MODULE StreamTransport --------------------------
(***************************************************************************)
(* One asynchronous stream transport: async::base<SocketType> and           *)
(* async::stream<StreamType> over a byte-stream socket, with the strand      *)
(* that serialises its handlers.                                             *)
(*                                                                           *)
(* A user thread posts writes and closes; the write queue is drained one     *)
(* async_write_some at a time; a message that the socket takes only in part  *)
(* is continued from where it stopped.  The object lives as long as the user *)
(* holds it or a handler bound to shared_from_this() is pending; handlers    *)
(* bound to weak_from_this() do nothing once it is gone.                     *)
(*                                                                           *)
(* Bytes are counted, not spelled: message m has Size[m] bytes, and the k-th *)
(* byte of m on the wire is the pair <<m, k>>.                               *)
(***************************************************************************)
EXTENDS Integers, Sequences, SequencesExt, FiniteSets

CONSTANTS
    Msgs,       \* the messages the user may write, each at most once
    Size,       \* their lengths in bytes
    MaxReads,   \* bound on the reads the user starts
    MaxCloses   \* bound on the closes the user posts

ASSUME SizeAssumption   == Size \in [Msgs -> Nat]
ASSUME BoundsAssumption == MaxReads \in Nat /\ MaxCloses \in Nat

VARIABLES
    strand,     \* dispatcher_: handlers ready to run, oldest first
    queue,      \* write_queue_
    ops,        \* async_write_some operations the socket has not answered
    reading,    \* is an async_read_some unanswered?
    active,     \* active_: the socket is open
    held,       \* does the user still hold a shared_ptr to the transport?
    calls,      \* how often each delegate callback has been called
    used,       \* how many reads and closes the user has asked for
    accepted,   \* history: messages in the order write() posted them
    completed,  \* history: the post_call of each message, in order
    wire        \* history: the bytes the socket has taken

vars == <<strand, queue, ops, reading, active, held, calls, used,
          accepted, completed, wire>>

----------------------------------------------------------------------------
(* What the strand holds, and what the socket is asked to do.                *)

WriteTask == [kind : {"write"}, msg : Msgs]
CloseTask == [kind : {"close"}]
ReadTask  == [kind : {"read"}, ok : BOOLEAN]

\* A pending async_write_some: the buffer starts at byte `total' of msg and is
\* `length' bytes long.
Op        == [msg : Msgs, length : Nat, total : Nat]

\* The handler of an answered operation: `ok' and `bytes' are the socket's answer.
WroteTask == [kind : {"wrote"}, op : Op, ok : BOOLEAN, bytes : Nat]

Task == WriteTask \cup CloseTask \cup ReadTask \cup WroteTask

Callbacks == {"data", "read_error", "write_error", "close"}

\* Is the object alive?  write_impl and write_handler are bound to a shared_ptr,
\* close_impl and read_handler to a weak_ptr.
KeepsAlive(t) == t.kind \in {"write", "wrote"}
Alive == \/ held
         \/ ops # <<>>
         \/ \E i \in 1..Len(strand) : KeepsAlive(strand[i])

----------------------------------------------------------------------------
Init ==
    /\ strand = <<>>
    /\ queue = <<>>
    /\ ops = <<>>
    /\ reading = FALSE
    /\ active = TRUE
    /\ held = TRUE
    /\ calls = [c \in Callbacks |-> 0]
    /\ used = [reads |-> 0, closes |-> 0]
    /\ accepted = <<>>
    /\ completed = <<>>
    /\ wire = <<>>

----------------------------------------------------------------------------
(* The user's calls, from any thread.                                        *)

\* write(): the bytes are copied and write_impl is posted.
Write(m) ==
    /\ held
    /\ \A i \in 1..Len(accepted) : accepted[i] # m
    /\ strand' = Append(strand, [kind |-> "write", msg |-> m])
    /\ accepted' = Append(accepted, m)
    /\ UNCHANGED <<queue, ops, reading, active, held, calls, used, completed, wire>>

\* close(): close_impl is posted with a weak_ptr.
Close ==
    /\ held
    /\ used.closes < MaxCloses
    /\ strand' = Append(strand, [kind |-> "close"])
    /\ used' = [used EXCEPT !.closes = @ + 1]
    /\ UNCHANGED <<queue, ops, reading, active, held, calls, accepted, completed, wire>>

\* read(): the async_read_some is started in the caller.  The delegates of the
\* library ask for the next read only when the last one has been delivered.
Read ==
    /\ held
    /\ ~reading
    /\ \A i \in 1..Len(strand) : strand[i].kind # "read"
    /\ used.reads < MaxReads
    /\ reading' = TRUE
    /\ used' = [used EXCEPT !.reads = @ + 1]
    /\ UNCHANGED <<strand, queue, ops, active, held, calls, accepted, completed, wire>>

\* The user drops its shared_ptr.
Release ==
    /\ held
    /\ held' = FALSE
    /\ UNCHANGED <<strand, queue, ops, reading, active, calls, used, accepted,
                   completed, wire>>

----------------------------------------------------------------------------
(* The socket answers an operation; its handler goes to the strand.          *)

Answer(i, ok, n) ==
    /\ strand' = Append(strand, [kind |-> "wrote", op |-> ops[i], ok |-> ok, bytes |-> n])
    /\ ops' = RemoveAt(ops, i)
    /\ UNCHANGED <<queue, reading, active, held, calls, used, accepted, completed>>

\* The socket takes at least one byte of the buffer (none of an empty one).
WriteTaken(i) ==
    /\ active
    /\ \E n \in 0..ops[i].length :
          /\ n = 0 => ops[i].length = 0
          /\ Answer(i, TRUE, n)
          /\ wire' = wire \o [k \in 1..n |-> <<ops[i].msg, ops[i].total + k>>]

\* The operation fails: the connection broke, or the socket was closed under it.
WriteRefused(i) ==
    /\ Answer(i, FALSE, 0)
    /\ UNCHANGED wire

ReadAnswered(ok) ==
    /\ reading
    /\ ok => active /\ Alive
    /\ reading' = FALSE
    /\ strand' = Append(strand, [kind |-> "read", ok |-> ok])
    /\ UNCHANGED <<queue, ops, active, held, calls, used, accepted, completed, wire>>

----------------------------------------------------------------------------
(* The handlers, run one at a time from the head of the strand.              *)

Runs(kind) == strand # <<>> /\ Head(strand).kind = kind

\* Mutant: async_write does not ask whether the socket is open.
MutantStartsClosed(op) == ops' = Append(ops, op)

\* async_write(data, length, total): starts an operation only on an open socket.
StartWrite(op) == ops' = IF active THEN Append(ops, op) ELSE ops

\* async_write(): the whole of a message.
WholeMessage(m) == [msg |-> m, length |-> Size[m], total |-> 0]

\* Mutant: total is replaced, not increased.
MutantRestOfFront(t) ==
    [msg |-> Head(queue), length |-> Size[Head(queue)] - t.bytes, total |-> t.bytes]

\* What is left of the front message after the answer t.
RestOfFront(t) ==
    LET total == t.op.total + t.bytes
    IN  [msg |-> Head(queue), length |-> Size[Head(queue)] - total, total |-> total]

\* `empty' in write_impl: no message is being written.
NobodyWrites == queue = <<>>

QueuePush(m) == queue' = Append(queue, m)

WriteImpl ==
    /\ Runs("write")
    /\ LET m == Head(strand).msg IN
          /\ QueuePush(m)
          /\ IF NobodyWrites THEN StartWrite(WholeMessage(m)) ELSE UNCHANGED ops
    /\ strand' = Tail(strand)
    /\ UNCHANGED <<reading, active, held, calls, used, accepted, completed, wire>>

\* Mutant: the next write is started before the pop.
MutantPopLate ==
    /\ queue' = Tail(queue)
    /\ IF Tail(queue) # <<>> THEN StartWrite(WholeMessage(Head(queue))) ELSE UNCHANGED ops

\* The front message has been reported: pop it and go on with the next.
PopAndContinue ==
    /\ queue' = Tail(queue)
    /\ IF Tail(queue) # <<>>
         THEN StartWrite(WholeMessage(Head(Tail(queue))))
         ELSE UNCHANGED ops

\* Mutant: post_call is always given success.
MutantPostCall(t) ==
    completed' = Append(completed, [msg |-> Head(queue), ok |-> TRUE, bytes |-> t.bytes])

\* top.postcall(error, bytes), of the message at the front of the queue.
PostCall(t) ==
    completed' = Append(completed, [msg |-> Head(queue), ok |-> t.ok, bytes |-> t.bytes])

TookAll(t) == t.bytes >= t.op.length

WriteHandlerPartial ==
    /\ Runs("wrote")
    /\ Head(strand).ok /\ ~TookAll(Head(strand))
    /\ StartWrite(RestOfFront(Head(strand)))
    /\ strand' = Tail(strand)
    /\ UNCHANGED <<queue, reading, active, held, calls, used, accepted, completed, wire>>

WriteHandlerDone ==
    /\ Runs("wrote")
    /\ Head(strand).ok /\ TookAll(Head(strand))
    /\ PostCall(Head(strand))
    /\ PopAndContinue
    /\ strand' = Tail(strand)
    /\ UNCHANGED <<reading, active, held, calls, used, accepted, wire>>

WriteHandlerError ==
    /\ Runs("wrote")
    /\ ~Head(strand).ok
    /\ PostCall(Head(strand))
    /\ calls' = [calls EXCEPT !["write_error"] = @ + 1]
    /\ PopAndContinue
    /\ strand' = Tail(strand)
    /\ UNCHANGED <<reading, active, held, used, accepted, wire>>

\* Mutant: a close is dropped while there is something to write.
MutantClosesDrained == Alive /\ active /\ queue = <<>>

\* The weak_ptr can be locked, and close_unsafe finds the socket open.
CloseTakesEffect == Alive /\ active

CloseImpl ==
    /\ Runs("close")
    /\ IF CloseTakesEffect
         THEN /\ calls' = [calls EXCEPT !["close"] = @ + 1]
              /\ active' = FALSE
         ELSE UNCHANGED <<calls, active>>
    /\ strand' = Tail(strand)
    /\ UNCHANGED <<queue, ops, reading, held, used, accepted, completed, wire>>

ReadHandler ==
    /\ Runs("read")
    /\ IF Alive
         THEN calls' = [calls EXCEPT ![IF Head(strand).ok THEN "data" ELSE "read_error"] = @ + 1]
         ELSE UNCHANGED calls
    /\ strand' = Tail(strand)
    /\ UNCHANGED <<queue, ops, reading, active, held, used, accepted, completed, wire>>

----------------------------------------------------------------------------
WriteHandler == WriteHandlerPartial \/ WriteHandlerDone \/ WriteHandlerError
RunStrand    == WriteImpl \/ WriteHandler \/ CloseImpl \/ ReadHandler

WriteAnswered == \E i \in 1..Len(ops) : WriteTaken(i) \/ WriteRefused(i)

Next ==
    \/ \E m \in Msgs : Write(m)
    \/ Close \/ Read \/ Release
    \/ WriteAnswered
    \/ \E ok \in BOOLEAN : ReadAnswered(ok)
    \/ RunStrand

Spec == Init /\ [][Next]_vars

\* io_service::run() runs every ready handler, the peer goes on reading what is
\* sent to it (or its connection breaks), and a closed (or
\* destroyed) socket aborts its reads.
FairSpec ==
    /\ Spec
    /\ WF_vars(RunStrand)
    /\ WF_vars(WriteAnswered)
    /\ WF_vars(~(active /\ Alive) /\ ReadAnswered(FALSE))
----------------------------------------------------------------------------
(* Correctness.                                                              *)

Unit == Msgs \X Nat

\* Type invariant: what every variable of the transport holds.
TypeOK ==
    /\ strand \in Seq(Task)
    /\ queue \in Seq(Msgs)
    /\ ops \in Seq(Op)
    /\ reading \in BOOLEAN
    /\ active \in BOOLEAN
    /\ held \in BOOLEAN
    /\ calls \in [Callbacks -> Nat]
    /\ used \in [reads : Nat, closes : Nat]
    /\ accepted \in Seq(Msgs)
    /\ completed \in Seq([msg : Msgs, ok : BOOLEAN, bytes : Nat])
    /\ wire \in Seq(Unit)

\* Where the strand holds handlers of answered write operations.
WroteAt == {i \in 1..Len(strand) : strand[i].kind = "wrote"}

\* The write queue has one operation at a time on the socket: either the socket
\* has yet to answer it or its handler has yet to run.  A second one would
\* interleave the bytes of two messages (write_impl starts one only when the
\* queue was empty, write_handler only for its successor).
OneOperation ==
    /\ Len(ops) <= 1
    /\ ops # <<>> => WroteAt = {}
    /\ \A i, j \in WroteAt : i = j

\* The operation in flight writes the rest of the message at the front of the
\* queue.  write_handler relies on it when it takes queue_top() without a test,
\* and the socket relies on it for the life of the buffer it writes from.
WritesFront(op) ==
    /\ queue # <<>>
    /\ op.msg = Head(queue)
    /\ op.total + op.length = Size[op.msg]

FrontInFlight ==
    /\ \A i \in 1..Len(ops) : WritesFront(ops[i])
    /\ \A i \in WroteAt : WritesFront(strand[i].op)

\* While the socket is open a non-empty queue is being written: no handler leaves
\* it with nobody to continue it.
NothingStalls ==
    active /\ queue # <<>> => ops # <<>> \/ WroteAt # {}

\* The discipline of the write queue: one operation at a time, for the front of the
\* queue, and always one while there is something to write on an open socket.
QueueDiscipline == TypeOK /\ OneOperation /\ FrontInFlight /\ NothingStalls

\* A transport that the user drops without closing it stays alive until every
\* message it accepted has been reported (the handlers carry shared_from_this()).
NothingLostByRelease ==
    active /\ ~Alive => Len(completed) = Len(accepted)

\* Where the strand holds messages that are not in the queue yet.
PostedAt == {i \in 1..Len(strand) : strand[i].kind = "write"}

\* How many messages have reached the queue; the first Len(completed) left it again.
Passed == Len(completed) + Len(queue)

\* Every message written is in exactly one place - reported, queued, or posted to
\* the strand - and in the order of the write() calls: none is lost, reported
\* twice, or overtaken.
Conservation ==
    /\ Passed <= Len(accepted)
    /\ \A n \in 1..Len(completed) : completed[n].msg = accepted[n]
    /\ \A n \in 1..Len(queue) : queue[n] = accepted[Len(completed) + n]
    /\ \A n \in (Passed + 1)..Len(accepted) : \E i \in PostedAt : strand[i].msg = accepted[n]
    /\ \A i \in PostedAt : \E n \in (Passed + 1)..Len(accepted) : strand[i].msg = accepted[n]
    /\ \A i, j \in PostedAt, m, n \in 1..Len(accepted) :
          i < j /\ strand[i].msg = accepted[m] /\ strand[j].msg = accepted[n] => m < n

\* The bytes of m among those of w.
UnitsOf(w, m) == {u \in Range(w) : u[1] = m}

\* The first n bytes of m.
FirstUnits(m, n) == {m} \X (1..n)

\* The socket receives the messages in the order they were written, never
\* interleaved, each from its first byte on and without a gap or a repetition.
WireInOrder ==
    /\ \A i, j \in 1..Len(wire), m, n \in 1..Len(accepted) :
          i < j /\ wire[i][1] = accepted[m] /\ wire[j][1] = accepted[n] =>
             m < n \/ (m = n /\ wire[i][2] < wire[j][2])
    /\ \A m \in Msgs : \E n \in 0..Size[m] : UnitsOf(wire, m) = FirstUnits(m, n)

\* A post_call without an error is a promise that the whole message is on the
\* wire; a message may be cut short only when its post_call had an error, or
\* while it is at the front of the queue.
CutOnlyWithError ==
    /\ \A i \in 1..Len(completed) :
          completed[i].ok =>
             UnitsOf(wire, completed[i].msg) = FirstUnits(completed[i].msg, Size[completed[i].msg])
    /\ \A m \in Msgs :
          UnitsOf(wire, m) # {} =>
             \/ queue # <<>> /\ m = Head(queue)
             \/ \E i \in 1..Len(completed) : completed[i].msg = m

\* What write() was given comes out as it went in: in order, each message once and
\* whole unless an error was reported, also when the user has dropped the transport.
DeliveredInOrder ==
    NothingLostByRelease /\ Conservation /\ WireInOrder /\ CutOnlyWithError

\* on_close is called when the transport goes from open to closed, and only then,
\* however many closes are posted.
ClosedOnce == calls["close"] = IF active THEN 0 ELSE 1

\* After on_close, once the operation that was in flight has been reported,
\* nothing more is reported or sent: the messages still queued, and those written
\* later, are stranded without a post_call.
ClosedQueueIsFrozen ==
    [][ ~active /\ ops = <<>> /\ WroteAt = {} =>
          completed' = completed /\ wire' = wire /\ ops' = <<>> ]_vars

\* A close happens once, and nothing goes on after it but what was in flight.
ClosedForGood == []ClosedOnce /\ ClosedQueueIsFrozen

\* Every message written is eventually reported to its post_call, or the
\* transport is closed.
EveryWriteSettles ==
    \A m \in Msgs :
       m \in Range(accepted) ~> (~active \/ \E i \in 1..Len(completed) : completed[i].msg = m)

\* A close that was asked for happens, unless the object is gone before the
\* close_impl that holds it only weakly has run.
CloseHappens == used.closes > 0 ~> (~active \/ ~Alive)

\* Whatever the user asks for is answered.
WritesAndClosesSettle == EveryWriteSettles /\ CloseHappens

----------------------------------------------------------------------------
(* What other parts of the repository presume, and the transport does not do. *)

\* Nothing is called on the delegate after on_close.  The delegates of the test
\* server presume it: their on_close is `delete this'.
NoCallbackAfterClose ==
    [][ calls["close"] > 0 => calls' = calls ]_vars

----------------------------------------------------------------------------
(* The transport implements the abstract write channel.                      *)

\* How much of the front message the socket has taken.
BytesSent ==
    IF ops # <<>> THEN ops[1].total
    ELSE IF WroteAt # {}
           THEN LET t == strand[CHOOSE i \in WroteAt : TRUE] IN t.op.total + t.bytes
           ELSE 0

Channel == INSTANCE WriteChannel WITH
    reported <- [i \in 1..Len(completed) |-> [msg |-> completed[i].msg,
                                              ok  |-> completed[i].ok]],
    sent     <- BytesSent,
    open     <- active,
    grace    <- ~active /\ (ops # <<>> \/ WroteAt # {})

\* The writing side of the transport behaves as a FIFO channel of messages.
ImplementsChannel == Channel!Spec
=============================================================================
