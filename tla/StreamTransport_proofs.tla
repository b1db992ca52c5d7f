---------------------- MODULE StreamTransport_proofs ----------------------
(***************************************************************************)
(* Proofs about StreamTransport, for every set of messages of every length:  *)
(* its types; the discipline of its write queue - one operation on the        *)
(* socket at a time, always for the front message, and never none while the  *)
(* socket is open and the queue is not empty; what happens at a close; that   *)
(* what is written is delivered in order; and that the transport implements  *)
(* the channel of WriteChannel.                                               *)
(***************************************************************************)
EXTENDS StreamTransport, TLAPS

(***************************************************************************)
(* Sequences.                                                                *)
(***************************************************************************)

\* Removing an element of a sequence leaves a sequence over the same set
\* (an answered operation leaves the list of pending ones).
LEMMA RemoveAtType ==
    ASSUME NEW S, NEW s \in Seq(S), NEW i \in 1..Len(s)
    PROVE  RemoveAt(s, i) \in Seq(S)
  <1>1. SubSeq(s, 1, i - 1) \in Seq(S)
    OBVIOUS
  <1>2. SubSeq(s, i + 1, Len(s)) \in Seq(S)
    OBVIOUS
  <1> QED BY <1>1, <1>2 DEF RemoveAt

\* Removing the only element of a sequence leaves the empty one
\* (after the answer of the one operation there is none pending).
LEMMA RemoveOnly ==
    ASSUME NEW S, NEW s \in Seq(S), Len(s) <= 1, NEW i \in 1..Len(s)
    PROVE  RemoveAt(s, i) = <<>>
  <1>1. PICK n \in Nat : n = Len(s) /\ n <= 1 /\ 1 <= i /\ i <= n /\ i \in Nat
    OBVIOUS
  <1>2. n = 1 /\ i = 1
    BY <1>1
  <1>3. SubSeq(s, 1, 0) = <<>> /\ SubSeq(s, 2, 1) = <<>>
    OBVIOUS
  <1> QED BY <1>1, <1>2, <1>3 DEF RemoveAt

(***************************************************************************)
(* Type correctness.                                                         *)
(***************************************************************************)

\* Counting one more read or close, or one more callback.
LEMMA CountOneMore ==
    /\ \A u \in [reads : Nat, closes : Nat] :
          /\ [u EXCEPT !.reads  = @ + 1] \in [reads : Nat, closes : Nat]
          /\ [u EXCEPT !.closes = @ + 1] \in [reads : Nat, closes : Nat]
    /\ \A f \in [Callbacks -> Nat], c \in Callbacks :
          [f EXCEPT ![c] = @ + 1] \in [Callbacks -> Nat]
  OBVIOUS

\* The bytes the socket takes of one message.
LEMMA TakenType ==
    ASSUME NEW m \in Msgs, NEW from \in Nat, NEW n \in Nat
    PROVE  [k \in 1..n |-> <<m, from + k>>] \in Seq(Unit)
  <1> DEFINE taken == [k \in 1..n |-> <<m, from + k>>]
  <1>1. \A k \in 1..n : <<m, from + k>> \in Unit
    BY DEF Unit
  <1>2. taken \in [1..n -> Unit]
    BY <1>1
  <1> HIDE DEF taken
  <1>3. taken \in Seq(Unit)
    BY <1>2
  <1> QED BY <1>3 DEF taken

\* What is left of a message when part of the buffer was taken.
LEMMA RestOfMessage ==
    ASSUME NEW total \in Nat, NEW length \in Nat, NEW bytes \in Nat, bytes <= length
    PROVE  /\ total + bytes \in Nat
           /\ (total + length) - (total + bytes) \in Nat
  OBVIOUS

\* What the head of the strand is, by its kind.
LEMMA HeadOfStrand ==
    ASSUME TypeOK, NEW kind, Runs(kind)
    PROVE  /\ Head(strand) \in Task
           /\ Tail(strand) \in Seq(Task)
           /\ kind = "write" => Head(strand).msg \in Msgs
           /\ kind = "read"  => Head(strand).ok \in BOOLEAN
           /\ kind = "wrote" => Head(strand) \in WroteTask
  <1>1. strand \in Seq(Task) /\ strand # <<>> /\ Head(strand).kind = kind
    BY DEF TypeOK, Runs
  <1>2. Head(strand) \in Task /\ Tail(strand) \in Seq(Task)
    BY <1>1
  <1> QED BY <1>1, <1>2 DEF Task, WriteTask, CloseTask, ReadTask, WroteTask

\* A message is queued behind the others.
LEMMA QueuedBehind ==
    ASSUME TypeOK, NEW m \in Msgs, queue' = Append(queue, m)
    PROVE  /\ Len(queue') = Len(queue) + 1 /\ queue' # <<>>
           /\ queue # <<>> => Head(queue') = Head(queue)
  <1>1. queue \in Seq(Msgs)
    BY DEF TypeOK
  <1> QED BY <1>1

\* Starting an operation keeps the list of pending ones well typed.
LEMMA StartWriteType ==
    ASSUME TypeOK, NEW op \in Op, StartWrite(op)
    PROVE  ops' \in Seq(Op)
  BY DEF TypeOK, StartWrite

LEMMA WholeMessageType ==
    ASSUME NEW m \in Msgs
    PROVE  WholeMessage(m) \in Op
  BY SizeAssumption DEF WholeMessage, Op

LEMMA PopType ==
    ASSUME TypeOK, queue # <<>>, PopAndContinue
    PROVE  queue' \in Seq(Msgs) /\ ops' \in Seq(Op)
  <1>1. Tail(queue) \in Seq(Msgs)
    BY DEF TypeOK
  <1>2. CASE Tail(queue) = <<>>
    BY <1>1, <1>2 DEF PopAndContinue, TypeOK
  <1>3. CASE Tail(queue) # <<>>
    <2>1. Head(Tail(queue)) \in Msgs
      BY <1>1, <1>3
    <2> QED BY <1>1, <1>3, <2>1, WholeMessageType, StartWriteType DEF PopAndContinue
  <1> QED BY <1>2, <1>3

(***************************************************************************)
(* The inductive invariant.  None of the three parts about the write queue   *)
(* is inductive alone: that a handler finds its message at the front         *)
(* (FrontInFlight) needs that no second handler popped it (OneOperation);    *)
(* that write_impl starts no second operation needs that an empty queue has  *)
(* none in flight (FrontInFlight); and that the queue is never abandoned     *)
(* (NothingStalls) needs both.                                               *)
(***************************************************************************)
IInv == TypeOK /\ OneOperation /\ FrontInFlight /\ NothingStalls

\* At the start nothing is queued and nothing is in flight.
LEMMA InitIInv == Init => IInv
  <1> SUFFICES ASSUME Init PROVE IInv
    OBVIOUS
  <1>1. TypeOK
    <2>1. strand \in Seq(Task) /\ queue \in Seq(Msgs) /\ ops \in Seq(Op)
      BY DEF Init
    <2>2. accepted \in Seq(Msgs) /\ wire \in Seq(Unit)
          /\ completed \in Seq([msg : Msgs, ok : BOOLEAN, bytes : Nat])
      BY DEF Init
    <2> QED BY <2>1, <2>2 DEF Init, TypeOK
  <1>2. WroteAt = {}
    BY DEF Init, WroteAt
  <1> QED BY <1>1, <1>2 DEF Init, IInv, OneOperation, FrontInFlight, NothingStalls

\* The handler of an answered operation runs with its message at the front.
LEMMA WroteAtHead ==
    ASSUME IInv, Runs("wrote")
    PROVE  /\ Head(strand) \in WroteTask
           /\ Head(strand).op \in Op
           /\ 1 \in WroteAt
           /\ WritesFront(Head(strand).op)
           /\ ops = <<>>
  <1>1. Head(strand) \in WroteTask
    BY HeadOfStrand DEF IInv
  <1>2. Head(strand).op \in Op
    BY <1>1 DEF WroteTask
  <1>3. strand \in Seq(Task) /\ strand # <<>>
    BY DEF IInv, TypeOK, Runs
  <1>4. 1 \in 1..Len(strand) /\ Head(strand) = strand[1]
    BY <1>3
  <1>5. 1 \in WroteAt
    BY <1>4 DEF WroteAt, Runs
  <1> QED BY <1>1, <1>2, <1>4, <1>5 DEF IInv, FrontInFlight, OneOperation

\* The operation on the socket is the only one, and writes the front message.
LEMMA OpAt ==
    ASSUME IInv, NEW i \in 1..Len(ops)
    PROVE  ops[i] \in Op /\ WritesFront(ops[i]) /\ WroteAt = {} /\ Len(ops) <= 1 /\ ops # <<>>
  <1>1. ops \in Seq(Op)
    BY DEF IInv, TypeOK
  <1>2. ops[i] \in Op /\ ops # <<>>
    BY <1>1
  <1> QED BY <1>2 DEF IInv, FrontInFlight, OneOperation

\* Every step keeps the types.
LEMMA NextTypeOK ==
    ASSUME IInv, [Next]_vars
    PROVE  TypeOK'
  <1>0. TypeOK
    BY DEF IInv
  <1> USE <1>0 DEF TypeOK
  <1>1. CASE UNCHANGED vars
    BY <1>1 DEF vars
  <1>2. ASSUME NEW m \in Msgs, Write(m) PROVE TypeOK'
    <2>1. [kind |-> "write", msg |-> m] \in Task
      BY DEF Task, WriteTask
    <2> QED BY <1>2, <2>1 DEF Write
  <1>3. CASE Close
    <2>1. [kind |-> "close"] \in Task
      BY DEF Task, CloseTask
    <2>2. used' = [used EXCEPT !.closes = @ + 1]
      BY <1>3 DEF Close
    <2>3. used' \in [reads : Nat, closes : Nat]
      BY <2>2, CountOneMore
    <2> QED BY <1>3, <2>1, <2>3 DEF Close
  <1>4. CASE Read
    <2>1. used' \in [reads : Nat, closes : Nat]
      BY <1>4, CountOneMore DEF Read
    <2> QED BY <1>4, <2>1 DEF Read
  <1>5. CASE Release
    BY <1>5 DEF Release
  <1>6. ASSUME NEW i \in 1..Len(ops), NEW ok \in BOOLEAN, NEW n \in Nat, Answer(i, ok, n)
        PROVE  strand' \in Seq(Task) /\ ops' \in Seq(Op)
    <2>1. ops[i] \in Op
      OBVIOUS
    <2>2. [kind |-> "wrote", op |-> ops[i], ok |-> ok, bytes |-> n] \in Task
      BY <2>1 DEF Task, WroteTask
    <2> QED BY <1>6, <2>2, RemoveAtType DEF Answer
  <1>7. ASSUME NEW i \in 1..Len(ops), WriteTaken(i) PROVE TypeOK'
    <2>0. ops[i] \in Op
      OBVIOUS
    <2>1. ops[i].msg \in Msgs /\ ops[i].total \in Nat /\ ops[i].length \in Nat
      BY <2>0 DEF Op
    <2>2. PICK n \in 0..ops[i].length :
             /\ Answer(i, TRUE, n)
             /\ wire' = wire \o [k \in 1..n |-> <<ops[i].msg, ops[i].total + k>>]
      BY <1>7 DEF WriteTaken
    <2>3. n \in Nat
      BY <2>1
    <2>4. [k \in 1..n |-> <<ops[i].msg, ops[i].total + k>>] \in Seq(Unit)
      BY <2>1, <2>3, TakenType
    <2>5. wire' \in Seq(Unit)
      BY <2>2, <2>4
    <2>6. strand' \in Seq(Task) /\ ops' \in Seq(Op)
      BY <1>6, <2>2, <2>3
    <2> QED BY <2>2, <2>5, <2>6 DEF Answer
  <1>8. ASSUME NEW i \in 1..Len(ops), WriteRefused(i) PROVE TypeOK'
    <2>1. strand' \in Seq(Task) /\ ops' \in Seq(Op)
      BY <1>6, <1>8 DEF WriteRefused
    <2> QED BY <1>8, <2>1 DEF WriteRefused, Answer
  <1>9. ASSUME NEW ok \in BOOLEAN, ReadAnswered(ok) PROVE TypeOK'
    <2>1. [kind |-> "read", ok |-> ok] \in Task
      BY DEF Task, ReadTask
    <2>2. /\ reading' = FALSE /\ strand' = Append(strand, [kind |-> "read", ok |-> ok])
          /\ UNCHANGED <<queue, ops, active, held, calls, used, accepted, completed, wire>>
      BY <1>9 DEF ReadAnswered
    <2>3. strand' \in Seq(Task)
      BY <2>1, <2>2
    <2>4. reading' \in BOOLEAN
      BY <2>2
    <2> QED BY <2>2, <2>3, <2>4
  <1>10. CASE WriteImpl
    <2> DEFINE m == Head(strand).msg
    <2>1. m \in Msgs /\ Tail(strand) \in Seq(Task)
      BY <1>10, HeadOfStrand DEF WriteImpl
    <2>2. ops' \in Seq(Op)
      BY <1>10, <2>1, WholeMessageType, StartWriteType DEF WriteImpl
    <2>3. queue' \in Seq(Msgs)
      BY <1>10, <2>1 DEF WriteImpl, QueuePush
    <2> QED BY <1>10, <2>1, <2>2, <2>3 DEF WriteImpl
  <1>11. ASSUME NEW t \in WroteTask, queue # <<>>, PostCall(t)
         PROVE  completed' \in Seq([msg : Msgs, ok : BOOLEAN, bytes : Nat])
    <2>1. Head(queue) \in Msgs /\ t.ok \in BOOLEAN /\ t.bytes \in Nat
      BY <1>11 DEF WroteTask
    <2> QED BY <1>11, <2>1 DEF PostCall
  <1>12. CASE WriteHandlerPartial
    <2> DEFINE t   == Head(strand)
               sum == t.op.total + t.bytes
               rest == [msg |-> Head(queue), length |-> Size[Head(queue)] - sum, total |-> sum]
    <2>1. Tail(strand) \in Seq(Task) /\ t \in WroteTask /\ t.op \in Op /\ WritesFront(t.op)
      BY <1>12, WroteAtHead, HeadOfStrand, <1>0 DEF WriteHandlerPartial
    <2>2. /\ t.bytes \in Nat /\ t.op.total \in Nat /\ t.op.length \in Nat
          /\ Head(queue) \in Msgs /\ t.op.total + t.op.length = Size[Head(queue)]
      BY <2>1, <1>0 DEF WroteTask, Op, WritesFront
    <2>3. t.bytes <= t.op.length
      BY <1>12, <2>2 DEF WriteHandlerPartial, TookAll
    <2>4. sum \in Nat /\ Size[Head(queue)] - sum \in Nat
      BY <2>2, <2>3, RestOfMessage
    <2>5. rest \in Op
      BY <2>2, <2>4 DEF Op
    <2>6. StartWrite(rest)
      BY <1>12 DEF WriteHandlerPartial, RestOfFront
    <2>7. ops' \in Seq(Op)
      BY <2>5, <2>6, StartWriteType, <1>0
    <2> QED BY <1>12, <2>1, <2>7, <1>0 DEF WriteHandlerPartial
  <1>13. CASE WriteHandlerDone
    <2>1. Tail(strand) \in Seq(Task) /\ Head(strand) \in WroteTask /\ queue # <<>>
      BY <1>13, WroteAtHead, HeadOfStrand, <1>0 DEF WriteHandlerDone, WritesFront
    <2>2. PostCall(Head(strand)) /\ PopAndContinue
      BY <1>13 DEF WriteHandlerDone
    <2> QED BY <1>0, <1>11, <1>13, <2>1, <2>2, PopType DEF WriteHandlerDone
  <1>14. CASE WriteHandlerError
    <2>1. Tail(strand) \in Seq(Task) /\ Head(strand) \in WroteTask /\ queue # <<>>
      BY <1>14, WroteAtHead, HeadOfStrand, <1>0 DEF WriteHandlerError, WritesFront
    <2>2. PostCall(Head(strand)) /\ PopAndContinue
      BY <1>14 DEF WriteHandlerError
    <2>3. calls' \in [Callbacks -> Nat]
      BY <1>14, CountOneMore DEF WriteHandlerError, Callbacks
    <2> QED BY <1>0, <1>11, <1>14, <2>1, <2>2, <2>3, PopType DEF WriteHandlerError
  <1>15. CASE CloseImpl
    <2>1. Tail(strand) \in Seq(Task)
      BY <1>15, HeadOfStrand, <1>0 DEF CloseImpl
    <2>2. calls' \in [Callbacks -> Nat] /\ active' \in BOOLEAN
      BY <1>15, CountOneMore DEF CloseImpl, Callbacks
    <2> QED BY <1>0, <1>15, <2>1, <2>2 DEF CloseImpl
  <1>16. CASE ReadHandler
    <2>1. Tail(strand) \in Seq(Task)
      BY <1>16, HeadOfStrand, <1>0 DEF ReadHandler
    <2>2. calls' = calls
          \/ \E c \in {"data", "read_error"} : calls' = [calls EXCEPT ![c] = @ + 1]
      BY <1>16 DEF ReadHandler
    <2>3. calls' \in [Callbacks -> Nat]
      <3>1. {"data", "read_error"} \subseteq Callbacks
        BY DEF Callbacks
      <3>2. CASE calls' = calls
        BY <3>2
      <3>3. ASSUME NEW c \in {"data", "read_error"}, calls' = [calls EXCEPT ![c] = @ + 1]
            PROVE  calls' \in [Callbacks -> Nat]
        BY <3>1, <3>3, CountOneMore
      <3> QED BY <2>2, <3>2, <3>3
    <2> QED BY <1>0, <1>16, <2>1, <2>3 DEF ReadHandler
  <1> QED BY <1>1, <1>2, <1>3, <1>4, <1>5, <1>7, <1>8, <1>9, <1>10, <1>12, <1>13,
             <1>14, <1>15, <1>16
          DEF Next, WriteAnswered, RunStrand, WriteHandler

(***************************************************************************)
(* How a step moves the handlers of answered operations in the strand.       *)
(***************************************************************************)

\* Posting another handler leaves them where they are.
LEMMA PostOther ==
    ASSUME TypeOK, NEW t, t.kind # "wrote", strand' = Append(strand, t)
    PROVE  WroteAt' = WroteAt /\ \A i \in WroteAt : strand'[i] = strand[i]
  <1>1. /\ Len(strand') = Len(strand) + 1 /\ Len(strand) \in Nat
        /\ \A i \in 1..Len(strand) : strand'[i] = strand[i]
        /\ strand'[Len(strand) + 1] = t
    BY DEF TypeOK
  <1> QED BY <1>1 DEF WroteAt

\* Posting the handler of an answered operation puts it last.
LEMMA PostWrote ==
    ASSUME TypeOK, NEW t, t.kind = "wrote", strand' = Append(strand, t)
    PROVE  /\ WroteAt' = WroteAt \cup {Len(strand) + 1}
           /\ strand'[Len(strand) + 1] = t
  <1>1. /\ Len(strand') = Len(strand) + 1 /\ Len(strand) \in Nat
        /\ \A i \in 1..Len(strand) : strand'[i] = strand[i]
        /\ strand'[Len(strand) + 1] = t
    BY DEF TypeOK
  <1> QED BY <1>1 DEF WroteAt

\* Running another handler moves them forward by one.
LEMMA RunOther ==
    ASSUME TypeOK, NEW kind, kind # "wrote", Runs(kind), strand' = Tail(strand)
    PROVE  /\ \A i \in WroteAt' : i + 1 \in WroteAt /\ strand'[i] = strand[i + 1]
           /\ \A i \in WroteAt : i - 1 \in WroteAt'
  <1>1. /\ Len(strand') = Len(strand) - 1 /\ Len(strand) \in Nat /\ Len(strand) > 0
        /\ \A i \in 1..Len(strand') : strand'[i] = strand[i + 1]
        /\ strand[1].kind # "wrote"
    BY DEF TypeOK, Runs
  <1> QED BY <1>1 DEF WroteAt

\* Running the only one of them leaves none.
LEMMA RunWrote ==
    ASSUME IInv, Runs("wrote"), strand' = Tail(strand)
    PROVE  WroteAt' = {}
  <1>1. /\ Len(strand') = Len(strand) - 1 /\ Len(strand) \in Nat /\ Len(strand) > 0
        /\ \A i \in 1..Len(strand') : strand'[i] = strand[i + 1]
    BY DEF IInv, TypeOK, Runs
  <1>2. \A i \in WroteAt : i = 1
    BY WroteAtHead DEF IInv, OneOperation
  <1> QED BY <1>1, <1>2 DEF WroteAt

\* The three parts of the invariant that speak of the queue, as one goal.
QueueOK == OneOperation /\ FrontInFlight /\ NothingStalls

\* A step that neither touches the queue, the operations nor `active' keeps them,
\* when it leaves the handlers of answered operations alone.
LEMMA StrandOnly ==
    ASSUME IInv, UNCHANGED <<queue, ops>>, active' => active,
           \/ WroteAt' = WroteAt /\ \A i \in WroteAt : strand'[i] = strand[i]
           \/ /\ \A i \in WroteAt' : i + 1 \in WroteAt /\ strand'[i] = strand[i + 1]
              /\ \A i \in WroteAt : i - 1 \in WroteAt'
    PROVE  QueueOK'
  <1>0. WroteAt \subseteq Nat /\ WroteAt' \subseteq Nat
    BY DEF WroteAt
  <1>1. OneOperation'
    <2>1. \A i, j \in WroteAt' : i = j
      <3> TAKE i, j \in WroteAt'
      <3>1. (i \in WroteAt /\ j \in WroteAt) \/ (i + 1 \in WroteAt /\ j + 1 \in WroteAt)
        OBVIOUS
      <3>2. i = j \/ i + 1 = j + 1
        BY <3>1 DEF IInv, OneOperation
      <3> QED BY <1>0, <3>2
    <2>2. WroteAt = {} => WroteAt' = {}
      OBVIOUS
    <2> QED BY <2>1, <2>2 DEF IInv, OneOperation
  <1>2. FrontInFlight'
    <2>1. \A op : WritesFront(op) => WritesFront(op)'
      BY DEF WritesFront
    <2>2. \A i \in WroteAt' : WritesFront(strand'[i].op)
      BY DEF IInv, FrontInFlight
    <2>3. \A i \in 1..Len(ops') : WritesFront(ops'[i])
      BY DEF IInv, FrontInFlight
    <2> QED BY <2>1, <2>2, <2>3 DEF FrontInFlight, WritesFront
  <1>3. NothingStalls'
    BY DEF IInv, NothingStalls
  <1> QED BY <1>1, <1>2, <1>3 DEF QueueOK

\* Once nothing is in flight, async_write either starts the front message or, on
\* a closed socket, leaves the queue alone.
LEMMA StartedFront ==
    ASSUME TypeOK', ops = <<>>, WroteAt' = {}, UNCHANGED active, queue' # <<>>,
           NEW op \in Op, StartWrite(op),
           op.msg = Head(queue'), op.total + op.length = Size[op.msg]
    PROVE  QueueOK'
  <1>1. active \in BOOLEAN
    BY DEF TypeOK
  <1>2. CASE active
    <2>1. ops' = <<op>>
      BY <1>2 DEF StartWrite
    <2>2. Len(ops') = 1 /\ ops' # <<>> /\ \A i \in 1..Len(ops') : ops'[i] = op
      BY <2>1
    <2> QED BY <2>2 DEF QueueOK, OneOperation, FrontInFlight, NothingStalls, WritesFront
  <1>3. CASE ~active
    <2>1. ops' = <<>>
      BY <1>3 DEF StartWrite
    <2> QED BY <1>3, <2>1 DEF QueueOK, OneOperation, FrontInFlight, NothingStalls
  <1> QED BY <1>1, <1>2, <1>3

\* WholeMessage is the operation for the whole of a message.
LEMMA WholeFront ==
    ASSUME NEW m \in Msgs
    PROVE  /\ WholeMessage(m) \in Op
           /\ WholeMessage(m).msg = m
           /\ WholeMessage(m).total + WholeMessage(m).length = Size[m]
  <1>1. Size[m] \in Nat
    BY SizeAssumption
  <1> QED BY <1>1 DEF WholeMessage, Op

(***************************************************************************)
(* The invariant is preserved.                                               *)
(***************************************************************************)
LEMMA NextQueueOK ==
    ASSUME IInv, TypeOK', [Next]_vars
    PROVE  QueueOK'
  <1>0. TypeOK /\ OneOperation /\ FrontInFlight /\ NothingStalls
    BY DEF IInv
  <1>1. CASE UNCHANGED vars
    BY <1>1, StrandOnly DEF vars, WroteAt
  <1>2. ASSUME NEW m \in Msgs, Write(m) PROVE QueueOK'
    BY <1>0, <1>2, PostOther, StrandOnly DEF Write
  <1>3. CASE Close
    BY <1>0, <1>3, PostOther, StrandOnly DEF Close
  <1>4. CASE Read
    BY <1>4, StrandOnly DEF Read, WroteAt
  <1>5. CASE Release
    BY <1>5, StrandOnly DEF Release, WroteAt
  <1>6. ASSUME NEW i \in 1..Len(ops), NEW ok, NEW n, Answer(i, ok, n)
        PROVE  QueueOK'
    <2>1. ops \in Seq(Op) /\ Len(ops) <= 1 /\ WritesFront(ops[i])
      BY <1>0 DEF TypeOK, OneOperation, FrontInFlight
    <2>2. ops' = <<>> /\ UNCHANGED <<queue, active>>
      BY <1>6, <2>1, RemoveOnly DEF Answer
    <2>3. WroteAt = {}
      BY <1>0, <2>1 DEF OneOperation
    <2> DEFINE t == [kind |-> "wrote", op |-> ops[i], ok |-> ok, bytes |-> n]
    <2>4. strand' = Append(strand, t) /\ t.kind = "wrote" /\ t.op = ops[i]
      BY <1>6 DEF Answer
    <2>5. WroteAt' = {Len(strand) + 1} /\ strand'[Len(strand) + 1].op = ops[i]
      BY <1>0, <2>3, <2>4, PostWrote
    <2> QED BY <2>1, <2>2, <2>5
            DEF QueueOK, OneOperation, FrontInFlight, NothingStalls, WritesFront
  <1>7. ASSUME NEW i \in 1..Len(ops), WriteTaken(i) \/ WriteRefused(i) PROVE QueueOK'
    BY <1>6, <1>7 DEF WriteTaken, WriteRefused
  <1>8. ASSUME NEW ok \in BOOLEAN, ReadAnswered(ok) PROVE QueueOK'
    <2>1. /\ strand' = Append(strand, [kind |-> "read", ok |-> ok])
          /\ UNCHANGED <<queue, ops, active>>
      BY <1>8 DEF ReadAnswered
    <2> QED BY <1>0, <2>1, PostOther, StrandOnly
  <1>9. CASE WriteImpl
    <2> DEFINE m == Head(strand).msg
    <2>1. /\ m \in Msgs /\ Runs("write") /\ strand' = Tail(strand)
          /\ queue' = Append(queue, m) /\ UNCHANGED active
      BY <1>0, <1>9, HeadOfStrand DEF WriteImpl, QueuePush
    <2>2. /\ \A i \in WroteAt' : i + 1 \in WroteAt /\ strand'[i] = strand[i + 1]
          /\ \A i \in WroteAt : i - 1 \in WroteAt'
      BY <1>0, <2>1, RunOther
    <2>3. CASE queue = <<>>
      <3>1. ops = <<>> /\ WroteAt = {}
        BY <1>0, <2>3 DEF FrontInFlight, WritesFront, TypeOK
      <3>2. WroteAt' = {}
        BY <2>2, <3>1
      <3>3. queue' # <<>> /\ Head(queue') = m
        BY <2>1, <2>3
      <3>4. StartWrite(WholeMessage(m))
        BY <1>9, <2>3 DEF WriteImpl, NobodyWrites
      <3>5. PICK op \in Op : StartWrite(op) /\ op.msg = m /\ op.total + op.length = Size[m]
        BY <2>1, <3>4, WholeFront
      <3> HIDE DEF m
      <3> QED BY <2>1, <3>1, <3>2, <3>3, <3>5, StartedFront
    <2>4. CASE queue # <<>>
      <3>1. ops' = ops
        BY <1>9, <2>4 DEF WriteImpl, NobodyWrites
      <3>2. queue' # <<>> /\ Head(queue') = Head(queue)
        BY <1>0, <2>1, <2>4, QueuedBehind
      <3>3. WroteAt \subseteq Nat /\ WroteAt' \subseteq Nat
        BY DEF WroteAt
      <3>4. OneOperation'
        <4>1. \A i, j \in WroteAt' : i = j
          <5> TAKE i, j \in WroteAt'
          <5>1. i \in Nat /\ j \in Nat /\ i + 1 \in WroteAt /\ j + 1 \in WroteAt
            BY <2>2, <3>3
          <5>2. i + 1 = j + 1
            BY <1>0, <5>1 DEF OneOperation
          <5> QED BY <5>1, <5>2
        <4>2. ops # <<>> => WroteAt' = {}
          BY <1>0, <2>2 DEF OneOperation
        <4> QED BY <1>0, <3>1, <4>1, <4>2 DEF OneOperation
      <3>5. FrontInFlight'
        <4>1. \A op : WritesFront(op) => WritesFront(op)'
          BY <3>2 DEF WritesFront
        <4>2. \A i \in WroteAt' : WritesFront(strand'[i].op)
          BY <1>0, <2>2 DEF FrontInFlight
        <4>3. \A i \in 1..Len(ops') : WritesFront(ops'[i])
          BY <1>0, <3>1 DEF FrontInFlight
        <4> QED BY <4>1, <4>2, <4>3 DEF FrontInFlight, WritesFront
      <3>6. NothingStalls'
        BY <1>0, <2>1, <2>2, <2>4, <3>1 DEF NothingStalls
      <3> QED BY <3>4, <3>5, <3>6 DEF QueueOK
    <2> QED BY <2>3, <2>4
  <1>10. CASE WriteHandlerPartial
    <2> DEFINE t    == Head(strand)
               sum  == t.op.total + t.bytes
               rest == [msg |-> Head(queue), length |-> Size[Head(queue)] - sum, total |-> sum]
    <2>1. /\ Runs("wrote") /\ strand' = Tail(strand) /\ UNCHANGED <<queue, active>>
          /\ StartWrite(rest) /\ ~(t.bytes >= t.op.length)
      BY <1>10 DEF WriteHandlerPartial, RestOfFront, TookAll
    <2>2. t \in WroteTask /\ t.op \in Op /\ WritesFront(t.op) /\ ops = <<>>
      BY <2>1, WroteAtHead
    <2>3. /\ t.bytes \in Nat /\ t.op.total \in Nat /\ t.op.length \in Nat
          /\ queue # <<>> /\ Head(queue) \in Msgs
          /\ t.op.total + t.op.length = Size[Head(queue)]
      BY <1>0, <2>2 DEF WroteTask, Op, WritesFront, TypeOK
    <2>4. t.bytes <= t.op.length
      BY <2>1, <2>3
    <2>5. sum \in Nat /\ Size[Head(queue)] - sum \in Nat
      BY <2>3, <2>4, RestOfMessage
    <2>6. rest \in Op /\ rest.msg = Head(queue) /\ rest.total + rest.length = Size[rest.msg]
      BY <2>3, <2>5, SizeAssumption DEF Op
    <2>7. WroteAt' = {}
      BY <2>1, RunWrote
    <2> HIDE DEF rest
    <2> QED BY <2>1, <2>2, <2>3, <2>6, <2>7, StartedFront
  <1>11. ASSUME Runs("wrote"), strand' = Tail(strand), PopAndContinue, UNCHANGED active
         PROVE  QueueOK'
    <2>1. ops = <<>> /\ queue # <<>> /\ WroteAt' = {}
      BY <1>11, WroteAtHead, RunWrote DEF WritesFront
    <2>2. queue' = Tail(queue) /\ queue' \in Seq(Msgs)
      BY <1>0, <1>11, <2>1 DEF PopAndContinue, TypeOK
    <2>3. CASE queue' = <<>>
      <3>1. ops' = <<>>
        BY <1>11, <2>1, <2>2, <2>3 DEF PopAndContinue
      <3> QED BY <2>1, <2>3, <3>1 DEF QueueOK, OneOperation, FrontInFlight, NothingStalls
    <2>4. CASE queue' # <<>>
      <3>1. Head(queue') \in Msgs
        BY <2>2, <2>4
      <3>2. StartWrite(WholeMessage(Head(queue')))
        BY <1>11, <2>2, <2>4 DEF PopAndContinue
      <3> QED BY <1>11, <2>1, <2>4, <3>1, <3>2, StartedFront, WholeFront
    <2> QED BY <2>3, <2>4
  <1>12. CASE WriteHandlerDone \/ WriteHandlerError
    BY <1>11, <1>12 DEF WriteHandlerDone, WriteHandlerError
  <1>13. CASE CloseImpl
    <2>1. Runs("close") /\ strand' = Tail(strand) /\ UNCHANGED <<queue, ops>>
          /\ (active' => active)
      BY <1>13 DEF CloseImpl, CloseTakesEffect
    <2> QED BY <1>0, <2>1, RunOther, StrandOnly
  <1>14. CASE ReadHandler
    BY <1>0, <1>14, RunOther, StrandOnly DEF ReadHandler
  <1> QED BY <1>1, <1>2, <1>3, <1>4, <1>5, <1>7, <1>8, <1>9, <1>10, <1>12, <1>13, <1>14
          DEF Next, WriteAnswered, RunStrand, WriteHandler

\* The invariant holds in every state of every behaviour.
THEOREM Invariance == Spec => []IInv
  <1>1. IInv /\ [Next]_vars => IInv'
    BY NextTypeOK, NextQueueOK DEF IInv, QueueOK
  <1> QED BY InitIInv, <1>1, PTL DEF Spec

\* Every variable of the transport keeps its type.
THEOREM TypeCorrect == Spec => []TypeOK
  <1>1. IInv => TypeOK
    BY DEF IInv
  <1> QED BY Invariance, <1>1, PTL

\* The transport never has two write operations on its socket, so the bytes of
\* two messages are never interleaved by it.
THEOREM AtMostOneOperation == Spec => []OneOperation
  <1>1. IInv => OneOperation
    BY DEF IInv
  <1> QED BY Invariance, <1>1, PTL

\* Every answered operation finds its own message at the front of the queue:
\* queue_top() is never taken of an empty queue, nor of another message.
THEOREM AlwaysTheFront == Spec => []FrontInFlight
  <1>1. IInv => FrontInFlight
    BY DEF IInv
  <1> QED BY Invariance, <1>1, PTL

\* A non-empty queue of an open transport always has somebody to continue it.
THEOREM NeverStalls == Spec => []NothingStalls
  <1>1. IInv => NothingStalls
    BY DEF IInv
  <1> QED BY Invariance, <1>1, PTL

\* The discipline of the write queue: one operation at a time, for the front of
\* the queue, and always one while there is something to write on an open socket.
THEOREM QueueIsDisciplined == Spec => []QueueDiscipline
  <1>1. IInv => QueueDiscipline
    BY DEF IInv, QueueDiscipline
  <1> QED BY Invariance, <1>1, PTL

(***************************************************************************)
(* Closing.                                                                  *)
(***************************************************************************)

\* on_close is called exactly when the transport goes from open to closed.
THEOREM OnCloseOnce == Spec => []ClosedOnce
  <1>1. Init => ClosedOnce
    BY DEF Init, ClosedOnce, Callbacks
  <1>2. ASSUME IInv, ClosedOnce, [Next]_vars PROVE ClosedOnce'
    <2>0. calls \in [Callbacks -> Nat] /\ "close" \in Callbacks
      BY <1>2 DEF IInv, TypeOK, Callbacks
    <2>1. CASE CloseImpl
      <3>1. CASE Alive /\ active
        <4>1. calls' = [calls EXCEPT !["close"] = @ + 1] /\ active' = FALSE
          BY <2>1, <3>1 DEF CloseImpl, CloseTakesEffect
        <4> QED BY <1>2, <2>0, <3>1, <4>1 DEF ClosedOnce
      <3>2. CASE ~(Alive /\ active)
        <4>1. UNCHANGED <<calls, active>>
          BY <2>1, <3>2 DEF CloseImpl, CloseTakesEffect
        <4> QED BY <1>2, <4>1 DEF ClosedOnce
      <3> QED BY <3>1, <3>2
    <2>2. CASE ReadHandler
      <3>1. UNCHANGED active
        BY <2>2 DEF ReadHandler
      <3>2. calls'["close"] = calls["close"]
        BY <2>0, <2>2 DEF ReadHandler
      <3> QED BY <1>2, <3>1, <3>2 DEF ClosedOnce
    <2>3. CASE WriteHandlerError
      <3>1. UNCHANGED active
        BY <2>3, WroteAtHead, <1>2 DEF WriteHandlerError
      <3>2. calls'["close"] = calls["close"]
        BY <2>0, <2>3 DEF WriteHandlerError
      <3> QED BY <1>2, <3>1, <3>2 DEF ClosedOnce
    <2>4. ASSUME UNCHANGED <<calls, active>> PROVE ClosedOnce'
      BY <1>2, <2>4 DEF ClosedOnce
    <2>5. CASE UNCHANGED vars \/ Close \/ Read \/ Release
      BY <2>4, <2>5 DEF vars, Close, Read, Release
    <2>6. ASSUME NEW m \in Msgs, Write(m) PROVE ClosedOnce'
      BY <2>4, <2>6 DEF Write
    <2>7. ASSUME NEW i \in 1..Len(ops), WriteTaken(i) \/ WriteRefused(i) PROVE ClosedOnce'
      BY <2>4, <2>7 DEF WriteTaken, WriteRefused, Answer
    <2>8. ASSUME NEW ok \in BOOLEAN, ReadAnswered(ok) PROVE ClosedOnce'
      BY <2>4, <2>8 DEF ReadAnswered
    <2>9. CASE WriteImpl \/ WriteHandlerPartial \/ WriteHandlerDone
      BY <2>4, <2>9 DEF WriteImpl, WriteHandlerPartial, WriteHandlerDone
    <2> QED BY <1>2, <2>1, <2>2, <2>3, <2>5, <2>6, <2>7, <2>8, <2>9
            DEF Next, WriteAnswered, RunStrand, WriteHandler
  <1> QED BY Invariance, <1>1, <1>2, PTL DEF Spec

\* Once a closed transport has nothing in flight, no step reports a message or
\* writes a byte: what is still queued is stranded without a post_call.
THEOREM StrandedAfterClose == Spec => ClosedQueueIsFrozen
  <1> DEFINE Quiet == ~active /\ ops = <<>> /\ WroteAt = {}
  <1>1. ASSUME IInv, [Next]_vars, Quiet
        PROVE  completed' = completed /\ wire' = wire /\ ops' = <<>>
    <2>1. ~Runs("wrote")
      BY <1>1, WroteAtHead
    <2>2. ~WriteAnswered
      BY <1>1 DEF WriteAnswered
    <2>3. ~WriteHandler
      BY <2>1 DEF WriteHandler, WriteHandlerPartial, WriteHandlerDone, WriteHandlerError
    <2>4. CASE UNCHANGED vars
      BY <1>1, <2>4 DEF vars
    <2>5. CASE (\E m \in Msgs : Write(m)) \/ Close \/ Read \/ Release
      BY <1>1, <2>5 DEF Write, Close, Read, Release
    <2>6. ASSUME NEW ok \in BOOLEAN, ReadAnswered(ok)
          PROVE  completed' = completed /\ wire' = wire /\ ops' = <<>>
      BY <1>1, <2>6 DEF ReadAnswered
    <2>7. CASE WriteImpl
      BY <1>1, <2>7 DEF WriteImpl, StartWrite
    <2>8. CASE CloseImpl \/ ReadHandler
      BY <1>1, <2>8 DEF CloseImpl, ReadHandler
    <2> QED BY <1>1, <2>2, <2>3, <2>4, <2>5, <2>6, <2>7, <2>8 DEF Next, RunStrand
  <1>2. IInv /\ [Next]_vars
          => [ Quiet => completed' = completed /\ wire' = wire /\ ops' = <<>> ]_vars
    BY <1>1
  <1> QED BY Invariance, <1>2, PTL DEF Spec, ClosedQueueIsFrozen

\* on_close comes once, and after it nothing happens but what was in flight.
THEOREM ClosesForGood == Spec => ClosedForGood
  BY OnCloseOnce, StrandedAfterClose DEF ClosedForGood

(***************************************************************************)
(* Delivery.  That nothing is lost, doubled or overtaken on the way from     *)
(* write() to its post_call is inductive with the discipline of the queue    *)
(* and with the fact that no message is written twice.  For the bytes on the *)
(* wire it must also be known how many bytes of the front message the socket *)
(* has by now (SentSoFar), and that it has none of a message behind it       *)
(* (SentInTurn).                                                             *)
(***************************************************************************)

\* No message is written twice.
Unique == \A m, n \in 1..Len(accepted) : accepted[m] = accepted[n] => m = n

FIFOInv == Unique /\ Conservation

\* An operation on the socket begins where the bytes that were taken end, and an
\* answered one has added the bytes it was told of.
SentSoFar ==
    /\ \A i \in 1..Len(ops) : UnitsOf(wire, ops[i].msg) = FirstUnits(ops[i].msg, ops[i].total)
    /\ \A i \in WroteAt :
          /\ strand[i].bytes <= strand[i].op.length
          /\ UnitsOf(wire, strand[i].op.msg)
                = FirstUnits(strand[i].op.msg, strand[i].op.total + strand[i].bytes)

\* The socket has got bytes of messages reported and of the front one only.
SentInTurn ==
    \A i \in 1..Len(wire) : \E n \in 1..Len(accepted) :
       n <= Passed /\ n <= Len(completed) + 1 /\ wire[i][1] = accepted[n]

WireInv == SentSoFar /\ SentInTurn /\ WireInOrder /\ CutOnlyWithError

\* Posting a handler other than write_impl leaves the messages posted where they are.
LEMMA PostNoWrite ==
    ASSUME TypeOK, NEW t, t.kind # "write", strand' = Append(strand, t)
    PROVE  PostedAt' = PostedAt /\ \A i \in PostedAt : strand'[i] = strand[i]
  <1>1. /\ Len(strand') = Len(strand) + 1 /\ Len(strand) \in Nat
        /\ \A i \in 1..Len(strand) : strand'[i] = strand[i]
        /\ strand'[Len(strand) + 1] = t
    BY DEF TypeOK
  <1> QED BY <1>1 DEF PostedAt

\* Running a handler other than write_impl moves them forward by one.
LEMMA RunNoWrite ==
    ASSUME TypeOK, NEW kind, kind # "write", Runs(kind), strand' = Tail(strand)
    PROVE  /\ \A i \in PostedAt' : i + 1 \in PostedAt /\ strand'[i] = strand[i + 1]
           /\ \A i \in PostedAt : i - 1 \in PostedAt' /\ strand'[i - 1] = strand[i]
  <1>1. /\ Len(strand') = Len(strand) - 1 /\ Len(strand) \in Nat /\ Len(strand) > 0
        /\ \A i \in 1..Len(strand') : strand'[i] = strand[i + 1]
        /\ strand[1].kind # "write"
    BY DEF TypeOK, Runs
  <1>2. ASSUME NEW i \in PostedAt' PROVE i + 1 \in PostedAt /\ strand'[i] = strand[i + 1]
    BY <1>1 DEF PostedAt
  <1>3. ASSUME NEW i \in PostedAt PROVE i - 1 \in PostedAt' /\ strand'[i - 1] = strand[i]
    <2>1. i \in 1..Len(strand) /\ i # 1
      BY <1>1 DEF PostedAt
    <2>2. i - 1 \in 1..Len(strand') /\ (i - 1) + 1 = i
      BY <1>1, <2>1
    <2> QED BY <1>1, <2>2 DEF PostedAt
  <1> QED BY <1>2, <1>3

\* The messages posted, moved by d places at most, with the rest in place.
LEMMA SamePosted ==
    ASSUME TypeOK, Conservation, UNCHANGED <<accepted, Passed>>,
           \/ PostedAt' = PostedAt /\ \A i \in PostedAt : strand'[i] = strand[i]
           \/ /\ \A i \in PostedAt' : i + 1 \in PostedAt /\ strand'[i] = strand[i + 1]
              /\ \A i \in PostedAt : i - 1 \in PostedAt' /\ strand'[i - 1] = strand[i],
           \A n \in 1..Len(completed') : completed'[n].msg = accepted[n],
           \A n \in 1..Len(queue') : queue'[n] = accepted[Len(completed') + n]
    PROVE  Conservation'
  <1>0. PostedAt \subseteq Nat /\ PostedAt' \subseteq Nat
    BY DEF PostedAt
  <1>1. \A n \in (Passed + 1)..Len(accepted) : \E i \in PostedAt' : strand'[i].msg = accepted[n]
    <2> TAKE n \in (Passed + 1)..Len(accepted)
    <2>1. PICK i \in PostedAt : strand[i].msg = accepted[n]
      BY DEF Conservation
    <2> QED BY <2>1
  <1>2. \A i \in PostedAt' : \E n \in (Passed + 1)..Len(accepted) : strand'[i].msg = accepted[n]
    <2> TAKE i \in PostedAt'
    <2>1. PICK j \in PostedAt : strand'[i] = strand[j]
      OBVIOUS
    <2> QED BY <2>1 DEF Conservation
  <1>3. ASSUME NEW i \in PostedAt', NEW j \in PostedAt',
               NEW m \in 1..Len(accepted), NEW n \in 1..Len(accepted),
               i < j, strand'[i].msg = accepted[m], strand'[j].msg = accepted[n]
        PROVE  m < n
    <2>1. CASE PostedAt' = PostedAt /\ \A k \in PostedAt : strand'[k] = strand[k]
      BY <1>3, <2>1 DEF Conservation
    <2>2. CASE \A k \in PostedAt' : k + 1 \in PostedAt /\ strand'[k] = strand[k + 1]
      <3>1. i + 1 \in PostedAt /\ j + 1 \in PostedAt /\ i + 1 < j + 1
        BY <1>0, <1>3, <2>2
      <3>2. strand[i + 1].msg = accepted[m] /\ strand[j + 1].msg = accepted[n]
        BY <1>3, <2>2
      <3> QED BY <3>1, <3>2 DEF Conservation
    <2> QED BY <2>1, <2>2
  <1>4. Passed' = Passed /\ Passed <= Len(accepted)
    BY DEF Conservation
  <1> QED BY <1>1, <1>2, <1>3, <1>4 DEF Conservation

\* When the first handler is write_impl, its message is the next of those written.
LEMMA NextPosted ==
    ASSUME TypeOK, FIFOInv, Runs("write")
    PROVE  /\ 1 \in PostedAt /\ strand[1] = Head(strand)
           /\ Passed + 1 \in 1..Len(accepted)
           /\ Head(strand).msg = accepted[Passed + 1]
  <1>0. Len(accepted) \in Nat /\ Passed \in Nat /\ PostedAt \subseteq Nat \ {0}
    BY DEF TypeOK, Passed, PostedAt
  <1>1. 1 \in PostedAt /\ strand[1] = Head(strand)
    BY DEF TypeOK, Runs, PostedAt
  <1>2. PICK n \in (Passed + 1)..Len(accepted) : strand[1].msg = accepted[n]
    BY <1>1 DEF FIFOInv, Conservation
  <1>3. Passed + 1 \in (Passed + 1)..Len(accepted) /\ Passed + 1 \in 1..Len(accepted)
        /\ n \in 1..Len(accepted)
    BY <1>0, <1>2
  <1>4. PICK i \in PostedAt : strand[i].msg = accepted[Passed + 1]
    BY <1>3 DEF FIFOInv, Conservation
  <1>5. ~(1 < i)
    <2>1. 1 < i => n < Passed + 1
      BY <1>1, <1>2, <1>3, <1>4 DEF FIFOInv, Conservation
    <2> QED BY <1>0, <1>2, <2>1
  <1>6. i = 1
    BY <1>0, <1>4, <1>5
  <1> QED BY <1>1, <1>3, <1>4, <1>6

\* The message written is the last one, wherever it is.
LEMMA WriteFIFO ==
    ASSUME TypeOK, FIFOInv, NEW m \in Msgs, Write(m)
    PROVE  FIFOInv'
  <1>0. /\ Len(accepted) \in Nat /\ Len(strand) \in Nat /\ Passed \in Nat
        /\ Passed <= Len(accepted) /\ PostedAt \subseteq 1..Len(strand)
    BY DEF TypeOK, Passed, FIFOInv, Conservation, PostedAt
  <1>1. /\ Len(strand') = Len(strand) + 1
        /\ \A i \in 1..Len(strand) : strand'[i] = strand[i]
        /\ strand'[Len(strand) + 1] = [kind |-> "write", msg |-> m]
    BY DEF TypeOK, Write
  <1>2. /\ Len(accepted') = Len(accepted) + 1
        /\ \A i \in 1..Len(accepted) : accepted'[i] = accepted[i] /\ accepted[i] # m
        /\ accepted'[Len(accepted) + 1] = m
    BY DEF TypeOK, Write
  <1>3. UNCHANGED <<queue, completed, Passed>>
    BY DEF Write, Passed
  <1>4. PostedAt' = PostedAt \cup {Len(strand) + 1}
    BY <1>0, <1>1 DEF PostedAt
  <1>5. Unique'
    BY <1>0, <1>2 DEF FIFOInv, Unique
  <1>6. /\ \A n \in 1..Len(completed) : completed[n].msg = accepted'[n]
        /\ \A n \in 1..Len(queue) : queue[n] = accepted'[Len(completed) + n]
    <2>1. Len(completed) \in Nat /\ Len(queue) \in Nat /\ Passed = Len(completed) + Len(queue)
      BY DEF TypeOK, Passed
    <2>2. /\ \A n \in 1..Len(completed) : n \in 1..Len(accepted)
          /\ \A n \in 1..Len(queue) : Len(completed) + n \in 1..Len(accepted)
      BY <1>0, <2>1
    <2> QED BY <1>2, <2>2 DEF FIFOInv, Conservation
  <1>7. \A n \in (Passed + 1)..Len(accepted') :
           \E i \in PostedAt' : strand'[i].msg = accepted'[n]
    <2> TAKE n \in (Passed + 1)..Len(accepted')
    <2>1. CASE n = Len(accepted) + 1
      BY <1>1, <1>2, <1>4, <2>1
    <2>2. CASE n # Len(accepted) + 1
      <3>1. n \in (Passed + 1)..Len(accepted) /\ n \in 1..Len(accepted)
        BY <1>0, <1>2, <2>2
      <3>2. PICK i \in PostedAt : strand[i].msg = accepted[n]
        BY <3>1 DEF FIFOInv, Conservation
      <3> QED BY <1>0, <1>1, <1>2, <1>4, <3>1, <3>2
    <2> QED BY <2>1, <2>2
  <1>8. \A i \in PostedAt' : \E n \in (Passed + 1)..Len(accepted') :
           strand'[i].msg = accepted'[n]
    <2> TAKE i \in PostedAt'
    <2>1. CASE i = Len(strand) + 1
      <3>1. Len(accepted) + 1 \in (Passed + 1)..Len(accepted')
        BY <1>0, <1>2
      <3> QED BY <1>1, <1>2, <2>1, <3>1
    <2>2. CASE i \in PostedAt
      <3>1. PICK n \in (Passed + 1)..Len(accepted) : strand[i].msg = accepted[n]
        BY <2>2 DEF FIFOInv, Conservation
      <3>2. n \in 1..Len(accepted) /\ n \in (Passed + 1)..Len(accepted')
        BY <1>0, <1>2, <3>1
      <3> QED BY <1>0, <1>1, <1>2, <2>2, <3>1, <3>2
    <2> QED BY <1>4, <2>1, <2>2
  <1>9. ASSUME NEW i \in PostedAt', NEW j \in PostedAt', i < j,
               NEW p \in 1..Len(accepted'), NEW n \in 1..Len(accepted'),
               strand'[i].msg = accepted'[p], strand'[j].msg = accepted'[n]
        PROVE  p < n
    <2>1. i \in PostedAt
      BY <1>0, <1>4, <1>9
    <2>2. p \in 1..Len(accepted)
      <3>1. PICK k \in (Passed + 1)..Len(accepted) : strand[i].msg = accepted[k]
        BY <2>1 DEF FIFOInv, Conservation
      <3>2. k \in 1..Len(accepted) /\ strand'[i] = strand[i]
        BY <1>0, <1>1, <2>1, <3>1
      <3>3. accepted'[p] # m
        BY <1>2, <1>9, <3>1, <3>2
      <3> QED BY <1>0, <1>2, <3>3
    <2>3. CASE j = Len(strand) + 1
      <3>1. n \notin 1..Len(accepted)
        BY <1>1, <1>2, <1>9, <2>3
      <3> QED BY <1>0, <1>2, <2>2, <3>1
    <2>4. CASE j \in PostedAt
      <3>1. n \in 1..Len(accepted)
        <4>1. PICK k \in (Passed + 1)..Len(accepted) : strand[j].msg = accepted[k]
          BY <2>4 DEF FIFOInv, Conservation
        <4>2. k \in 1..Len(accepted) /\ strand'[j] = strand[j]
          BY <1>0, <1>1, <2>4, <4>1
        <4>3. accepted'[n] # m
          BY <1>2, <1>9, <4>1, <4>2
        <4> QED BY <1>0, <1>2, <4>3
      <3>2. strand[i].msg = accepted[p] /\ strand[j].msg = accepted[n]
        BY <1>0, <1>1, <1>2, <1>9, <2>1, <2>2, <2>4, <3>1
      <3> QED BY <1>9, <2>1, <2>2, <2>4, <3>1, <3>2 DEF FIFOInv, Conservation
    <2> QED BY <1>4, <2>3, <2>4
  <1>10. Passed' <= Len(accepted')
    BY <1>0, <1>2, <1>3
  <1> QED BY <1>3, <1>5, <1>6, <1>7, <1>8, <1>9, <1>10 DEF FIFOInv, Conservation

\* write_impl takes the first of the messages posted to the end of the queue.
LEMMA WriteImplFIFO ==
    ASSUME TypeOK, FIFOInv, WriteImpl
    PROVE  FIFOInv'
  <1> DEFINE m == Head(strand).msg
  <1>0. /\ Len(accepted) \in Nat /\ Passed \in Nat /\ PostedAt \subseteq 1..Len(strand)
        /\ Len(completed) \in Nat /\ Len(queue) \in Nat
        /\ Passed = Len(completed) + Len(queue)
    BY DEF TypeOK, Passed, PostedAt
  <1>1. /\ Len(strand') = Len(strand) - 1 /\ Len(strand) \in Nat /\ Len(strand) > 0
        /\ \A i \in 1..Len(strand') : strand'[i] = strand[i + 1]
    BY DEF TypeOK, WriteImpl, Runs
  <1>2. /\ 1 \in PostedAt /\ strand[1].msg = m
        /\ Passed + 1 \in 1..Len(accepted) /\ m = accepted[Passed + 1]
    BY NextPosted DEF WriteImpl
  <1>3. UNCHANGED <<accepted, completed>>
    BY DEF WriteImpl
  <1>4. m \in Msgs /\ queue' = Append(queue, m)
    BY HeadOfStrand DEF WriteImpl, QueuePush
  <1>5. /\ Len(queue') = Len(queue) + 1
        /\ \A n \in 1..Len(queue) : queue'[n] = queue[n]
        /\ queue'[Len(queue) + 1] = m
    BY <1>4 DEF TypeOK
  <1>6. Passed' = Passed + 1
    BY <1>0, <1>3, <1>5 DEF Passed
  <1>7. /\ \A i \in PostedAt' : i + 1 \in PostedAt /\ strand'[i] = strand[i + 1] /\ i + 1 # 1
        /\ \A i \in PostedAt : i # 1 => i - 1 \in PostedAt' /\ strand'[i - 1] = strand[i]
    <2>1. ASSUME NEW i \in PostedAt'
          PROVE  i + 1 \in PostedAt /\ strand'[i] = strand[i + 1] /\ i + 1 # 1
      BY <1>1 DEF PostedAt
    <2>2. ASSUME NEW i \in PostedAt, i # 1
          PROVE  i - 1 \in PostedAt' /\ strand'[i - 1] = strand[i]
      <3>1. i - 1 \in 1..Len(strand') /\ (i - 1) + 1 = i
        BY <1>0, <1>1, <2>2
      <3> QED BY <1>1, <3>1 DEF PostedAt
    <2> QED BY <2>1, <2>2
  <1> HIDE DEF m
  <1>8. \A n \in 1..Len(queue') : queue'[n] = accepted[Len(completed) + n]
    <2> TAKE n \in 1..Len(queue')
    <2>1. CASE n = Len(queue) + 1
      BY <1>0, <1>2, <1>5, <2>1
    <2>2. CASE n # Len(queue) + 1
      <3>1. n \in 1..Len(queue)
        BY <1>0, <1>5, <2>2
      <3> QED BY <1>5, <3>1 DEF FIFOInv, Conservation
    <2> QED BY <2>1, <2>2
  <1>9. \A n \in (Passed + 2)..Len(accepted) : \E i \in PostedAt' : strand'[i].msg = accepted[n]
    <2> TAKE n \in (Passed + 2)..Len(accepted)
    <2>1. n \in (Passed + 1)..Len(accepted) /\ n \in 1..Len(accepted) /\ n # Passed + 1
      BY <1>0
    <2>2. PICK i \in PostedAt : strand[i].msg = accepted[n]
      BY <2>1 DEF FIFOInv, Conservation
    <2>3. i # 1
      BY <1>2, <2>1, <2>2 DEF FIFOInv, Unique
    <2> QED BY <1>7, <2>2, <2>3
  <1>10. \A i \in PostedAt' : \E n \in (Passed + 2)..Len(accepted) : strand'[i].msg = accepted[n]
    <2> TAKE i \in PostedAt'
    <2>0. i \in 1..Len(strand')
      BY DEF PostedAt
    <2>1. i + 1 \in PostedAt /\ strand'[i] = strand[i + 1] /\ 1 < i + 1
      BY <1>7, <2>0
    <2>2. PICK n \in (Passed + 1)..Len(accepted) : strand[i + 1].msg = accepted[n]
      BY <2>1 DEF FIFOInv, Conservation
    <2>3. n \in 1..Len(accepted)
      BY <1>0, <2>2
    <2>4. Passed + 1 < n
      BY <1>2, <2>1, <2>2, <2>3 DEF FIFOInv, Conservation
    <2>5. n \in (Passed + 2)..Len(accepted)
      BY <1>0, <2>2, <2>4
    <2> QED BY <2>1, <2>2, <2>5
  <1>11. ASSUME NEW i \in PostedAt', NEW j \in PostedAt', i < j,
                NEW p \in 1..Len(accepted), NEW n \in 1..Len(accepted),
                strand'[i].msg = accepted[p], strand'[j].msg = accepted[n]
         PROVE  p < n
    <2>0. i \in 1..Len(strand') /\ j \in 1..Len(strand')
      BY DEF PostedAt
    <2>1. i + 1 \in PostedAt /\ j + 1 \in PostedAt /\ i + 1 < j + 1
      BY <1>7, <1>11, <2>0
    <2>2. strand[i + 1].msg = accepted[p] /\ strand[j + 1].msg = accepted[n]
      BY <1>7, <1>11
    <2> QED BY <2>1, <2>2 DEF FIFOInv, Conservation
  <1>12. Passed' <= Len(accepted) /\ Passed' + 1 = Passed + 2
    BY <1>0, <1>2, <1>6
  <1>13. Conservation'
    BY <1>3, <1>8, <1>9, <1>10, <1>11, <1>12 DEF FIFOInv, Conservation
  <1> QED BY <1>3, <1>13 DEF FIFOInv, Unique

\* A report moves the front message to the end of the messages reported.
LEMMA ReportFIFO ==
    ASSUME IInv, FIFOInv, Runs("wrote"), PostCall(Head(strand)), queue' = Tail(queue),
           strand' = Tail(strand), UNCHANGED accepted
    PROVE  /\ FIFOInv' /\ Passed' = Passed
           /\ Len(completed') = Len(completed) + 1
           /\ \A n \in 1..Len(completed) : completed'[n] = completed[n]
           /\ completed'[Len(completed) + 1]
                 = [msg |-> Head(queue), ok |-> Head(strand).ok, bytes |-> Head(strand).bytes]
           /\ Head(queue) = accepted[Len(completed) + 1]
           /\ Len(completed) + 1 \in 1..Len(accepted)
  <1> DEFINE r == [msg |-> Head(queue), ok |-> Head(strand).ok, bytes |-> Head(strand).bytes]
  <1>0. TypeOK /\ Conservation
    BY DEF IInv, FIFOInv
  <1>1. /\ queue # <<>> /\ Len(queue) \in Nat /\ Len(queue) > 0 /\ Head(queue) = queue[1]
        /\ Len(queue') = Len(queue) - 1
        /\ \A n \in 1..Len(queue') : queue'[n] = queue[n + 1]
    <2>1. queue # <<>> /\ queue \in Seq(Msgs)
      BY <1>0, WroteAtHead DEF WritesFront, TypeOK
    <2> QED BY <2>1
  <1>2. /\ Len(completed) \in Nat /\ Len(completed') = Len(completed) + 1
        /\ \A n \in 1..Len(completed) : completed'[n] = completed[n]
        /\ completed'[Len(completed) + 1] = r
    BY <1>0 DEF TypeOK, PostCall
  <1>3. r.msg = queue[1]
    BY <1>1
  <1> HIDE DEF r
  <1>4. Passed' = Passed
    BY <1>1, <1>2 DEF Passed
  <1>5. queue[1] = accepted[Len(completed) + 1]
    <2>1. 1 \in 1..Len(queue)
      BY <1>1
    <2> QED BY <1>0, <2>1 DEF Conservation
  <1>6. \A n \in 1..Len(completed') : completed'[n].msg = accepted[n]
    <2> TAKE n \in 1..Len(completed')
    <2>1. n \in 1..Len(completed) \/ n = Len(completed) + 1
      BY <1>2
    <2> QED BY <1>0, <1>2, <1>3, <1>5, <2>1 DEF Conservation
  <1>7. \A n \in 1..Len(queue') : queue'[n] = accepted[Len(completed') + n]
    <2> TAKE n \in 1..Len(queue')
    <2>1. n + 1 \in 1..Len(queue) /\ Len(completed) + (n + 1) = Len(completed') + n
      BY <1>1, <1>2
    <2>2. queue[n + 1] = accepted[Len(completed) + (n + 1)]
      BY <1>0, <2>1 DEF Conservation
    <2> QED BY <1>1, <2>1, <2>2
  <1>8. /\ \A i \in PostedAt' : i + 1 \in PostedAt /\ strand'[i] = strand[i + 1]
        /\ \A i \in PostedAt : i - 1 \in PostedAt' /\ strand'[i - 1] = strand[i]
    <2>1. "wrote" # "write"
      OBVIOUS
    <2> QED BY <1>0, <2>1, RunNoWrite
  <1>9. Conservation'
    BY <1>0, <1>4, <1>6, <1>7, <1>8, SamePosted
  <1>10. Len(completed) + 1 \in 1..Len(accepted)
    BY <1>0, <1>1, <1>2 DEF Conservation, Passed, TypeOK
  <1> QED BY <1>1, <1>2, <1>4, <1>5, <1>9, <1>10 DEF FIFOInv, Unique, r

\* Every step keeps the messages together and in order.
LEMMA NextFIFO ==
    ASSUME IInv, FIFOInv, [Next]_vars
    PROVE  FIFOInv'
  <1>0. TypeOK /\ Conservation
    BY DEF IInv, FIFOInv
  <1>1. ASSUME UNCHANGED <<accepted, completed, queue>>,
               \/ PostedAt' = PostedAt /\ \A i \in PostedAt : strand'[i] = strand[i]
               \/ /\ \A i \in PostedAt' : i + 1 \in PostedAt /\ strand'[i] = strand[i + 1]
                  /\ \A i \in PostedAt : i - 1 \in PostedAt' /\ strand'[i - 1] = strand[i]
        PROVE  FIFOInv'
    <2>1. UNCHANGED <<accepted, Passed>>
      BY <1>1 DEF Passed
    <2>2. /\ \A n \in 1..Len(completed') : completed'[n].msg = accepted[n]
          /\ \A n \in 1..Len(queue') : queue'[n] = accepted[Len(completed') + n]
      BY <1>0, <1>1 DEF Conservation
    <2>3. Conservation'
      BY <1>0, <1>1, <2>1, <2>2, SamePosted
    <2> QED BY <2>1, <2>3 DEF FIFOInv, Unique
  <1>2. CASE UNCHANGED vars \/ Read \/ Release
    BY <1>1, <1>2 DEF vars, Read, Release, PostedAt
  <1>3. ASSUME NEW m \in Msgs, Write(m) PROVE FIFOInv'
    BY <1>0, <1>3, WriteFIFO
  <1>4. CASE Close
    BY <1>0, <1>1, <1>4, PostNoWrite DEF Close
  <1>5. ASSUME NEW i \in 1..Len(ops), WriteTaken(i) \/ WriteRefused(i) PROVE FIFOInv'
    <2>1. PICK ok, n : Answer(i, ok, n)
      BY <1>5 DEF WriteTaken, WriteRefused
    <2>2. PICK t : t.kind # "write" /\ strand' = Append(strand, t)
      BY <2>1 DEF Answer
    <2>3. UNCHANGED <<accepted, completed, queue>>
      BY <2>1 DEF Answer
    <2> QED BY <1>0, <1>1, <2>2, <2>3, PostNoWrite
  <1>6. ASSUME NEW ok \in BOOLEAN, ReadAnswered(ok) PROVE FIFOInv'
    BY <1>0, <1>1, <1>6, PostNoWrite DEF ReadAnswered
  <1>7. CASE WriteImpl
    BY <1>0, <1>7, WriteImplFIFO
  <1>8. CASE WriteHandlerPartial
    BY <1>0, <1>1, <1>8, RunNoWrite DEF WriteHandlerPartial
  <1>9. CASE WriteHandlerDone \/ WriteHandlerError
    BY <1>9, ReportFIFO DEF WriteHandlerDone, WriteHandlerError, PopAndContinue
  <1>10. CASE CloseImpl
    BY <1>0, <1>1, <1>10, RunNoWrite DEF CloseImpl
  <1>11. CASE ReadHandler
    BY <1>0, <1>1, <1>11, RunNoWrite DEF ReadHandler
  <1> QED BY <1>2, <1>3, <1>4, <1>5, <1>6, <1>7, <1>8, <1>9, <1>10, <1>11
          DEF Next, WriteAnswered, RunStrand, WriteHandler

(***************************************************************************)
(* The bytes on the wire.                                                    *)
(***************************************************************************)

\* The socket has nothing yet of a message behind the front one.
LEMMA NothingSentYet ==
    ASSUME TypeOK, FIFOInv, SentInTurn, NEW n \in 1..Len(accepted),
           n > Passed \/ n > Len(completed) + 1
    PROVE  UnitsOf(wire, accepted[n]) = {}
  <1> SUFFICES ASSUME NEW u \in UnitsOf(wire, accepted[n]) PROVE FALSE
    OBVIOUS
  <1>1. PICK i \in 1..Len(wire) : wire[i][1] = accepted[n]
    <2>1. DOMAIN wire = 1..Len(wire)
      BY DEF TypeOK
    <2> QED BY <2>1 DEF UnitsOf, Range
  <1>2. PICK k \in 1..Len(accepted) :
           k <= Passed /\ k <= Len(completed) + 1 /\ accepted[n] = accepted[k]
    BY <1>1 DEF SentInTurn
  <1>3. k = n
    BY <1>2 DEF FIFOInv, Unique
  <1>4. Passed \in Nat /\ Len(completed) \in Nat
    BY DEF TypeOK, Passed
  <1> QED BY <1>2, <1>3, <1>4

\* The first zero bytes of a message are none.
LEMMA FirstNone == \A m : FirstUnits(m, 0) = {}
  BY DEF FirstUnits

\* A step that writes no byte leaves the bytes in order, when messages are only
\* added behind those accepted and only reported among those passed.
LEMMA WireSame ==
    ASSUME TypeOK, TypeOK', SentInTurn, WireInOrder, Unique', UNCHANGED wire,
           Len(accepted) <= Len(accepted'),
           \A n \in 1..Len(accepted) : accepted'[n] = accepted[n],
           Passed <= Passed', Len(completed) <= Len(completed')
    PROVE  SentInTurn' /\ WireInOrder'
  <1>0. /\ Len(accepted) \in Nat /\ Len(accepted') \in Nat
        /\ Passed \in Nat /\ Passed' \in Nat
        /\ Len(completed) \in Nat /\ Len(completed') \in Nat
    BY DEF TypeOK, Passed
  <1>1. ASSUME NEW i \in 1..Len(wire)
        PROVE  \E n \in 1..Len(accepted) :
                  /\ n \in 1..Len(accepted') /\ n <= Passed' /\ n <= Len(completed') + 1
                  /\ wire[i][1] = accepted[n] /\ wire[i][1] = accepted'[n]
    <2>1. PICK n \in 1..Len(accepted) :
             n <= Passed /\ n <= Len(completed) + 1 /\ wire[i][1] = accepted[n]
      BY DEF SentInTurn
    <2> QED BY <1>0, <2>1
  <1>2. SentInTurn'
    BY <1>1 DEF SentInTurn
  <1>3. ASSUME NEW i \in 1..Len(wire), NEW j \in 1..Len(wire), i < j,
               NEW p \in 1..Len(accepted'), NEW n \in 1..Len(accepted'),
               wire[i][1] = accepted'[p], wire[j][1] = accepted'[n]
        PROVE  p < n \/ (p = n /\ wire[i][2] < wire[j][2])
    <2>1. PICK q \in 1..Len(accepted) :
             /\ q \in 1..Len(accepted')
             /\ wire[i][1] = accepted[q] /\ wire[i][1] = accepted'[q]
      BY <1>1
    <2>2. PICK k \in 1..Len(accepted) :
             /\ k \in 1..Len(accepted')
             /\ wire[j][1] = accepted[k] /\ wire[j][1] = accepted'[k]
      BY <1>1
    <2>3. p = q /\ n = k
      BY <1>3, <2>1, <2>2 DEF Unique
    <2> QED BY <1>3, <2>1, <2>2, <2>3 DEF WireInOrder
  <1>4. WireInOrder'
    BY <1>3 DEF WireInOrder
  <1> QED BY <1>2, <1>4

\* What has been sent of the front message stays what it is, or has been reported.
LEMMA CutSame ==
    ASSUME CutOnlyWithError, UNCHANGED <<wire, completed>>,
           queue # <<>> => queue' # <<>> /\ Head(queue') = Head(queue)
    PROVE  CutOnlyWithError'
  BY DEF CutOnlyWithError

\* A started operation begins where the bytes of its message end.
LEMMA StartedSoFar ==
    ASSUME ops = <<>>, WroteAt' = {}, UNCHANGED wire,
           NEW op, StartWrite(op), UnitsOf(wire, op.msg) = FirstUnits(op.msg, op.total)
    PROVE  SentSoFar'
  <1>1. ops' = <<op>> \/ ops' = <<>>
    BY DEF StartWrite
  <1>2. \A i \in 1..Len(ops') : ops'[i] = op
    BY <1>1
  <1> QED BY <1>2 DEF SentSoFar

\* Handlers of answered operations keep their answers while they wait.
LEMMA SoFarSame ==
    ASSUME SentSoFar, UNCHANGED <<wire, ops>>,
           \/ WroteAt' = WroteAt /\ \A i \in WroteAt : strand'[i] = strand[i]
           \/ \A i \in WroteAt' : i + 1 \in WroteAt /\ strand'[i] = strand[i + 1]
    PROVE  SentSoFar'
  <1>1. \A i \in WroteAt' : \E j \in WroteAt : strand'[i] = strand[j]
    OBVIOUS
  <1> QED BY <1>1 DEF SentSoFar

\* The message of the operation in flight is the next to be reported.
LEMMA InFlight ==
    ASSUME TypeOK, FIFOInv, NEW op \in Op, WritesFront(op)
    PROVE  /\ Len(completed) + 1 \in 1..Len(accepted)
           /\ Len(completed) + 1 <= Passed
           /\ op.msg = accepted[Len(completed) + 1]
  <1>1. /\ Len(queue) \in Nat \ {0} /\ Len(completed) \in Nat /\ Len(accepted) \in Nat
        /\ 1 \in 1..Len(queue) /\ Head(queue) = queue[1]
    BY DEF TypeOK, WritesFront
  <1>2. queue[1] = accepted[Len(completed) + 1] /\ Passed <= Len(accepted)
    BY <1>1 DEF FIFOInv, Conservation
  <1> QED BY <1>1, <1>2 DEF Passed, WritesFront

\* The lengths of the histories and of the queue.
LEMMA Lengths ==
    ASSUME TypeOK
    PROVE  /\ Len(accepted) \in Nat /\ Len(completed) \in Nat /\ Len(queue) \in Nat
           /\ Passed = Len(completed) + Len(queue) /\ Passed \in Nat
  BY DEF TypeOK, Passed

\* What is appended to the wire comes behind what is there.
LEMMA Appended ==
    ASSUME TypeOK, NEW t \in Seq(Unit), wire' = wire \o t
    PROVE  /\ DOMAIN wire' = 1..Len(wire') /\ DOMAIN wire = 1..Len(wire)
           /\ Len(wire') = Len(wire) + Len(t) /\ Len(wire) \in Nat
           /\ \A i \in 1..Len(wire) : wire'[i] = wire[i]
           /\ \A i \in (Len(wire) + 1)..Len(wire') : wire'[i] = t[i - Len(wire)]
  BY DEF TypeOK

\* Where the bytes go that the socket takes of m.
LEMMA TakenPlaces ==
    ASSUME NEW m \in Msgs, NEW total \in Nat, NEW n \in Nat, TypeOK,
           wire' = wire \o [k \in 1..n |-> <<m, total + k>>]
    PROVE  /\ DOMAIN wire' = 1..Len(wire') /\ DOMAIN wire = 1..Len(wire)
           /\ Len(wire') = Len(wire) + n /\ Len(wire) \in Nat
           /\ \A i \in 1..Len(wire) : wire'[i] = wire[i]
           /\ \A i \in (Len(wire) + 1)..Len(wire') :
                 wire'[i] = <<m, total + (i - Len(wire))>>
  <1> DEFINE taken == [k \in 1..n |-> <<m, total + k>>]
  <1>1. taken \in Seq(Unit)
    BY TakenType
  <1>2. Len(taken) = n /\ \A k \in 1..n : taken[k] = <<m, total + k>>
    OBVIOUS
  <1>3. wire' = wire \o taken /\ wire \in Seq(Unit)
    BY DEF TypeOK
  <1> HIDE DEF taken
  <1>4. /\ DOMAIN wire' = 1..Len(wire') /\ DOMAIN wire = 1..Len(wire)
        /\ Len(wire') = Len(wire) + Len(taken) /\ Len(wire) \in Nat
        /\ \A i \in 1..Len(wire) : wire'[i] = wire[i]
        /\ \A i \in (Len(wire) + 1)..Len(wire') : wire'[i] = taken[i - Len(wire)]
    BY <1>1, <1>3, Appended, Zenon
  <1>5. \A i \in (Len(wire) + 1)..Len(wire') : wire'[i] = <<m, total + (i - Len(wire))>>
    <2> TAKE i \in (Len(wire) + 1)..Len(wire')
    <2>1. i - Len(wire) \in 1..n
      BY <1>2, <1>4
    <2>2. wire'[i] = taken[i - Len(wire)]
      BY <1>4
    <2> QED BY <1>2, <2>1, <2>2, Zenon
  <1> QED BY <1>2, <1>4, <1>5

\* They are the next ones of m.
LEMMA TakenUnits ==
    ASSUME NEW m, NEW total \in Nat, NEW n \in Nat,
           UnitsOf(wire, m) = FirstUnits(m, total),
           DOMAIN wire' = 1..Len(wire'), DOMAIN wire = 1..Len(wire),
           Len(wire') = Len(wire) + n, Len(wire) \in Nat,
           \A i \in 1..Len(wire) : wire'[i] = wire[i],
           \A i \in (Len(wire) + 1)..Len(wire') : wire'[i] = <<m, total + (i - Len(wire))>>
    PROVE  /\ UnitsOf(wire', m) = FirstUnits(m, total + n)
           /\ \A p : p # m => UnitsOf(wire', p) = UnitsOf(wire, p)
  <1>1. /\ \A p, u : u \in UnitsOf(wire', p) <=> \E i \in 1..Len(wire') : u = wire'[i] /\ wire'[i][1] = p
        /\ \A p, u : u \in UnitsOf(wire, p) <=> \E i \in 1..Len(wire) : u = wire[i] /\ wire[i][1] = p
    BY DEF UnitsOf, Range
  <1>2. ASSUME NEW p, p # m PROVE UnitsOf(wire', p) = UnitsOf(wire, p)
    <2>1. \A u : u \in UnitsOf(wire', p) => u \in UnitsOf(wire, p)
      <3> SUFFICES ASSUME NEW u, u \in UnitsOf(wire', p) PROVE u \in UnitsOf(wire, p)
        OBVIOUS
      <3>1. PICK i \in 1..Len(wire') : u = wire'[i] /\ wire'[i][1] = p
        BY <1>1
      <3>2. i \in 1..Len(wire)
        BY <1>2, <3>1
      <3> QED BY <1>1, <3>1, <3>2
    <2>2. \A u : u \in UnitsOf(wire, p) => u \in UnitsOf(wire', p)
      <3> SUFFICES ASSUME NEW u, u \in UnitsOf(wire, p) PROVE u \in UnitsOf(wire', p)
        OBVIOUS
      <3>1. PICK i \in 1..Len(wire) : u = wire[i] /\ wire[i][1] = p
        BY <1>1
      <3>2. i \in 1..Len(wire') /\ wire'[i] = wire[i]
        OBVIOUS
      <3> QED BY <1>1, <3>1, <3>2
    <2> QED BY <2>1, <2>2
  <1>3. \A u : u \in UnitsOf(wire', m) => u \in FirstUnits(m, total + n)
    <2> SUFFICES ASSUME NEW u, u \in UnitsOf(wire', m) PROVE u \in FirstUnits(m, total + n)
      OBVIOUS
    <2>1. PICK i \in 1..Len(wire') : u = wire'[i] /\ wire'[i][1] = m
      BY <1>1
    <2>2. CASE i \in 1..Len(wire)
      <3>1. u \in FirstUnits(m, total)
        BY <1>1, <2>1, <2>2
      <3> QED BY <3>1 DEF FirstUnits
    <2>3. CASE i \notin 1..Len(wire)
      <3>1. i \in (Len(wire) + 1)..Len(wire') /\ total + (i - Len(wire)) \in 1..(total + n)
        BY <2>3
      <3>2. u = <<m, total + (i - Len(wire))>>
        BY <2>1, <3>1
      <3> QED BY <3>1, <3>2 DEF FirstUnits
    <2> QED BY <2>2, <2>3
  <1>4. \A u : u \in FirstUnits(m, total + n) => u \in UnitsOf(wire', m)
    <2> SUFFICES ASSUME NEW k \in 1..(total + n) PROVE <<m, k>> \in UnitsOf(wire', m)
      BY DEF FirstUnits
    <2>1. CASE k <= total
      <3>1. <<m, k>> \in UnitsOf(wire, m)
        BY <2>1 DEF FirstUnits
      <3>2. PICK i \in 1..Len(wire) : <<m, k>> = wire[i] /\ wire[i][1] = m
        BY <1>1, <3>1
      <3>3. i \in 1..Len(wire') /\ wire'[i] = wire[i]
        OBVIOUS
      <3> QED BY <1>1, <3>2, <3>3
    <2>2. CASE ~(k <= total)
      <3> DEFINE i == Len(wire) + (k - total)
      <3>1. i \in (Len(wire) + 1)..Len(wire') /\ i \in 1..Len(wire') /\ total + (i - Len(wire)) = k
        BY <2>2
      <3> HIDE DEF i
      <3>2. wire'[i] = <<m, k>>
        BY <3>1
      <3>3. wire'[i][1] = m
        BY <3>2
      <3> QED BY <1>1, <3>1, <3>2, <3>3
    <2> QED BY <2>1, <2>2
  <1> QED BY <1>2, <1>3, <1>4

\* What is taken now comes behind what was taken.
LEMMA NextByte ==
    ASSUME NEW a \in Nat, NEW b \in Nat, NEW d \in Nat, a <= b, d >= 1
    PROVE  a < b + d
  OBVIOUS

\* The socket takes bytes of the operation it has, which is that of the front message.
LEMMA TakenWire ==
    ASSUME IInv, FIFOInv, WireInv, NEW i \in 1..Len(ops), WriteTaken(i), TypeOK'
    PROVE  WireInv'
  <1> DEFINE op == ops[i]
             m  == op.msg
             c  == Len(completed) + 1
  <1>0. TypeOK /\ FIFOInv
    BY DEF IInv
  <1>1. op \in Op /\ WritesFront(op) /\ WroteAt = {} /\ Len(ops) <= 1
    BY OpAt
  <1>2. m \in Msgs /\ op.total \in Nat /\ op.length \in Nat
    BY <1>1 DEF Op
  <1>3. PICK n \in 0..op.length :
           /\ Answer(i, TRUE, n)
           /\ wire' = wire \o [k \in 1..n |-> <<m, op.total + k>>]
    BY DEF WriteTaken
  <1>4. n \in Nat /\ n <= op.length /\ op.total + n \in 0..Size[m]
    <2>1. op.total + op.length = Size[m]
      BY <1>1 DEF WritesFront
    <2> QED BY <1>2, <2>1
  <1>5. ops' = <<>>
    BY <1>0, <1>1, <1>3, RemoveOnly DEF Answer, TypeOK
  <1>6. WroteAt' = {Len(strand) + 1} /\ strand'[Len(strand) + 1].op = op
        /\ strand'[Len(strand) + 1].bytes = n
    <2> DEFINE t == [kind |-> "wrote", op |-> op, ok |-> TRUE, bytes |-> n]
    <2>1. strand' = Append(strand, t) /\ t.kind = "wrote" /\ t.op = op /\ t.bytes = n
      BY <1>3 DEF Answer
    <2> HIDE DEF t
    <2> QED BY <1>0, <1>1, <2>1, PostWrote
  <1>7. UNCHANGED <<queue, completed, accepted, Passed>>
    BY <1>3 DEF Answer, Passed
  <1>8. c \in 1..Len(accepted) /\ c <= Passed /\ m = accepted[c] /\ c = Len(completed) + 1
    BY <1>0, <1>1, InFlight
  <1>9. UnitsOf(wire, m) = FirstUnits(m, op.total)
    BY DEF WireInv, SentSoFar
  <1> HIDE DEF op, m, c
  <1>10. /\ DOMAIN wire' = 1..Len(wire') /\ DOMAIN wire = 1..Len(wire)
         /\ Len(wire') = Len(wire) + n /\ Len(wire) \in Nat
         /\ \A j \in 1..Len(wire) : wire'[j] = wire[j]
         /\ \A j \in (Len(wire) + 1)..Len(wire') : wire'[j] = <<m, op.total + (j - Len(wire))>>
    BY <1>0, <1>2, <1>3, <1>4, TakenPlaces
  <1>11. /\ UnitsOf(wire', m) = FirstUnits(m, op.total + n)
         /\ \A p : p # m => UnitsOf(wire', p) = UnitsOf(wire, p)
    BY <1>2, <1>4, <1>9, <1>10, TakenUnits
  <1>12. SentSoFar'
    <2>1. op.msg = m
      BY DEF m
    <2> QED BY <1>4, <1>5, <1>6, <1>11, <2>1 DEF SentSoFar
  <1>13. ASSUME NEW j \in 1..Len(wire')
         PROVE  \/ j \in 1..Len(wire) /\ wire'[j] = wire[j]
                \/ /\ j \in (Len(wire) + 1)..Len(wire')
                   /\ wire'[j] = <<m, op.total + (j - Len(wire))>>
                   /\ wire'[j][1] = m /\ wire'[j][2] = op.total + (j - Len(wire))
    <2>1. j \in 1..Len(wire) \/ j \in (Len(wire) + 1)..Len(wire')
      BY <1>10
    <2> QED BY <1>10, <2>1
  <1>14. SentInTurn'
    <2> SUFFICES ASSUME NEW j \in 1..Len(wire')
                 PROVE  \E k \in 1..Len(accepted) :
                           k <= Passed /\ k <= Len(completed) + 1 /\ wire'[j][1] = accepted[k]
      BY <1>7 DEF SentInTurn
    <2>1. CASE j \in 1..Len(wire) /\ wire'[j] = wire[j]
      BY <2>1 DEF WireInv, SentInTurn
    <2>2. CASE wire'[j][1] = m
      BY <1>8, <2>2
    <2> QED BY <1>13, <2>1, <2>2
  <1>15. ASSUME NEW j \in 1..Len(wire'), NEW k \in 1..Len(wire'), j < k,
                NEW p \in 1..Len(accepted), NEW q \in 1..Len(accepted),
                wire'[j][1] = accepted[p], wire'[k][1] = accepted[q]
         PROVE  p < q \/ (p = q /\ wire'[j][2] < wire'[k][2])
    <2>1. CASE k \in 1..Len(wire) /\ wire'[k] = wire[k]
      <3>1. j \in 1..Len(wire) /\ wire'[j] = wire[j]
        BY <1>10, <1>15, <2>1
      <3> QED BY <1>15, <2>1, <3>1 DEF WireInv, WireInOrder
    <2>2. CASE /\ k \in (Len(wire) + 1)..Len(wire')
               /\ wire'[k][1] = m /\ wire'[k][2] = op.total + (k - Len(wire))
      <3>1. q = c
        BY <1>8, <1>15, <2>2 DEF FIFOInv, Unique
      <3>2. CASE j \in 1..Len(wire) /\ wire'[j] = wire[j]
        <4>1. PICK r \in 1..Len(accepted) :
                 r <= Passed /\ r <= Len(completed) + 1 /\ wire[j][1] = accepted[r]
          BY <3>2 DEF WireInv, SentInTurn
        <4>2. p <= c
          BY <1>8, <1>15, <3>2, <4>1 DEF FIFOInv, Unique
        <4>3. CASE p = c
          <5>1. wire[j][1] = m
            BY <1>8, <1>15, <3>2, <4>3
          <5>2. wire[j] \in FirstUnits(m, op.total)
            BY <1>9, <1>10, <3>2, <5>1 DEF UnitsOf, Range
          <5>3. wire[j][2] \in Nat /\ wire[j][2] <= op.total
            BY <5>2, <1>2 DEF FirstUnits
          <5>4. k - Len(wire) \in Nat /\ k - Len(wire) >= 1
            BY <1>10, <2>2
          <5>5. wire[j][2] < op.total + (k - Len(wire))
            BY <1>2, <5>3, <5>4, NextByte
          <5>6. wire'[j][2] < wire'[k][2]
            BY <2>2, <3>2, <5>5, Zenon
          <5> QED BY <3>1, <4>3, <5>6, Zenon
        <4>4. c \in Nat /\ p \in Nat
          BY <1>8
        <4> QED BY <3>1, <4>2, <4>3, <4>4
      <3>3. CASE /\ j \in (Len(wire) + 1)..Len(wire')
                 /\ wire'[j][1] = m /\ wire'[j][2] = op.total + (j - Len(wire))
        <4>1. p = c
          BY <1>8, <1>15, <3>3 DEF FIFOInv, Unique
        <4> QED BY <1>2, <1>10, <1>15, <2>2, <3>1, <3>3, <4>1
      <3> QED BY <1>13, <3>2, <3>3
    <2> QED BY <1>13, <2>1, <2>2
  <1>16. \A p \in Msgs : \E k \in 0..Size[p] : UnitsOf(wire', p) = FirstUnits(p, k)
    <2> TAKE p \in Msgs
    <2>1. CASE p = m
      BY <1>4, <1>11, <2>1
    <2>2. CASE p # m
      BY <1>11, <2>2 DEF WireInv, WireInOrder
    <2> QED BY <2>1, <2>2
  <1>17. WireInOrder'
    BY <1>7, <1>15, <1>16 DEF WireInOrder
  <1>18. CutOnlyWithError'
    <2>1. \A k \in 1..Len(completed) : completed[k].msg # m
      <3> TAKE k \in 1..Len(completed)
      <3>1. completed[k].msg = accepted[k] /\ k \in 1..Len(accepted) /\ k # c
        <4>1. Len(completed) \in Nat /\ Len(accepted) \in Nat
          BY <1>0, Lengths
        <4>2. k \in 1..Len(accepted) /\ k # c
          <5>1. k \in Nat /\ 1 <= k /\ k <= Len(completed) /\ c <= Len(accepted)
            BY <1>8, <4>1
          <5> QED BY <1>8, <4>1, <5>1
        <4> QED BY <4>2 DEF FIFOInv, Conservation
      <3> QED BY <1>8, <3>1 DEF FIFOInv, Unique
    <2>2. queue # <<>> /\ m = Head(queue)
      BY <1>1 DEF WritesFront, m
    <2>3. \A k \in 1..Len(completed) : completed[k].ok =>
             UnitsOf(wire', completed[k].msg)
                = FirstUnits(completed[k].msg, Size[completed[k].msg])
      BY <1>11, <2>1 DEF WireInv, CutOnlyWithError
    <2>4. \A p \in Msgs : UnitsOf(wire', p) # {} =>
             \/ queue # <<>> /\ p = Head(queue)
             \/ \E k \in 1..Len(completed) : completed[k].msg = p
      BY <1>11, <2>2 DEF WireInv, CutOnlyWithError
    <2> QED BY <1>7, <2>3, <2>4 DEF CutOnlyWithError
  <1> QED BY <1>12, <1>14, <1>17, <1>18 DEF WireInv

\* The handler of an answered operation finds what the socket told it of on the wire.
LEMMA AnsweredSoFar ==
    ASSUME IInv, SentSoFar, Runs("wrote")
    PROVE  LET t == Head(strand) IN
           /\ t.bytes <= t.op.length
           /\ UnitsOf(wire, t.op.msg) = FirstUnits(t.op.msg, t.op.total + t.bytes)
           /\ t.op.msg = Head(queue) /\ t.op.total + t.op.length = Size[t.op.msg]
           /\ t.bytes \in Nat /\ t.op.total \in Nat /\ t.op.length \in Nat
  <1>1. 1 \in WroteAt /\ WritesFront(Head(strand).op)
    BY WroteAtHead
  <1>2. strand[1] = Head(strand)
    OBVIOUS
  <1>3. Head(strand).bytes \in Nat /\ Head(strand).op.total \in Nat /\ Head(strand).op.length \in Nat
    BY WroteAtHead DEF WroteTask, Op
  <1> QED BY <1>1, <1>2, <1>3 DEF SentSoFar, WritesFront

\* A report says of the front message what is true of it.
LEMMA ReportWire ==
    ASSUME IInv, FIFOInv, WireInv, TypeOK', FIFOInv', Runs("wrote"),
           Head(strand).ok => TookAll(Head(strand)),
           PostCall(Head(strand)), PopAndContinue, strand' = Tail(strand),
           UNCHANGED <<accepted, wire>>
    PROVE  WireInv'
  <1> DEFINE t == Head(strand)
             m == Head(queue)
             c == Len(completed) + 1
  <1>0. TypeOK /\ SentInTurn /\ WireInOrder /\ CutOnlyWithError
    BY DEF IInv, WireInv
  <1>1. /\ Passed' = Passed /\ Len(completed') = Len(completed) + 1
        /\ \A n \in 1..Len(completed) : completed'[n] = completed[n]
        /\ completed'[c].msg = m /\ completed'[c].ok = t.ok
    BY ReportFIFO DEF PopAndContinue
  <1>2. /\ Len(accepted) \in Nat /\ Len(completed) \in Nat /\ Passed \in Nat
        /\ Len(queue) \in Nat /\ Passed = Len(completed) + Len(queue)
    BY <1>0, Lengths
  <1>3. SentInTurn' /\ WireInOrder'
    <2>1. /\ Len(accepted) <= Len(accepted')
          /\ \A n \in 1..Len(accepted) : accepted'[n] = accepted[n]
          /\ Passed <= Passed' /\ Len(completed) <= Len(completed')
      BY <1>1, <1>2
    <2> QED BY <1>0, <2>1, WireSame DEF FIFOInv
  <1>4. /\ UnitsOf(wire, m) = FirstUnits(m, t.op.total + t.bytes) /\ t.bytes <= t.op.length
        /\ t.op.total + t.op.length = Size[m]
        /\ t.bytes \in Nat /\ t.op.total \in Nat /\ t.op.length \in Nat
    BY AnsweredSoFar DEF WireInv
  <1>5. t.ok => UnitsOf(wire, m) = FirstUnits(m, Size[m])
    <2>1. t.ok => t.bytes >= t.op.length
      BY DEF TookAll
    <2>2. t.ok => t.op.total + t.bytes = Size[m]
      BY <1>4, <2>1
    <2> QED BY <1>4, <2>2
  <1>6. ops = <<>> /\ WroteAt' = {} /\ queue # <<>>
    BY WroteAtHead, RunWrote DEF WritesFront
  <1>7. SentSoFar'
    <2>1. CASE Tail(queue) = <<>>
      <3>1. ops' = <<>>
        BY <1>6, <2>1 DEF PopAndContinue
      <3> QED BY <1>6, <3>1 DEF SentSoFar
    <2>2. CASE Tail(queue) # <<>>
      <3>1. StartWrite(WholeMessage(Head(Tail(queue)))) /\ queue' = Tail(queue)
        BY <2>2 DEF PopAndContinue
      <3>2. Head(queue') = queue'[1] /\ 1 \in 1..Len(queue')
        BY <2>2, <3>1 DEF TypeOK
      <3>3. queue'[1] = accepted[Len(completed') + 1]
        BY <3>2 DEF FIFOInv, Conservation
      <3>4. Len(completed') + 1 \in 1..Len(accepted) /\ Len(completed') + 1 > c
        <4>1. Passed' <= Len(accepted) /\ Len(queue') \in Nat
          BY <3>1, <1>0 DEF FIFOInv, Conservation, TypeOK
        <4>2. Passed' = Len(completed') + Len(queue') /\ Len(queue') >= 1
          BY <3>2, <4>1 DEF Passed
        <4> QED BY <1>1, <1>2, <4>1, <4>2
      <3>5. UnitsOf(wire, accepted[Len(completed') + 1]) = {}
        BY <1>0, <3>4, NothingSentYet
      <3>6. PICK op : /\ StartWrite(op) /\ op.total = 0
                      /\ op.msg = accepted[Len(completed') + 1]
        BY <3>1, <3>2, <3>3 DEF WholeMessage
      <3> QED BY <1>6, <3>5, <3>6, FirstNone, StartedSoFar
    <2> QED BY <2>1, <2>2
  <1> HIDE DEF t, m, c
  <1>8. c = Len(completed) + 1 /\ c \in 1..Len(completed')
    BY <1>1, <1>2 DEF c
  <1>9. CutOnlyWithError'
    <2>1. \A n \in 1..Len(completed') : n = c \/ (n \in 1..Len(completed) /\ completed'[n] = completed[n])
      BY <1>1, <1>2, <1>8
    <2>2. \A n \in 1..Len(completed') : completed'[n].ok =>
             UnitsOf(wire, completed'[n].msg)
                = FirstUnits(completed'[n].msg, Size[completed'[n].msg])
      BY <1>0, <1>1, <1>5, <2>1 DEF CutOnlyWithError
    <2>3. \A p \in Msgs : UnitsOf(wire, p) # {} =>
             \E n \in 1..Len(completed') : completed'[n].msg = p
      <3> TAKE p \in Msgs
      <3>1. ASSUME NEW n \in 1..Len(completed), completed[n].msg = p
            PROVE  n \in 1..Len(completed') /\ completed'[n].msg = p
        BY <1>1, <1>2, <3>1
      <3>2. m = Head(queue)
        BY DEF m
      <3> QED BY <1>0, <1>1, <1>8, <3>1, <3>2 DEF CutOnlyWithError
    <2> QED BY <2>2, <2>3 DEF CutOnlyWithError
  <1> QED BY <1>3, <1>7, <1>9 DEF WireInv

\* write_impl starts a message of which the socket has nothing, or starts none.
LEMMA WriteImplWire ==
    ASSUME IInv, FIFOInv, WireInv, TypeOK', FIFOInv', WriteImpl
    PROVE  WireInv'
  <1> DEFINE m == Head(strand).msg
  <1>0. TypeOK /\ SentSoFar /\ SentInTurn /\ WireInOrder /\ CutOnlyWithError
    BY DEF IInv, WireInv
  <1>1. /\ Runs("write") /\ strand' = Tail(strand) /\ queue' = Append(queue, m)
        /\ UNCHANGED <<accepted, completed, wire>>
    BY DEF WriteImpl, QueuePush
  <1>2. Passed + 1 \in 1..Len(accepted) /\ m = accepted[Passed + 1] /\ Passed \in Nat
    BY <1>0, <1>1, NextPosted, Lengths
  <1>3. Len(queue') = Len(queue) + 1 /\ (queue # <<>> => queue' # <<>> /\ Head(queue') = Head(queue))
    <2>1. m \in Msgs
      BY <1>0, <1>1, HeadOfStrand
    <2> QED BY <1>0, <1>1, <2>1, QueuedBehind
  <1>4. SentInTurn' /\ WireInOrder'
    <2>1. /\ Len(accepted) <= Len(accepted')
          /\ \A n \in 1..Len(accepted) : accepted'[n] = accepted[n]
          /\ Passed <= Passed' /\ Len(completed) <= Len(completed')
      BY <1>0, <1>1, <1>3, Lengths DEF Passed
    <2> QED BY <1>0, <1>1, <2>1, WireSame DEF FIFOInv
  <1>5. CutOnlyWithError'
    BY <1>0, <1>1, <1>3, CutSame
  <1>6. /\ \A i \in WroteAt' : i + 1 \in WroteAt /\ strand'[i] = strand[i + 1]
        /\ \A i \in WroteAt : i - 1 \in WroteAt'
    BY <1>0, <1>1, RunOther
  <1>7. CASE queue = <<>>
    <2>1. ops = <<>> /\ WroteAt = {}
      BY <1>7 DEF IInv, FrontInFlight, WritesFront, TypeOK
    <2>2. WroteAt' = {}
      BY <1>6, <2>1
    <2>3. UnitsOf(wire, accepted[Passed + 1]) = {}
      <3>1. Passed + 1 > Passed
        BY <1>2
      <3> QED BY <1>0, <1>2, <3>1, NothingSentYet
    <2>4. PICK op : StartWrite(op) /\ op.total = 0 /\ op.msg = accepted[Passed + 1]
      <3>1. StartWrite(WholeMessage(m))
        BY <1>7 DEF WriteImpl, NobodyWrites
      <3> QED BY <1>2, <3>1 DEF WholeMessage
    <2>5. SentSoFar'
      BY <1>1, <2>1, <2>2, <2>3, <2>4, FirstNone, StartedSoFar
    <2> QED BY <1>4, <1>5, <2>5 DEF WireInv
  <1>8. CASE queue # <<>>
    <2>1. UNCHANGED ops
      BY <1>8 DEF WriteImpl, NobodyWrites
    <2>2. SentSoFar'
      BY <1>0, <1>1, <1>6, <2>1, SoFarSame
    <2> QED BY <1>4, <1>5, <2>2 DEF WireInv
  <1> QED BY <1>7, <1>8

\* A message taken in part is continued where its bytes on the wire end.
LEMMA PartialWire ==
    ASSUME IInv, FIFOInv, WireInv, TypeOK', FIFOInv', WriteHandlerPartial
    PROVE  WireInv'
  <1>0. TypeOK /\ SentSoFar /\ SentInTurn /\ WireInOrder /\ CutOnlyWithError
    BY DEF IInv, WireInv
  <1>1. /\ Runs("wrote") /\ strand' = Tail(strand) /\ StartWrite(RestOfFront(Head(strand)))
        /\ UNCHANGED <<queue, accepted, completed, wire>>
    BY DEF WriteHandlerPartial
  <1>2. ops = <<>> /\ WroteAt' = {}
    BY <1>1, WroteAtHead, RunWrote
  <1>3. SentSoFar'
    <2>1. UnitsOf(wire, Head(queue))
             = FirstUnits(Head(queue), Head(strand).op.total + Head(strand).bytes)
      BY <1>0, <1>1, AnsweredSoFar
    <2>2. PICK op : /\ StartWrite(op) /\ op.msg = Head(queue)
                    /\ op.total = Head(strand).op.total + Head(strand).bytes
      BY <1>1 DEF RestOfFront
    <2> QED BY <1>1, <1>2, <2>1, <2>2, StartedSoFar
  <1>4. SentInTurn' /\ WireInOrder'
    <2>1. /\ Len(accepted) <= Len(accepted') /\ Passed <= Passed'
          /\ Len(completed) <= Len(completed')
      BY <1>0, <1>1, Lengths DEF Passed
    <2> QED BY <1>0, <1>1, <2>1, WireSame DEF FIFOInv
  <1>5. CutOnlyWithError'
    BY <1>0, <1>1, CutSame
  <1> QED BY <1>3, <1>4, <1>5 DEF WireInv

\* Every step keeps what is known of the bytes on the wire.
LEMMA NextWire ==
    ASSUME IInv, FIFOInv, WireInv, IInv', FIFOInv', [Next]_vars
    PROVE  WireInv'
  <1>0. /\ TypeOK /\ TypeOK' /\ Unique'
        /\ SentSoFar /\ SentInTurn /\ WireInOrder /\ CutOnlyWithError
    BY DEF IInv, FIFOInv, WireInv
  <1>1. ASSUME UNCHANGED <<queue, completed, wire>>,
               Len(accepted) <= Len(accepted'),
               \A n \in 1..Len(accepted) : accepted'[n] = accepted[n],
               SentSoFar'
        PROVE  WireInv'
    <2>1. Passed <= Passed' /\ Len(completed) <= Len(completed')
      BY <1>0, <1>1, Lengths DEF Passed
    <2>2. SentInTurn' /\ WireInOrder'
      BY <1>0, <1>1, <2>1, WireSame
    <2>3. CutOnlyWithError'
      BY <1>0, <1>1, CutSame
    <2> QED BY <1>1, <2>2, <2>3 DEF WireInv
  <1>2. ASSUME UNCHANGED <<queue, ops, accepted, completed, wire>>,
               \/ WroteAt' = WroteAt /\ \A i \in WroteAt : strand'[i] = strand[i]
               \/ \A i \in WroteAt' : i + 1 \in WroteAt /\ strand'[i] = strand[i + 1]
        PROVE  WireInv'
    <2>1. SentSoFar'
      BY <1>0, <1>2, SoFarSame
    <2>2. Len(accepted) <= Len(accepted')
      BY <1>0, <1>2, Lengths
    <2> QED BY <1>1, <1>2, <2>1, <2>2
  <1>3. CASE UNCHANGED vars \/ Read \/ Release
    BY <1>2, <1>3 DEF vars, Read, Release, WroteAt
  <1>4. ASSUME NEW m \in Msgs, Write(m) PROVE WireInv'
    <2>1. /\ UNCHANGED <<queue, ops, completed, wire>>
          /\ strand' = Append(strand, [kind |-> "write", msg |-> m])
          /\ accepted' = Append(accepted, m)
      BY <1>4 DEF Write
    <2>2. WroteAt' = WroteAt /\ \A i \in WroteAt : strand'[i] = strand[i]
      BY <1>0, <2>1, PostOther
    <2>3. SentSoFar'
      BY <1>0, <2>1, <2>2, SoFarSame
    <2>4. /\ Len(accepted) <= Len(accepted')
          /\ \A n \in 1..Len(accepted) : accepted'[n] = accepted[n]
      <3>1. accepted \in Seq(Msgs)
        BY <1>0 DEF TypeOK
      <3> QED BY <2>1, <3>1
    <2> QED BY <1>1, <2>1, <2>3, <2>4
  <1>5. CASE Close
    BY <1>0, <1>2, <1>5, PostOther DEF Close
  <1>6. ASSUME NEW i \in 1..Len(ops), WriteTaken(i) PROVE WireInv'
    BY <1>0, <1>6, TakenWire
  <1>7. ASSUME NEW i \in 1..Len(ops), WriteRefused(i) PROVE WireInv'
    <2>1. Answer(i, FALSE, 0) /\ UNCHANGED <<wire, queue, completed, accepted>>
      BY <1>7 DEF WriteRefused, Answer
    <2>2. ops[i] \in Op /\ Len(ops) <= 1 /\ WroteAt = {}
      BY OpAt
    <2>3. ops' = <<>>
      BY <1>0, <2>1, <2>2, RemoveOnly DEF Answer, TypeOK
    <2> DEFINE t == [kind |-> "wrote", op |-> ops[i], ok |-> FALSE, bytes |-> 0]
    <2>4. strand' = Append(strand, t) /\ t.kind = "wrote" /\ t.op = ops[i] /\ t.bytes = 0
      BY <2>1 DEF Answer
    <2> HIDE DEF t
    <2>5. WroteAt' = {Len(strand) + 1} /\ strand'[Len(strand) + 1] = t
      BY <1>0, <2>2, <2>4, PostWrote
    <2>6. ops[i].total + 0 = ops[i].total /\ 0 <= ops[i].length
      BY <2>2 DEF Op
    <2>7. SentSoFar'
      BY <1>0, <2>1, <2>3, <2>4, <2>5, <2>6 DEF SentSoFar
    <2>8. Len(accepted) <= Len(accepted')
      BY <1>0, <2>1, Lengths
    <2> QED BY <1>1, <2>1, <2>7, <2>8
  <1>8. ASSUME NEW ok \in BOOLEAN, ReadAnswered(ok) PROVE WireInv'
    BY <1>0, <1>2, <1>8, PostOther DEF ReadAnswered
  <1>9. CASE WriteImpl
    BY <1>0, <1>9, WriteImplWire
  <1>10. CASE WriteHandlerPartial
    BY <1>0, <1>10, PartialWire
  <1>11. CASE WriteHandlerDone \/ WriteHandlerError
    <2>1. /\ Runs("wrote") /\ (Head(strand).ok => TookAll(Head(strand)))
          /\ PostCall(Head(strand)) /\ PopAndContinue /\ strand' = Tail(strand)
          /\ UNCHANGED <<accepted, wire>>
      BY <1>11 DEF WriteHandlerDone, WriteHandlerError
    <2> QED BY <1>0, <2>1, ReportWire
  <1>12. CASE CloseImpl
    BY <1>0, <1>2, <1>12, RunOther DEF CloseImpl
  <1>13. CASE ReadHandler
    BY <1>0, <1>2, <1>13, RunOther DEF ReadHandler
  <1> QED BY <1>3, <1>4, <1>5, <1>6, <1>7, <1>8, <1>9, <1>10, <1>11, <1>12, <1>13
          DEF Next, WriteAnswered, RunStrand, WriteHandler

\* A transport that nobody keeps alive has nothing left to report.
LEMMA DroppedIsDone ==
    ASSUME IInv, FIFOInv
    PROVE  NothingLostByRelease
  <1> SUFFICES ASSUME active, ~Alive PROVE Len(completed) = Len(accepted)
    BY DEF NothingLostByRelease
  <1>1. ops = <<>> /\ WroteAt = {} /\ PostedAt = {}
    BY DEF Alive, KeepsAlive, WroteAt, PostedAt
  <1>2. queue = <<>>
    BY <1>1 DEF IInv, NothingStalls
  <1>3. Len(accepted) \in Nat /\ Len(completed) \in Nat /\ Passed = Len(completed)
    BY <1>2, Lengths DEF IInv
  <1>4. (Passed + 1)..Len(accepted) = {} /\ Passed <= Len(accepted)
    BY <1>1 DEF FIFOInv, Conservation
  <1>5. ~(Passed + 1 <= Len(accepted))
    <2> SUFFICES ASSUME Passed + 1 <= Len(accepted) PROVE FALSE
      OBVIOUS
    <2>1. Passed + 1 \in (Passed + 1)..Len(accepted)
      BY <1>3
    <2> QED BY <1>4, <2>1
  <1> QED BY <1>3, <1>4, <1>5

\* Nothing is lost, doubled or overtaken, and the wire is as it should be.
THEOREM DeliveryInvariance == Spec => [](FIFOInv /\ WireInv)
  <1>1. Init => FIFOInv /\ WireInv
    <2> SUFFICES ASSUME Init PROVE FIFOInv /\ WireInv
      OBVIOUS
    <2>1. /\ Len(accepted) = 0 /\ Len(completed) = 0 /\ Len(queue) = 0 /\ Len(ops) = 0
          /\ Len(wire) = 0 /\ Len(strand) = 0 /\ DOMAIN wire = 1..0
      BY DEF Init
    <2>2. WroteAt = {} /\ PostedAt = {} /\ Passed = 0
      BY <2>1 DEF WroteAt, PostedAt, Passed
    <2>3. \A m : UnitsOf(wire, m) = {}
      BY <2>1 DEF UnitsOf, Range
    <2>4. FIFOInv
      BY <2>1, <2>2 DEF FIFOInv, Unique, Conservation
    <2>5. SentSoFar /\ SentInTurn
      BY <2>1, <2>2 DEF SentSoFar, SentInTurn
    <2>6. WireInOrder
      <3>1. \A m \in Msgs : 0 \in 0..Size[m] /\ UnitsOf(wire, m) = FirstUnits(m, 0)
        BY <2>3, FirstNone, SizeAssumption
      <3> QED BY <2>1, <3>1 DEF WireInOrder
    <2>7. CutOnlyWithError
      BY <2>1, <2>3 DEF CutOnlyWithError
    <2> QED BY <2>4, <2>5, <2>6, <2>7 DEF WireInv
  <1>2. IInv /\ IInv' /\ FIFOInv /\ WireInv /\ [Next]_vars => FIFOInv' /\ WireInv'
    BY NextFIFO, NextWire
  <1> QED BY Invariance, <1>1, <1>2, PTL DEF Spec

\* What write() was given comes out as it went in: in the order of the calls, each
\* message once, its bytes together and in order, whole unless its post_call is told
\* of an error, and also when the user has dropped the transport.
THEOREM DeliversInOrder == Spec => []DeliveredInOrder
  <1>1. IInv /\ FIFOInv /\ WireInv => DeliveredInOrder
    BY DroppedIsDone DEF FIFOInv, WireInv, DeliveredInOrder
  <1> QED BY Invariance, DeliveryInvariance, <1>1, PTL

(***************************************************************************)
(* The transport implements the write channel: every step of it is a step of *)
(* the channel or leaves the channel alone.                                  *)
(***************************************************************************)

\* What the channel reports.
Reported == [i \in 1..Len(completed) |-> [msg |-> completed[i].msg, ok |-> completed[i].ok]]

\* An operation is with the socket, or its handler is yet to run.
Busy == ops # <<>> \/ WroteAt # {}

\* How much of the message in flight was sent is told by its operation.
SentIs ==
    /\ \A i \in 1..Len(ops) : BytesSent = ops[i].total
    /\ \A i \in WroteAt : BytesSent = strand[i].op.total + strand[i].bytes
    /\ ~Busy => BytesSent = 0

LEMMA SentIsNow == ASSUME TypeOK, OneOperation PROVE SentIs
  <1>1. ops \in Seq(Op) /\ Len(ops) \in Nat /\ Len(ops) <= 1
    BY DEF TypeOK, OneOperation
  <1>2. \A i \in 1..Len(ops) : i = 1 /\ ops # <<>>
    BY <1>1
  <1>3. \A i \in WroteAt : ops = <<>> /\ (CHOOSE j \in WroteAt : TRUE) = i
    <2> TAKE i \in WroteAt
    <2>1. (CHOOSE j \in WroteAt : TRUE) \in WroteAt
      BY Zenon
    <2> QED BY <2>1 DEF OneOperation
  <1>4. \A i \in WroteAt : BytesSent = strand[i].op.total + strand[i].bytes
    BY <1>3, Zenon DEF BytesSent
  <1>5. ~Busy => BytesSent = 0
    BY DEF Busy, BytesSent
  <1> QED BY <1>2, <1>4, <1>5 DEF SentIs, BytesSent

LEMMA SentIsThen == ASSUME TypeOK', OneOperation' PROVE SentIs'
  <1>1. ops' \in Seq(Op) /\ Len(ops') \in Nat /\ Len(ops') <= 1
    BY DEF TypeOK, OneOperation
  <1>2. \A i \in 1..Len(ops') : i = 1 /\ ops' # <<>>
    BY <1>1
  <1>3. \A i \in WroteAt' : ops' = <<>> /\ (CHOOSE j \in WroteAt' : TRUE) = i
    <2> TAKE i \in WroteAt'
    <2>1. (CHOOSE j \in WroteAt' : TRUE) \in WroteAt'
      BY Zenon
    <2> QED BY <2>1 DEF OneOperation
  <1>4. \A i \in WroteAt' : BytesSent' = strand'[i].op.total + strand'[i].bytes
    BY <1>3, Zenon DEF BytesSent
  <1>5. ~Busy' => BytesSent' = 0
    BY DEF Busy, BytesSent
  <1> QED BY <1>2, <1>4, <1>5 DEF SentIs, BytesSent

\* The channel has a current message when an operation is in flight: its own.
LEMMA CurrentInFlight ==
    ASSUME IInv, FIFOInv, Busy
    PROVE  /\ Len(Reported) = Len(completed)
           /\ Len(Reported) < Len(accepted)
           /\ accepted[Len(Reported) + 1] = Head(queue)
  <1>1. PICK op \in Op : WritesFront(op)
    <2>1. CASE ops # <<>>
      BY <2>1 DEF IInv, TypeOK, FrontInFlight
    <2>2. CASE WroteAt # {}
      <3>1. PICK i \in WroteAt : WritesFront(strand[i].op)
        BY <2>2 DEF IInv, FrontInFlight
      <3>2. strand[i] \in Task /\ strand[i].kind = "wrote"
        BY DEF IInv, TypeOK, WroteAt
      <3>3. strand[i] \in WroteTask
        BY <3>2 DEF Task, WriteTask, CloseTask, ReadTask
      <3> QED BY <3>1, <3>3 DEF WroteTask
    <2> QED BY <2>1, <2>2 DEF Busy
  <1>2. Len(completed) + 1 \in 1..Len(accepted) /\ op.msg = accepted[Len(completed) + 1]
    BY <1>1, InFlight DEF IInv
  <1>3. Len(Reported) = Len(completed) /\ Len(completed) \in Nat /\ Len(accepted) \in Nat
    BY Lengths DEF IInv, Reported
  <1> QED BY <1>1, <1>2, <1>3 DEF WritesFront

\* A step that leaves the histories, `active' and what is in flight alone leaves
\* the channel alone.
LEMMA ChannelSame ==
    ASSUME UNCHANGED <<accepted, completed, wire, active>>,
           BytesSent' = BytesSent, active \/ (Busy' <=> Busy)
    PROVE  UNCHANGED Channel!channelVars
  BY DEF Channel!channelVars, Busy

\* Handlers that move in the strand change nothing of what is in flight.
LEMMA FlightSame ==
    ASSUME IInv, IInv', UNCHANGED ops,
           \/ WroteAt' = WroteAt /\ \A i \in WroteAt : strand'[i] = strand[i]
           \/ /\ \A i \in WroteAt' : i + 1 \in WroteAt /\ strand'[i] = strand[i + 1]
              /\ \A i \in WroteAt : i - 1 \in WroteAt'
    PROVE  BytesSent' = BytesSent /\ (Busy' <=> Busy)
  <1>0. SentIs /\ SentIs'
    BY SentIsNow, SentIsThen DEF IInv
  <1>1. Busy' <=> Busy
    BY DEF Busy
  <1>2. ASSUME NEW i \in 1..Len(ops) PROVE BytesSent' = BytesSent
    <2>1. BytesSent = ops[i].total
      BY <1>0 DEF SentIs
    <2>2. ops' = ops
      OBVIOUS
    <2>3. BytesSent' = ops'[i].total
      BY <1>0, <2>2 DEF SentIs
    <2> QED BY <2>1, <2>2, <2>3, Zenon
  <1>3. ASSUME NEW i \in WroteAt' PROVE BytesSent' = BytesSent
    <2>1. PICK j \in WroteAt : strand'[i] = strand[j]
      OBVIOUS
    <2>2. BytesSent' = strand'[i].op.total + strand'[i].bytes
      BY <1>0 DEF SentIs
    <2>3. BytesSent = strand[j].op.total + strand[j].bytes
      BY <1>0 DEF SentIs
    <2> QED BY <2>1, <2>2, <2>3, Zenon
  <1>4. CASE ~Busy
    BY <1>0, <1>1, <1>4 DEF SentIs
  <1>5. ops # <<>> => \E i \in 1..Len(ops) : TRUE
    BY DEF IInv, TypeOK
  <1> QED BY <1>1, <1>2, <1>3, <1>4, <1>5 DEF Busy

\* Bytes taken by the socket are transmitted; taking none of them is no step.
LEMMA TakenTransmits ==
    ASSUME IInv, FIFOInv, IInv', NEW i \in 1..Len(ops), WriteTaken(i)
    PROVE  [Channel!Next]_(Channel!channelVars)
  <1> DEFINE m == Head(queue)
  <1>0. TypeOK /\ SentIs /\ SentIs'
    BY SentIsNow, SentIsThen DEF IInv
  <1>1. /\ Busy /\ ops[i] \in Op /\ WritesFront(ops[i]) /\ WroteAt = {} /\ Len(ops) <= 1
        /\ BytesSent = ops[i].total
    BY <1>0, OpAt DEF Busy, SentIs
  <1>2. ops[i].msg = m /\ ops[i].total + ops[i].length = Size[m]
        /\ ops[i].total \in Nat /\ ops[i].length \in Nat
    BY <1>1 DEF WritesFront, Op
  <1>3. PICK n \in 0..ops[i].length :
           /\ Answer(i, TRUE, n)
           /\ wire' = wire \o [k \in 1..n |-> <<ops[i].msg, ops[i].total + k>>]
    BY DEF WriteTaken
  <1>4. active /\ UNCHANGED <<accepted, completed, active>>
    BY <1>3 DEF Answer, WriteTaken
  <1>5. BytesSent' = BytesSent + n
    <2> DEFINE t == [kind |-> "wrote", op |-> ops[i], ok |-> TRUE, bytes |-> n]
    <2>1. strand' = Append(strand, t) /\ t.kind = "wrote" /\ t.op = ops[i] /\ t.bytes = n
      BY <1>3 DEF Answer
    <2> HIDE DEF t
    <2>2. WroteAt' = {Len(strand) + 1} /\ strand'[Len(strand) + 1] = t
      BY <1>0, <1>1, <2>1, PostWrote
    <2>3. BytesSent' = t.op.total + t.bytes
      BY <1>0, <2>2 DEF SentIs
    <2> QED BY <1>1, <2>1, <2>3
  <1>6. Len(Reported) < Len(accepted) /\ accepted[Len(Reported) + 1] = m
    BY <1>1, CurrentInFlight
  <1> HIDE DEF m
  <1>7. CASE n = 0
    <2>1. wire' = wire
      <3>1. [k \in 1..n |-> <<ops[i].msg, ops[i].total + k>>] = <<>>
        BY <1>7
      <3>2. wire \o <<>> = wire
        <4>1. wire \in Seq(Unit)
          BY <1>0 DEF TypeOK
        <4> QED BY <4>1
      <3> QED BY <1>3, <3>1, <3>2, Zenon
    <2>2. BytesSent' = BytesSent
      BY <1>1, <1>2, <1>5, <1>7
    <2> QED BY <1>4, <2>1, <2>2, ChannelSame
  <1>8. CASE n # 0
    <2>1. n \in 1..Size[m] /\ BytesSent + n <= Size[m]
      BY <1>1, <1>2, <1>8
    <2>2. wire' = wire \o [k \in 1..n |-> <<m, BytesSent + k>>]
      BY <1>1, <1>2, <1>3, Zenon
    <2>3. Channel!Current = m /\ Channel!HasCurrent
      BY <1>6 DEF Channel!Current, Channel!HasCurrent, Reported
    <2>4. Channel!Transmit(n)
      BY <1>4, <1>5, <2>1, <2>2, <2>3 DEF Channel!Transmit
    <2>5. n \in 1..Size[Channel!Current]
      BY <2>1, <2>3, Zenon
    <2> QED BY <2>3, <2>4, <2>5 DEF Channel!Next
  <1> QED BY <1>7, <1>8

\* write_impl is no step of the channel: it accepted the message in write().
LEMMA WriteImplStutters ==
    ASSUME IInv, FIFOInv, IInv', WriteImpl
    PROVE  UNCHANGED Channel!channelVars
  <1>0. TypeOK /\ SentIs /\ SentIs'
    BY SentIsNow, SentIsThen DEF IInv
  <1>1. Runs("write") /\ strand' = Tail(strand) /\ UNCHANGED <<active, accepted, completed, wire>>
    BY DEF WriteImpl
  <1>2. /\ \A i \in WroteAt' : i + 1 \in WroteAt /\ strand'[i] = strand[i + 1]
        /\ \A i \in WroteAt : i - 1 \in WroteAt'
    BY <1>0, <1>1, RunOther
  <1>3. CASE queue # <<>>
    <2>1. UNCHANGED ops
      BY <1>3 DEF WriteImpl, NobodyWrites
    <2>2. BytesSent' = BytesSent /\ (Busy' <=> Busy)
      BY <1>2, <2>1, FlightSame
    <2> QED BY <1>1, <2>2, ChannelSame
  <1>4. CASE queue = <<>>
    <2>1. ops = <<>> /\ WroteAt = {} /\ WroteAt' = {}
      BY <1>2, <1>4 DEF IInv, FrontInFlight, WritesFront, TypeOK
    <2>2. StartWrite(WholeMessage(Head(strand).msg))
      BY <1>4 DEF WriteImpl, NobodyWrites
    <2>3. BytesSent = 0
      BY <1>0, <2>1 DEF SentIs, Busy
    <2>4. CASE active
      <3>1. Len(ops') = 1 /\ ops'[1].total = 0
        BY <2>1, <2>2, <2>4 DEF StartWrite, WholeMessage
      <3>2. BytesSent' = 0
        BY <1>0, <3>1 DEF SentIs
      <3> QED BY <1>1, <2>3, <2>4, <3>2, ChannelSame
    <2>5. CASE ~active
      <3>1. ops' = <<>>
        BY <2>1, <2>2, <2>5 DEF StartWrite
      <3>2. BytesSent' = 0 /\ ~Busy /\ ~Busy'
        BY <1>0, <2>1, <3>1 DEF SentIs, Busy
      <3> QED BY <1>1, <2>3, <3>2, ChannelSame
    <2> QED BY <2>4, <2>5
  <1> QED BY <1>3, <1>4

\* A message taken in part goes on on an open channel and is forfeited on a shut one.
LEMMA PartialForfeits ==
    ASSUME IInv, FIFOInv, IInv', WriteHandlerPartial
    PROVE  [Channel!Next]_(Channel!channelVars)
  <1>0. TypeOK /\ SentIs /\ SentIs'
    BY SentIsNow, SentIsThen DEF IInv
  <1>1. /\ Runs("wrote") /\ strand' = Tail(strand) /\ StartWrite(RestOfFront(Head(strand)))
        /\ UNCHANGED <<active, accepted, completed, wire>>
    BY DEF WriteHandlerPartial
  <1>2. ops = <<>> /\ WroteAt' = {} /\ 1 \in WroteAt /\ strand[1] = Head(strand)
    BY <1>1, WroteAtHead, RunWrote
  <1>3. BytesSent = Head(strand).op.total + Head(strand).bytes /\ Busy
    BY <1>0, <1>2 DEF SentIs, Busy
  <1>4. CASE active
    <2>1. Len(ops') = 1 /\ ops'[1].total = Head(strand).op.total + Head(strand).bytes
      BY <1>1, <1>2, <1>4 DEF StartWrite, RestOfFront
    <2>2. BytesSent' = BytesSent
      BY <1>0, <1>3, <2>1 DEF SentIs
    <2> QED BY <1>1, <1>4, <2>2, ChannelSame
  <1>5. CASE ~active
    <2>1. ops' = <<>>
      BY <1>1, <1>2, <1>5 DEF StartWrite
    <2>2. BytesSent' = 0 /\ ~Busy'
      BY <1>0, <1>2, <2>1 DEF SentIs, Busy
    <2>3. Channel!Forfeit
      BY <1>1, <1>3, <1>5, <2>2 DEF Channel!Forfeit, Busy
    <2> QED BY <2>3 DEF Channel!Next
  <1> QED BY <1>4, <1>5

\* The channel's reports are of messages.
LEMMA ReportedType ==
    ASSUME TypeOK
    PROVE  \A i \in 1..Len(completed) :
              [msg |-> completed[i].msg, ok |-> completed[i].ok] \in [msg : Msgs, ok : BOOLEAN]
  <1> DEFINE E == [msg : Msgs, ok : BOOLEAN, bytes : Nat]
  <1>1. completed \in Seq(E)
    BY DEF TypeOK
  <1> HIDE DEF E
  <1> TAKE i \in 1..Len(completed)
  <1>2. completed[i] \in E
    BY <1>1
  <1> USE DEF E
  <1>3. completed[i].msg \in Msgs /\ completed[i].ok \in BOOLEAN
    BY <1>2
  <1> QED BY <1>3

\* One more report.
LEMMA ReportedMore ==
    ASSUME TypeOK, NEW r \in [msg : Msgs, ok : BOOLEAN, bytes : Nat],
           completed' = Append(completed, r)
    PROVE  Reported' = Append(Reported, [msg |-> r.msg, ok |-> r.ok])
  <1>1. /\ completed \in Seq([msg : Msgs, ok : BOOLEAN, bytes : Nat])
        /\ Len(completed) \in Nat /\ Len(completed') = Len(completed) + 1
        /\ \A i \in 1..Len(completed) : completed'[i] = completed[i]
        /\ completed'[Len(completed) + 1] = r
    BY DEF TypeOK
  <1> DEFINE e == [msg |-> r.msg, ok |-> r.ok]
             s == Reported
  <1>2. s \in Seq([msg : Msgs, ok : BOOLEAN]) /\ Len(s) = Len(completed)
    <2> DEFINE E == [msg : Msgs, ok : BOOLEAN]
    <2>1. \A i \in 1..Len(completed) :
             [msg |-> completed[i].msg, ok |-> completed[i].ok] \in E
      BY ReportedType, Zenon DEF E
    <2> HIDE DEF E
    <2>2. s \in [1..Len(completed) -> E] /\ Len(s) = Len(completed)
      BY <1>1, <2>1 DEF Reported
    <2>3. s \in Seq(E)
      BY <1>1, <2>2
    <2> QED BY <2>2, <2>3 DEF E
  <1>3. Append(s, e) = [i \in 1..Len(s) + 1 |-> IF i = Len(s) + 1 THEN e ELSE s[i]]
    BY <1>2
  <1>4. \A i \in 1..Len(completed) + 1 :
           [msg |-> completed'[i].msg, ok |-> completed'[i].ok]
              = IF i = Len(completed) + 1 THEN e ELSE s[i]
    BY <1>1 DEF Reported
  <1>5. Reported' = [i \in 1..Len(completed) + 1 |->
                        [msg |-> completed'[i].msg, ok |-> completed'[i].ok]]
    BY <1>1 DEF Reported
  <1> QED BY <1>2, <1>3, <1>4, <1>5

\* write_handler reports the current message of the channel.
LEMMA ReportReports ==
    ASSUME IInv, FIFOInv, SentSoFar, IInv', Runs("wrote"),
           Head(strand).ok => TookAll(Head(strand)),
           PostCall(Head(strand)), PopAndContinue, strand' = Tail(strand),
           UNCHANGED <<accepted, wire, active>>
    PROVE  Channel!Next
  <1> DEFINE t == Head(strand)
             m == Head(queue)
  <1>0. TypeOK /\ SentIs /\ SentIs'
    BY SentIsNow, SentIsThen DEF IInv
  <1>1. /\ ops = <<>> /\ WroteAt' = {} /\ 1 \in WroteAt /\ strand[1] = t /\ queue # <<>>
        /\ t \in WroteTask
    BY WroteAtHead, RunWrote DEF WritesFront
  <1>2. BytesSent = t.op.total + t.bytes /\ Busy
    BY <1>0, <1>1 DEF SentIs, Busy
  <1>3. /\ t.bytes <= t.op.length /\ t.op.total + t.op.length = Size[m]
        /\ t.bytes \in Nat /\ t.op.total \in Nat /\ t.op.length \in Nat
    BY AnsweredSoFar
  <1>4. t.ok => BytesSent = Size[m]
    <2>1. t.ok => t.bytes >= t.op.length
      BY DEF TookAll
    <2> QED BY <1>2, <1>3, <2>1
  <1>5. m \in Msgs /\ t.ok \in BOOLEAN
    BY <1>0, <1>1 DEF TypeOK, WroteTask
  <1>6. BytesSent' = 0 /\ (active \/ ~Busy')
    <2>1. CASE Tail(queue) = <<>>
      <3>1. ops' = <<>>
        BY <1>1, <2>1 DEF PopAndContinue
      <3> QED BY <1>0, <1>1, <3>1 DEF SentIs, Busy
    <2>2. CASE Tail(queue) # <<>>
      <3>1. PICK op : StartWrite(op) /\ op.total = 0
        BY <2>2 DEF PopAndContinue, WholeMessage
      <3>2. CASE active
        <4>1. Len(ops') = 1 /\ ops'[1].total = 0
          BY <1>1, <3>1, <3>2 DEF StartWrite
        <4> QED BY <1>0, <3>2, <4>1 DEF SentIs
      <3>3. CASE ~active
        <4>1. ops' = <<>>
          BY <1>1, <3>1, <3>3 DEF StartWrite
        <4> QED BY <1>0, <1>1, <4>1 DEF SentIs, Busy
      <3> QED BY <3>2, <3>3
    <2> QED BY <2>1, <2>2
  <1>7. Reported' = Append(Reported, [msg |-> m, ok |-> t.ok])
    <2> DEFINE r == [msg |-> m, ok |-> t.ok, bytes |-> t.bytes]
    <2>1. completed' = Append(completed, r)
      BY DEF PostCall
    <2>2. r \in [msg : Msgs, ok : BOOLEAN, bytes : Nat] /\ r.msg = m /\ r.ok = t.ok
      BY <1>3, <1>5
    <2> HIDE DEF r, m, t
    <2> QED BY <1>0, <2>1, <2>2, ReportedMore
  <1>8. Len(Reported) < Len(accepted) /\ accepted[Len(Reported) + 1] = m
    BY <1>2, CurrentInFlight
  <1> HIDE DEF m, t
  <1>9. Channel!HasCurrent /\ Channel!Current = m
    BY <1>8 DEF Channel!HasCurrent, Channel!Current, Reported
  <1>10. active \in BOOLEAN
    BY <1>0 DEF TypeOK
  <1>11. PICK ok \in BOOLEAN : ok = t.ok
    BY <1>5
  <1>12. Channel!Report(ok)
    <2>1. active \/ (~active /\ (ops # <<>> \/ WroteAt # {}))
      BY <1>2, <1>10 DEF Busy
    <2>2. (~active' /\ (ops' # <<>> \/ WroteAt' # {})) = FALSE
      BY <1>6 DEF Busy
    <2>3. ok => BytesSent = Size[Channel!Current]
      BY <1>4, <1>9, <1>11
    <2>4. Reported' = Append(Reported, [msg |-> Channel!Current, ok |-> ok])
      BY <1>7, <1>9, <1>11
    <2> QED BY <1>6, <1>9, <2>1, <2>2, <2>3, <2>4, Zenon DEF Channel!Report, Reported
  <1> QED BY <1>12 DEF Channel!Next

\* Every step of the transport is a step of the channel, or leaves it alone.
LEMMA StepImplements ==
    ASSUME IInv, FIFOInv, WireInv, IInv', [Next]_vars
    PROVE  [Channel!Next]_(Channel!channelVars)
  <1>0. TypeOK /\ SentSoFar
    BY DEF IInv, WireInv
  <1>1. ASSUME UNCHANGED <<ops, accepted, completed, wire, active>>,
               \/ WroteAt' = WroteAt /\ \A i \in WroteAt : strand'[i] = strand[i]
               \/ /\ \A i \in WroteAt' : i + 1 \in WroteAt /\ strand'[i] = strand[i + 1]
                  /\ \A i \in WroteAt : i - 1 \in WroteAt'
        PROVE  UNCHANGED Channel!channelVars
    BY <1>1, FlightSame, ChannelSame
  <1>2. CASE UNCHANGED vars \/ Read \/ Release
    BY <1>1, <1>2 DEF vars, Read, Release, WroteAt
  <1>3. ASSUME NEW m \in Msgs, Write(m) PROVE Channel!Next
    <2>1. /\ UNCHANGED <<ops, completed, wire, active>>
          /\ strand' = Append(strand, [kind |-> "write", msg |-> m])
          /\ accepted' = Append(accepted, m)
          /\ \A i \in 1..Len(accepted) : accepted[i] # m
      BY <1>3 DEF Write
    <2>2. WroteAt' = WroteAt /\ \A i \in WroteAt : strand'[i] = strand[i]
      BY <1>0, <2>1, PostOther
    <2>3. BytesSent' = BytesSent /\ (Busy' <=> Busy)
      BY <2>1, <2>2, FlightSame
    <2>4. Channel!Accept(m)
      BY <2>1, <2>3 DEF Channel!Accept, Busy
    <2> QED BY <2>4 DEF Channel!Next
  <1>4. CASE Close
    <2>1. /\ strand' = Append(strand, [kind |-> "close"])
          /\ UNCHANGED <<ops, accepted, completed, wire, active>>
      BY <1>4 DEF Close
    <2> QED BY <1>0, <1>1, <2>1, PostOther
  <1>5. ASSUME NEW i \in 1..Len(ops), WriteTaken(i)
        PROVE  [Channel!Next]_(Channel!channelVars)
    BY <1>5, TakenTransmits
  <1>6. ASSUME NEW i \in 1..Len(ops), WriteRefused(i) PROVE UNCHANGED Channel!channelVars
    <2>0. SentIs /\ SentIs'
      BY SentIsNow, SentIsThen DEF IInv
    <2>1. Answer(i, FALSE, 0) /\ UNCHANGED <<accepted, completed, wire, active>>
      BY <1>6 DEF WriteRefused, Answer
    <2>2. ops[i] \in Op /\ Len(ops) <= 1 /\ WroteAt = {} /\ BytesSent = ops[i].total
      BY <2>0, OpAt DEF SentIs
    <2> DEFINE t == [kind |-> "wrote", op |-> ops[i], ok |-> FALSE, bytes |-> 0]
    <2>3. strand' = Append(strand, t) /\ t.kind = "wrote" /\ t.op = ops[i] /\ t.bytes = 0
      BY <2>1 DEF Answer
    <2> HIDE DEF t
    <2>4. WroteAt' = {Len(strand) + 1} /\ strand'[Len(strand) + 1] = t
      BY <1>0, <2>2, <2>3, PostWrote
    <2>5. BytesSent' = t.op.total + t.bytes /\ Busy'
      BY <2>0, <2>4 DEF SentIs, Busy
    <2>6. BytesSent' = BytesSent /\ Busy
      <3>1. ops[i].total + 0 = ops[i].total
        BY <2>2 DEF Op
      <3> QED BY <2>2, <2>3, <2>5, <3>1 DEF Busy
    <2> QED BY <2>1, <2>5, <2>6, ChannelSame
  <1>7. ASSUME NEW ok \in BOOLEAN, ReadAnswered(ok) PROVE UNCHANGED Channel!channelVars
    <2>1. /\ strand' = Append(strand, [kind |-> "read", ok |-> ok])
          /\ UNCHANGED <<ops, accepted, completed, wire, active>>
      BY <1>7 DEF ReadAnswered
    <2> QED BY <1>0, <1>1, <2>1, PostOther
  <1>8. CASE WriteImpl
    BY <1>8, WriteImplStutters
  <1>9. CASE WriteHandlerPartial
    BY <1>9, PartialForfeits
  <1>10. CASE WriteHandlerDone \/ WriteHandlerError
    <2>1. /\ Runs("wrote") /\ (Head(strand).ok => TookAll(Head(strand)))
          /\ PostCall(Head(strand)) /\ PopAndContinue /\ strand' = Tail(strand)
          /\ UNCHANGED <<accepted, wire, active>>
      BY <1>10 DEF WriteHandlerDone, WriteHandlerError
    <2> QED BY <1>0, <2>1, ReportReports
  <1>11. CASE CloseImpl
    <2>1. Runs("close") /\ strand' = Tail(strand) /\ UNCHANGED <<ops, accepted, completed, wire>>
      BY <1>11 DEF CloseImpl
    <2>2. /\ \A i \in WroteAt' : i + 1 \in WroteAt /\ strand'[i] = strand[i + 1]
          /\ \A i \in WroteAt : i - 1 \in WroteAt'
      BY <1>0, <2>1, RunOther
    <2>3. CASE active' = active
      BY <1>1, <2>1, <2>2, <2>3
    <2>4. CASE active' # active
      <3>1. active = TRUE /\ active' = FALSE
        BY <1>11, <2>4, <1>0 DEF CloseImpl, CloseTakesEffect, TypeOK
      <3>2. BytesSent' = BytesSent /\ (Busy' <=> Busy)
        BY <2>1, <2>2, FlightSame
      <3>3. Busy => Channel!HasCurrent
        BY CurrentInFlight DEF Channel!HasCurrent, Reported
      <3>4. Channel!Shut
        BY <2>1, <3>1, <3>2, <3>3 DEF Channel!Shut, Busy
      <3> QED BY <3>4 DEF Channel!Next
    <2> QED BY <2>3, <2>4
  <1>12. CASE ReadHandler
    <2>1. Runs("read") /\ strand' = Tail(strand)
          /\ UNCHANGED <<ops, accepted, completed, wire, active>>
      BY <1>12 DEF ReadHandler
    <2> QED BY <1>0, <1>1, <2>1, RunOther
  <1> QED BY <1>2, <1>3, <1>4, <1>5, <1>6, <1>7, <1>8, <1>9, <1>10, <1>11, <1>12
          DEF Next, WriteAnswered, RunStrand, WriteHandler

\* The writing side of the transport is a FIFO channel of messages, whatever the way
\* the socket splits them.
THEOREM TransportIsAChannel == Spec => ImplementsChannel
  <1>1. Init => Channel!Init
    <2> SUFFICES ASSUME Init PROVE Channel!Init
      OBVIOUS
    <2>1. WroteAt = {} /\ completed = <<>> /\ Len(completed) = 0
      BY DEF Init, WroteAt
    <2>2. [i \in 1..Len(completed) |-> [msg |-> completed[i].msg, ok |-> completed[i].ok]] = <<>>
      BY <2>1
    <2> QED BY <2>1, <2>2 DEF Init, Channel!Init, BytesSent
  <1>2. IInv /\ IInv' /\ FIFOInv /\ WireInv /\ [Next]_vars
           => [Channel!Next]_(Channel!channelVars)
    BY StepImplements
  <1> QED BY Invariance, DeliveryInvariance, <1>1, <1>2, PTL DEF Spec, ImplementsChannel, Channel!Spec
=============================================================================
