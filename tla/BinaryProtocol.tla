--------------------------- MODULE BinaryProtocol ---------------------------
(***************************************************************************)
(* protocol::binary on the message delegate, and the transport under it.      *)
(* What on_message gets ends in a checksum; the rest is handed on.  An error  *)
(* asks the transport to close, while the handler it happened in goes on and  *)
(* reads once more.  on_data, close and failed reads are tasks of the         *)
(* transport's strand, in the order in which they were posted.                *)
(***************************************************************************)
EXTENDS StreamFraming

\* A message ends in its checksum, so that none is empty.
ASSUME ProtocolAssumption == <<>> \notin Messages

VARIABLES
    strand,     \* tasks: a count of bytes at the front of the wire, "close" or "error"
    pending,    \* an async_read_some waits
    active,     \* the transport's active_
    gone,       \* the peer has closed its end
    ready,      \* history: what on_message_ready was given
    late        \* history: pieces given to on_data after the first error

protocolVars == <<strand, pending, active, gone, ready, late>>
allVars == <<vars, streamVars, protocolVars>>

Data(n) == [kind |-> "data", bytes |-> n]
CloseImpl == [kind |-> "close", bytes |-> 0]
ReadError == [kind |-> "error", bytes |-> 0]

\* assign_transport, and the first read.
ProtocolInit ==
    /\ Init /\ StreamInit
    /\ strand = <<>>
    /\ pending = TRUE
    /\ active = TRUE
    /\ gone = FALSE
    /\ ready = <<>>
    /\ late = 0

\* The checksum is one byte of the sum here.
Checksum(bytes) == (FoldSeq(+, 0, bytes) + 2 * Base - 1) % (2 * Base)
HashSize == 1

Checked(m) == Len(m) >= HashSize /\ Last(m) = Checksum(Front(m))

Damage == \E i \in 1..Len(delivered) : ~Checked(delivered[i])

----------------------------------------------------------------------------
(* The peer and the transport.                                               *)

PeerSends(m) == ~gone /\ Send(m) /\ UNCHANGED <<streamVars, protocolVars>>
PeerSendsGarbage == ~gone /\ SendGarbage /\ UNCHANGED <<streamVars, protocolVars>>

PeerCloses ==
    /\ ~gone
    /\ gone' = TRUE
    /\ UNCHANGED <<vars, streamVars, strand, pending, active, ready, late>>

Post(task) == strand' = Append(strand, task)

ReadCompletes ==
    /\ pending /\ active
    /\ \E n \in 1..Min({Len(wire), BufferSize}) : Post(Data(n))
    /\ pending' = FALSE
    /\ UNCHANGED <<vars, streamVars, active, gone, ready, late>>

\* The peer is gone, or the socket was closed here.
ReadFails ==
    /\ pending
    /\ ~active \/ (gone /\ wire = <<>>)
    /\ Post(ReadError)
    /\ pending' = FALSE
    /\ UNCHANGED <<vars, streamVars, active, gone, ready, late>>

----------------------------------------------------------------------------
(* The strand: read_handler calls on_data of both delegates, the loop of the  *)
(* stream delegate first.                                                     *)

Runs(kind) == phase = "reading" /\ strand # <<>> /\ Head(strand).kind = kind

ReadHandler ==
    /\ Runs("data")
    /\ strand' = Tail(strand)
    /\ LET n == Head(strand).bytes IN OnDataOf(n) /\ Feed(SubSeq(wire, 1, n))
    /\ late' = IF failed \/ Damage THEN late + 1 ELSE late
    /\ UNCHANGED <<pending, active, gone, ready>>

StreamLoop == phase = "cutting" /\ StreamStep /\ UNCHANGED <<vars, protocolVars>>

\* Mutant: an error is reported, and nothing more.
MutantClose == UNCHANGED strand

Close == Post(CloseImpl)

Body(m) == Front(m)

\* on_message: the checksum, the tag (which takes no bytes) and on_message_ready.
\* The loop in on_data goes on after an error too.
OnMessage ==
    /\ buff = <<>>
    /\ CutMessage
    /\ LET m == Last(delivered') IN
         IF Checked(m)
           THEN ready' = Append(ready, Body(m)) /\ UNCHANGED strand
           ELSE Close /\ UNCHANGED ready
    /\ UNCHANGED <<streamVars, pending, active, gone, late>>

\* on_need_read
Read == pending' = TRUE

OnNeedRead ==
    /\ buff = <<>>
    /\ NeedRead /\ Read
    /\ UNCHANGED <<streamVars, strand, active, gone, ready, late>>

OnError ==
    /\ buff = <<>>
    /\ RefusePrefix /\ Close /\ Read
    /\ UNCHANGED <<streamVars, active, gone, ready, late>>

\* read_handler with an error: on_read_error
OnReadError ==
    /\ Runs("error")
    /\ strand' = Append(Tail(strand), CloseImpl)
    /\ UNCHANGED <<vars, streamVars, pending, active, gone, ready, late>>

\* Mutant: the socket is left open.
MutantSocketAfterClose == active

SocketAfterClose == FALSE

CloseTask ==
    /\ Runs("close")
    /\ strand' = Tail(strand)
    /\ active' = SocketAfterClose
    /\ UNCHANGED <<vars, streamVars, pending, gone, ready, late>>

Work ==
    \/ ReadCompletes \/ ReadFails \/ ReadHandler \/ StreamLoop
    \/ OnMessage \/ OnNeedRead \/ OnError \/ OnReadError \/ CloseTask

ProtocolNext ==
    \/ \E m \in Messages : PeerSends(m)
    \/ PeerSendsGarbage \/ PeerCloses
    \/ Work

\* The network and the io_service go on while there is something for them to do.
ProtocolSpec == ProtocolInit /\ [][ProtocolNext]_allVars /\ WF_allVars(Work)

----------------------------------------------------------------------------
(* Correctness.                                                              *)

ProtocolTypeOK ==
    /\ TypeOK /\ StreamTypeOK
    /\ strand \in Seq([kind : {"data", "close", "error"}, bytes : 0..BufferSize])
    /\ {pending, active, gone} \subseteq BOOLEAN
    /\ ready \in Seq(Seq(Byte))
    /\ late \in Nat

\* The bodies of those among the messages that are not damaged.
Bodies(messages) ==
    LET upto[n \in 0..Len(messages)] ==
            IF n = 0 THEN <<>>
            ELSE IF Checked(messages[n]) THEN Append(upto[n - 1], Body(messages[n]))
            ELSE upto[n - 1]
    IN  upto[Len(messages)]

\* What is handed on are the bodies of messages sent, in order, none of them
\* damaged; of what comes after a damaged one only what was read already.
HandedOnIntact == ~corrupt => IsPrefix(ready, Bodies(sent))

\* After an error one more piece is looked at, at most: the read that on_need_read
\* starts before the close may find bytes, the next one finds the socket closed.
OneLatePiece == late <= 1

\* Errors stop what is handed on: at once for what is damaged, and after one piece
\* for what follows it.
DamageContained == ProtocolTypeOK /\ HandedOnIntact /\ OneLatePiece

\* The first i messages are neither damaged nor too long.
Intact(i) == \A j \in 1..i : Len(sent[j]) <= MaxLength /\ Checked(sent[j])

\* An undamaged message with none before it that is damaged or too long is handed
\* on, also when its last byte and the end of the stream come together.
EveryMessageHandedOn ==
    \A i \in 1..MaxSent : (Len(sent) >= i /\ Intact(i)) ~> (Len(ready) >= i)

\* The transport is closed and nothing is left to run.
Ended == ~active /\ ~pending /\ strand = <<>>

\* An error, and the peer's going, close the transport and end the reading.
ErrorsEndIt == (failed \/ Damage \/ gone) ~> Ended
=============================================================================
