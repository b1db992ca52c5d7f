--------------------------- MODULE MessageFraming ---------------------------
(***************************************************************************)
(* delegates::message: cutting what a stream transport receives into the     *)
(* messages that were sent, whatever pieces it arrives in.                    *)
(*                                                                           *)
(* The peer writes frames (a length and that many bytes) and may end with    *)
(* bytes that are no frame.  The transport delivers some of the bytes when it *)
(* has been asked to read.  One call of on_data is OnData and then one step   *)
(* for each turn of its loop: only the wire can change in between.            *)
(***************************************************************************)
EXTENDS Sizepack

CONSTANTS
    Messages,       \* the messages the peer may send
    MaxSent,        \* bound on how many it sends
    Garbage,        \* what it may send in the end that is no frame, or <<>>
    BufferSize,     \* read_buffer_.size() of the transport
    MaxLength       \* max_length_: what validate_length accepts

ASSUME FramingAssumption ==
    /\ \A m \in Messages : m \in Seq(Byte) /\ Len(m) \in Sizes
    /\ Garbage \in Seq(Byte)
    /\ MaxSent \in Nat /\ BufferSize \in Nat \ {0} /\ MaxLength \in Nat

VARIABLES
    sent,       \* history: the messages sent
    corrupt,    \* history: the garbage was sent
    wire,       \* bytes on the way
    unpacked,   \* unpacked_
    phase,      \* "reading": the transport was asked to read; "cutting": in on_data
    delivered,  \* history: the messages given to on_message
    failed      \* history: on_error was called

vars == <<sent, corrupt, wire, unpacked, phase, delivered, failed>>

Init ==
    /\ sent = <<>>
    /\ corrupt = FALSE
    /\ wire = <<>>
    /\ unpacked = <<>>
    /\ phase = "reading"
    /\ delivered = <<>>
    /\ failed = FALSE

Send(m) ==
    /\ ~corrupt
    /\ Len(sent) < MaxSent
    /\ sent' = Append(sent, m)
    /\ wire' = wire \o Frame(m)
    /\ UNCHANGED <<corrupt, unpacked, phase, delivered, failed>>

SendGarbage ==
    /\ ~corrupt
    /\ Garbage # <<>>
    /\ corrupt' = TRUE
    /\ wire' = wire \o Garbage
    /\ UNCHANGED <<sent, unpacked, phase, delivered, failed>>

Insert(bytes) == unpacked \o bytes

OnDataOf(n) ==
    /\ phase = "reading"
    /\ unpacked' = Insert(SubSeq(wire, 1, n))
    /\ wire' = SubSeq(wire, n + 1, Len(wire))
    /\ phase' = "cutting"
    /\ UNCHANGED <<sent, corrupt, delivered, failed>>

OnData == \E n \in 1..Min({Len(wire), BufferSize}) : OnDataOf(n)

\* What chck refuses: more bytes than a prefix has, and still no prefix.
PrefixTooLong == Len(unpacked) > MaxPrefix /\ SizeLength(unpacked) < MinPrefix

HasPrefix ==
    /\ unpacked # <<>>
    /\ ~PrefixTooLong
    /\ SizeLength(unpacked) >= MinPrefix

\* Mutant: a message whose last byte is the last there is has to wait.
MutantIsComplete(size) == Len(unpacked) > size + SizeLength(unpacked)

IsComplete(size) == Len(unpacked) >= size + SizeLength(unpacked)

\* Mutant: the bytes of the prefix stay in the buffer.
MutantErased(size) == size

Erased(size) == SizeLength(unpacked) + size

ValidLength(size) == size <= MaxLength

CutMessage ==
    LET from == SizeLength(unpacked) IN
    /\ phase = "cutting"
    /\ HasPrefix
    /\ \E size \in Unpacked(unpacked) :
          /\ ValidLength(size)
          /\ IsComplete(size)
          /\ delivered' = Append(delivered, SubSeq(unpacked, from + 1, from + size))
          /\ unpacked' = SubSeq(unpacked, Erased(size) + 1, Len(unpacked))
    /\ UNCHANGED <<sent, corrupt, wire, phase, failed>>

\* The loop ends and the next read is asked for: nothing is left, the prefix or
\* the message is not all there, or validate_length refuses the length.
NeedRead ==
    /\ phase = "cutting"
    /\ \/ unpacked = <<>>
       \/ ~PrefixTooLong /\ ~HasPrefix
       \/ /\ HasPrefix
          /\ \E size \in Unpacked(unpacked) : ~ValidLength(size) \/ ~IsComplete(size)
    /\ phase' = "reading"
    /\ UNCHANGED <<sent, corrupt, wire, unpacked, delivered, failed>>

\* on_error ends the loop as well, and the next read is asked for all the same: to
\* close the transport is up to on_error.
RefusePrefix ==
    /\ phase = "cutting"
    /\ PrefixTooLong
    /\ failed' = TRUE
    /\ phase' = "reading"
    /\ UNCHANGED <<sent, corrupt, wire, unpacked, delivered>>

Next ==
    \/ \E m \in Messages : Send(m)
    \/ SendGarbage
    \/ OnData
    \/ CutMessage
    \/ NeedRead
    \/ RefusePrefix

Spec == Init /\ [][Next]_vars

----------------------------------------------------------------------------
(* Properties.                                                               *)

TypeOK ==
    /\ sent \in Seq(Messages) /\ Len(sent) <= MaxSent
    /\ corrupt \in BOOLEAN
    /\ wire \in Seq(Byte)
    /\ unpacked \in Seq(Byte)
    /\ phase \in {"reading", "cutting"}
    /\ delivered \in Seq(Seq(Byte))
    /\ failed \in BOOLEAN

\* The messages delivered are the messages sent, in order, whatever the pieces
\* they arrive in; bytes that are no frame change nothing for the messages before
\* them, and nobody is told of an error without such bytes.
DeliveredAsSent ==
    /\ IsPrefix(delivered, sent) \/ (corrupt /\ IsPrefix(sent, delivered))
    /\ failed => corrupt

\* Every byte sent is in a message delivered, in the buffer or on the way, in
\* this order: cutting neither loses nor repeats one.
EveryByteInPlace ==
    ~corrupt => Frames(delivered) \o unpacked \o wire = Frames(sent)

\* The delegate waits for more bytes only when it needs them: the first message
\* in the buffer is not complete, or too long to be accepted.
WaitsOnlyForBytes ==
    (phase = "reading" /\ ~corrupt /\ Len(delivered) < Len(sent)) =>
        LET next == sent[Len(delivered) + 1]
        IN  Len(next) > MaxLength \/ Len(unpacked) < Len(Frame(next))

\* The frames are cut where the peer put them together.
CutWhereJoined == DeliveredAsSent /\ EveryByteInPlace /\ WaitsOnlyForBytes

\* The caller of insert_size_prefix may take it that the message gets a prefix, and
\* so arrives: when nothing is on the way, all that was sent was delivered.
NothingLeftOut ==
    (~corrupt /\ phase = "reading" /\ wire = <<>> /\ unpacked = <<>>) => delivered = sent
=============================================================================
