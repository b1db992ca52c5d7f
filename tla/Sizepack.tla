------------------------------ MODULE Sizepack ------------------------------
(***************************************************************************)
(* The length prefixes: sizepack::varint, which spends one bit of each byte  *)
(* on whether more follow and puts the low bits first, and sizepack::fixint, *)
(* which writes all bytes of the type, the high ones first.                  *)
(*                                                                           *)
(* Shift is 7 and a byte 8 bits in the code; both are smaller when TLC runs. *)
(***************************************************************************)
EXTENDS Integers, Sequences, SequencesExt, FiniteSetsExt

CONSTANTS
    Policy,     \* "varint" or "fixint"
    Bits,       \* width of size_type
    Shift       \* bits of the size that a byte of a varint carries

ASSUME SizepackAssumption ==
    /\ Policy \in {"varint", "fixint"}
    /\ Bits \in Nat \ {0}
    /\ Shift \in Nat \ {0}
    /\ Policy = "varint" => Bits % Shift # 0        \* 8, 16, 32, 64 and 7
    /\ Policy = "fixint" => Bits % (Shift + 1) = 0

\* The powers of two, which shifts by n multiply and divide with.
TwoTo[n \in Nat] == IF n = 0 THEN 1 ELSE 2 * TwoTo[n - 1]

Base == TwoTo[Shift]
Byte == 0..(2 * Base - 1)
Sizes == 0..(TwoTo[Bits] - 1)

\* The bits a byte carries, and how many values they have.
Carried == IF Policy = "varint" THEN Shift ELSE Shift + 1
Radix == TwoTo[Carried]

MaxPrefix == IF Policy = "varint" THEN Bits \div Shift + 1 ELSE Bits \div (Shift + 1)
MinPrefix == IF Policy = "varint" THEN 1 ELSE MaxPrefix

\* What n turns of the loops leave of a size: size >>= 7, size >>= 8.
Rest(size) ==
    LET after[n \in 0..MaxPrefix] == IF n = 0 THEN size ELSE after[n - 1] \div Radix
    IN  after

\* The first number of turns that leaves less than limit.
Turns(size, limit) ==
    CHOOSE n \in 0..MaxPrefix :
        Rest(size)[n] < limit /\ \A k \in 0..(n - 1) : Rest(size)[k] >= limit

VarintPack(size) ==
    LET last == Turns(size, Base)
    IN  [i \in 1..(last + 1) |->
           IF i <= last THEN (Rest(size)[i - 1] % Base) + Base ELSE Rest(size)[last]]

FixintPack(size) == [i \in 1..MaxPrefix |-> Rest(size)[MaxPrefix - i] % (2 * Base)]

\* size_type cuts what does not fit.
Pack(size) ==
    LET cut == size % TwoTo[Bits]
    IN  IF Policy = "varint" THEN VarintPack(cut) ELSE FixintPack(cut)

\* packed_length: what the callers of pack keep free for the prefix.  It is not
\* what pack writes when size is 0.
VarintPackedLength(size) == Turns(size, 1)

PackedLength(size) ==
    IF Policy = "varint" THEN VarintPackedLength(size % TwoTo[Bits]) ELSE MaxPrefix

VarintEnd(bytes) ==
    LET ends == {i \in 1..Len(bytes) : bytes[i] < Base}
    IN  IF ends = {} THEN 0 ELSE Min(ends)

\* size_length: the bytes of the prefix at the front of bytes, 0 if it is not
\* all there.
SizeLength(bytes) ==
    IF Policy = "varint" THEN VarintEnd(bytes)
    ELSE IF Len(bytes) < MaxPrefix THEN 0 ELSE MaxPrefix

\* res after n turns of the loops, each byte shifted to its place.
VarintRead(bytes) ==
    LET after[n \in 0..Len(bytes)] ==
            IF n = 0 THEN 0
            ELSE after[n - 1] + (bytes[n] % Base) * TwoTo[Shift * (n - 1)]
    IN  after

FixintRead(bytes) ==
    LET after[n \in 0..MaxPrefix] ==
            IF n = 0 THEN 0
            ELSE after[n - 1] + bytes[n] * TwoTo[(Shift + 1) * (MaxPrefix - n)]
    IN  after

VarintUnpack(bytes) == VarintRead(bytes)[VarintEnd(bytes)] % TwoTo[Bits]
FixintUnpack(bytes) == FixintRead(bytes)[MaxPrefix] % TwoTo[Bits]

\* The sizes unpack may return for a complete prefix: a byte beyond max_length is
\* shifted by the width of the type or more, which has no defined result.
Unpacked(bytes) ==
    IF SizeLength(bytes) > MaxPrefix THEN Sizes
    ELSE {IF Policy = "varint" THEN VarintUnpack(bytes) ELSE FixintUnpack(bytes)}

\* What insert_size_prefix returns for a message: packed_length bytes of prefix and
\* the message.  The byte that pack writes for a varint of 0 lies behind the slice
\* that is returned, which is empty, and is not part of the frame.
Frame(message) ==
    SubSeq(Pack(Len(message)), 1, PackedLength(Len(message))) \o message

Frames(messages) ==
    LET upto[n \in 0..Len(messages)] ==
            IF n = 0 THEN <<>> ELSE upto[n - 1] \o Frame(messages[n])
    IN  upto[Len(messages)]
=============================================================================
