-------------------------- MODULE MCBinaryProtocol --------------------------
(* Two bits of a size to a byte of three bits, and sizes of five bits: a varint *)
(* has up to three bytes.  An empty body, whose checksum looks like a prefix    *)
(* with more to come; one whose prefix takes two bytes; one that is damaged and *)
(* one that is too long.                                                        *)
EXTENDS BinaryProtocol

MCMessages == {<<7>>, <<0, 4, 5, 0, 0>>, <<7, 7>>, <<1, 1, 1, 1, 1, 1>>}

\* A prefix that ends too late, or not at all while only its first bytes are there.
MCGarbage == <<5, 5, 5, 5, 1>>

\* The prefixes by themselves: pack and unpack are inverse for every size, and
\* packed_length tells what pack writes, but for a varint of 0.
ASSUME RoundTrip ==
    \A size \in Sizes :
        /\ Unpacked(Pack(size)) = {size}
        /\ SizeLength(Pack(size)) = Len(Pack(size))
        /\ size > 0 => PackedLength(size) = Len(Pack(size))
=============================================================================
