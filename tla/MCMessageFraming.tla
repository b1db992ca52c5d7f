-------------------------- MODULE MCMessageFraming --------------------------
(* Two bits of a size to a byte of three bits, and sizes of five bits: a varint *)
(* has up to three bytes.  Messages of one byte, that looks like a prefix with  *)
(* more to come, of five bytes, and of none.                                    *)
EXTENDS MessageFraming

MCMessages == {<<7>>, <<0, 4, 5, 0, 7>>, <<>>}
MCNone == <<>>
=============================================================================
