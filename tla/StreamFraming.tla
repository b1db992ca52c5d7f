---------------------------- MODULE StreamFraming ----------------------------
(***************************************************************************)
(* delegates::stream: the delegate that hands the bytes of a message on as   *)
(* they come, instead of collecting them.  Its variables stand beside those  *)
(* of the message delegate, so that both can be given the same pieces.  buff *)
(* is what on_data has not looked at yet, each turn of its loop a step.      *)
(***************************************************************************)
EXTENDS MessageFraming

VARIABLES
    buff,       \* the rest of the piece in on_data
    tmp,        \* tmp_: the beginning of a prefix
    cursor,     \* cursor_: bytes the stream still has to come
    streams     \* history: begun streams, their bytes so far, and whether they ended

streamVars == <<buff, tmp, cursor, streams>>

StreamInit == buff = <<>> /\ tmp = <<>> /\ cursor = 0 /\ streams = <<>>

Feed(bytes) == buff' = bytes /\ UNCHANGED <<tmp, cursor, streams>>

Drop(bytes, n) == SubSeq(bytes, n + 1, Len(bytes))

Ends == cursor <= Len(buff)

\* The bytes of the piece that belong to the stream.
Part == Min({cursor, Len(buff)})

UpdateCursor ==
    /\ buff # <<>> /\ cursor > 0
    /\ LET n == Part IN
         /\ streams' = [streams EXCEPT ![Len(streams)] =
                          [part |-> @.part \o SubSeq(buff, 1, n), ended |-> Ends]]
         /\ buff' = Drop(buff, n)
         /\ cursor' = cursor - n
    /\ UNCHANGED tmp

\* What start_new_stream looks at: no more bytes of the piece than a prefix has,
\* and one.
Looked == SubSeq(buff, 1, Min({Len(buff), MaxPrefix + 1}))
Prefix == tmp \o Looked

\* Mutant: the bytes of the prefix that came with an earlier piece are not counted.
MutantUsed == SizeLength(Prefix)

Used == SizeLength(Prefix) - Len(tmp)

\* A size that validate_length refuses ends on_data: the rest of the piece is left
\* out, and the next piece is taken to begin where this one did.
StartNewStream ==
    /\ buff # <<>> /\ cursor = 0
    /\ SizeLength(Prefix) >= MinPrefix
    /\ \E size \in Unpacked(Prefix) :
         \/ /\ ~ValidLength(size)
            /\ buff' = <<>>
            /\ UNCHANGED <<tmp, cursor, streams>>
         \/ /\ ValidLength(size)
            /\ tmp' = <<>>
            /\ cursor' = size
            /\ streams' = Append(streams, [part |-> <<>>, ended |-> FALSE])
            /\ buff' = Drop(buff, Used)

\* There is no prefix yet, or on_error is called as there can be none.
KeepPrefix ==
    /\ buff # <<>> /\ cursor = 0
    /\ SizeLength(Prefix) < MinPrefix
    /\ tmp' = IF Len(Prefix) > MaxPrefix THEN tmp ELSE Prefix
    /\ buff' = <<>>
    /\ UNCHANGED <<cursor, streams>>

StreamStep == UpdateCursor \/ StartNewStream \/ KeepPrefix

----------------------------------------------------------------------------
\* tmp_ never holds more than a prefix, and cursor_ never wraps below 0.
StreamTypeOK ==
    /\ buff \in Seq(Byte)
    /\ tmp \in Seq(Byte) /\ Len(tmp) <= MaxPrefix
    /\ cursor \in Sizes
    /\ streams \in Seq([part : Seq(Byte), ended : BOOLEAN])

\* Given the same pieces, both delegates find the same messages, wherever the
\* pieces are cut: what the streams have ended is what on_message was given, and
\* the last stream has begun exactly when its prefix is there.  (Of frames only,
\* none of them longer than what is accepted.)
InStep ==
    (phase = "reading" /\ ~corrupt /\ \A i \in 1..Len(sent) : Len(sent[i]) <= MaxLength) =>
        LET bytes == [i \in 1..Len(streams) |-> streams[i].part]
            whole == SubSeq(bytes, 1, Len(delivered))
        IN  /\ whole = delivered
            /\ \A i \in 1..Len(streams) : streams[i].ended = (i <= Len(delivered))
            /\ Len(streams) > Len(delivered) =>
                  unpacked = SubSeq(Frame(sent[Len(streams)]), 1, Len(unpacked))
                  /\ IsSuffix(Last(bytes), unpacked)
=============================================================================
