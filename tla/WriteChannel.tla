---------------------------- MODULE WriteChannel ----------------------------
(***************************************************************************)
(* What the writing side of a stream transport promises, whatever the way    *)
(* its socket splits the messages: a FIFO channel.  Messages are accepted in *)
(* some order, sent byte by byte in that order, and each is reported once,   *)
(* in that order, with success only when all of it was sent.  When the       *)
(* channel shuts, at most the message being sent is still reported.          *)
(***************************************************************************)
EXTENDS Integers, Sequences

CONSTANTS Msgs, Size

VARIABLES
    accepted,   \* messages, in the order of the write calls
    reported,   \* the outcome of each message: its post_call
    wire,       \* the bytes sent, <<message, number of the byte>>
    sent,       \* how many bytes of the current message were sent
    open,       \* may bytes be sent?
    grace       \* shut, but the message in flight may still be reported

channelVars == <<accepted, reported, wire, sent, open, grace>>

Init ==
    /\ accepted = <<>>
    /\ reported = <<>>
    /\ wire = <<>>
    /\ sent = 0
    /\ open = TRUE
    /\ grace = FALSE

\* The message whose turn it is, when there is one.
HasCurrent == Len(reported) < Len(accepted)
Current    == accepted[Len(reported) + 1]

Accept(m) ==
    /\ \A i \in 1..Len(accepted) : accepted[i] # m
    /\ accepted' = Append(accepted, m)
    /\ UNCHANGED <<reported, wire, sent, open, grace>>

Transmit(n) ==
    /\ open /\ HasCurrent
    /\ sent + n <= Size[Current]
    /\ wire' = wire \o [k \in 1..n |-> <<Current, sent + k>>]
    /\ sent' = sent + n
    /\ UNCHANGED <<accepted, reported, open, grace>>

Report(ok) ==
    /\ open \/ grace
    /\ HasCurrent
    /\ ok => sent = Size[Current]
    /\ reported' = Append(reported, [msg |-> Current, ok |-> ok])
    /\ sent' = 0
    /\ grace' = FALSE
    /\ UNCHANGED <<accepted, wire, open>>

Shut ==
    /\ open
    /\ open' = FALSE
    /\ grace' \in {FALSE, HasCurrent}
    /\ UNCHANGED <<accepted, reported, wire, sent>>

\* The message in flight when the channel shut is given up without a report.
Forfeit ==
    /\ grace
    /\ grace' = FALSE
    /\ sent' = 0
    /\ UNCHANGED <<accepted, reported, wire, open>>

Next ==
    \/ \E m \in Msgs : Accept(m)
    \/ HasCurrent /\ \E n \in 1..Size[Current] : Transmit(n)
    \/ \E ok \in BOOLEAN : Report(ok)
    \/ Shut \/ Forfeit

Spec == Init /\ [][Next]_channelVars
=============================================================================
