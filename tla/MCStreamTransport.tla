------------------------- MODULE MCStreamTransport -------------------------
(* Values for the constants of StreamTransport: a message that the socket can *)
(* split twice, one it can not split, and an empty one.                       *)
EXTENDS StreamTransport

CONSTANTS long, short, empty

MCMsgs == {long, short, empty}
MCSize == [m \in MCMsgs |-> IF m = long THEN 3 ELSE IF m = short THEN 1 ELSE 0]
=============================================================================
