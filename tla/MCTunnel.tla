------------------------------ MODULE MCTunnel ------------------------------
(* Two clients; the server's device is read twice, that of one client once,    *)
(* and the packets of that client's device are of two bytes.                   *)
EXTENDS Tunnel

CONSTANTS c1, c2

MCLength == [d \in {c1, c2, Server} |-> IF d = c1 THEN 2 ELSE 1]
MCReads == [d \in {c1, c2, Server} |-> CASE d = Server -> 2 [] d = c1 -> 1 [] d = c2 -> 0]
=============================================================================
