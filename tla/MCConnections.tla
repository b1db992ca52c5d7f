--------------------------- MODULE MCConnections ---------------------------
(* Two clients: one connects twice, the other once.                            *)
EXTENDS Connections

CONSTANTS k1, k2

MCMaxConnects == [k \in {k1, k2} |-> IF k = k1 THEN 2 ELSE 1]
=============================================================================
