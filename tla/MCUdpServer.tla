---------------------------- MODULE MCUdpServer ----------------------------
(* Two peers whose datagrams alternate, so that a late answer for one meets   *)
(* the address of the other, and the first peer comes back after its close.   *)
EXTENDS UdpServer

CONSTANTS p1, p2

MCEndpoints == {p1, p2}
MCTraffic   == <<p1, p2, p1>>
=============================================================================
