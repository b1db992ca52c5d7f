----------------------------- MODULE PointIface -----------------------------
(***************************************************************************)
(* The writing side of async_reader::point_iface, through which the tunnel   *)
(* writes to its tun/tap devices: a strand, a queue and one async_write_some *)
(* at a time.  The tunnel has several of them, one per device; the variables *)
(* are functions of the device.                                              *)
(*                                                                           *)
(* It is the older brother of async::stream: write_handler goes on with the  *)
(* queue whatever became of the last packet, and asks for no active_.        *)
(***************************************************************************)
EXTENDS Integers, Sequences

CONSTANTS
    Points,     \* the devices
    Length      \* the bytes of a packet, for each device
ASSUME LengthAssumption == Length \in [Points -> Nat \ {0}]

VARIABLES
    posted,     \* write_impl tasks on the strand
    queue,      \* write_queue_
    total,      \* of the async_write_some started: what went before it
    bytes,      \* what the device took of it; NoOp while it has not answered
    given,      \* history: the packets of the write calls, in order
    settled,    \* history: their write_closures called, in order
    out         \* history: the bytes the device took, <<packet, number>>

pointVars == <<posted, queue, total, bytes, given, settled, out>>

NoOp == -1
InFlight(d) == total[d] # NoOp /\ bytes[d] = NoOp

PointInit ==
    /\ posted = [d \in Points |-> <<>>]
    /\ queue = [d \in Points |-> <<>>]
    /\ total = [d \in Points |-> NoOp]
    /\ bytes = [d \in Points |-> NoOp]
    /\ given = [d \in Points |-> <<>>]
    /\ settled = [d \in Points |-> <<>>]
    /\ out = [d \in Points |-> <<>>]

\* write, write_post_notify: the bytes are copied and write_impl is posted.
PostWrite(d, p) ==
    /\ posted' = [posted EXCEPT ![d] = Append(@, p)]
    /\ given' = [given EXCEPT ![d] = Append(@, p)]
    /\ UNCHANGED <<queue, total, bytes, settled, out>>

\* Mutant: every packet is started as it comes.
MutantWriteImpl(d) ==
    /\ posted[d] # <<>>
    /\ posted' = [posted EXCEPT ![d] = Tail(@)]
    /\ queue' = [queue EXCEPT ![d] = Append(@, Head(posted[d]))]
    /\ total' = [total EXCEPT ![d] = 0]
    /\ UNCHANGED <<bytes, given, settled, out>>

WriteImpl(d) ==
    /\ posted[d] # <<>>
    /\ posted' = [posted EXCEPT ![d] = Tail(@)]
    /\ queue' = [queue EXCEPT ![d] = Append(@, Head(posted[d]))]
    /\ total' = [total EXCEPT ![d] = IF queue[d] = <<>> THEN 0 ELSE @]
    /\ UNCHANGED <<bytes, given, settled, out>>

\* The front packet is reported and popped, and the next one started.
Settle(d, ok) ==
    /\ settled' = [settled EXCEPT ![d] = Append(@, [msg |-> Head(queue[d]), ok |-> ok])]
    /\ queue' = [queue EXCEPT ![d] = Tail(@)]
    /\ total' = [total EXCEPT ![d] = IF Len(queue[d]) > 1 THEN 0 ELSE NoOp]

\* The device takes n bytes more of the front packet.
Take(d, n) ==
    /\ InFlight(d)
    /\ total[d] + n <= Length[d]
    /\ out' = [out EXCEPT ![d] =
                  @ \o [k \in 1..n |-> <<Head(queue[d]), total[d] + k>>]]
    /\ bytes' = [bytes EXCEPT ![d] = n]
    /\ UNCHANGED <<posted, queue, total, given, settled>>

\* After a partial write, where the rest begins.
RestOf(d) == total[d] + bytes[d]

\* write_handler: the operation took all that was left, or it is continued.
WriteHandler(d) ==
    /\ bytes[d] # NoOp
    /\ IF total[d] + bytes[d] < Length[d]
         THEN total' = [total EXCEPT ![d] = RestOf(d)] /\ UNCHANGED <<queue, settled>>
         ELSE Settle(d, TRUE)
    /\ bytes' = [bytes EXCEPT ![d] = NoOp]
    /\ UNCHANGED <<posted, given, out>>

\* write_handler: the device refused.
WriteError(d) ==
    /\ InFlight(d)
    /\ Settle(d, FALSE)
    /\ UNCHANGED <<posted, bytes, given, out>>

PointStep(d) == WriteImpl(d) \/ WriteHandler(d) \/ \E n \in 1..Length[d] : Take(d, n)
=============================================================================
