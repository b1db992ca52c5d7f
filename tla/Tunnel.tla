------------------------------- MODULE Tunnel -------------------------------
(***************************************************************************)
(* The tunnel of src/tst: a server program and its client programs, each     *)
(* with a tun/tap device.  What the server reads from its device it sends to *)
(* every client; what a client reads from its own it sends to the server;    *)
(* what comes over a connection is written to the device.  Each program runs *)
(* its io_service in one thread, so a handler is a step.                     *)
(*                                                                           *)
(* The transports and the framing are taken at what StreamTransport and      *)
(* MessageFraming show of them: messages arrive whole and in order, up to    *)
(* the loss of the connection.  Neither program closes one on its own, so    *)
(* the only end of a connection is its loss, noticed by a read or a write.   *)
(***************************************************************************)
EXTENDS PointIface, SequencesExt, FiniteSets

CONSTANTS
    Server,         \* the one point that is the server's; the others are clients'
    Reads,          \* bound on the packets read from each device
    MaxFailures     \* bound on devices, accepts and connections that fail

ASSUME BoundsAssumption ==
    /\ Server \in Points
    /\ Reads \in [Points -> Nat]
    /\ MaxFailures \in Nat

\* Each client program is run once.
Clients == Points \ {Server}

\* The packet <<d, i>> is the i-th read from the device d.
Packets == UNION {{d} \X (1..Reads[d]) : d \in Points}

VARIABLES
    reading,    \* devices with a read pending
    taken,      \* how many packets were read from each device
    link,       \* the connection of each client
    up, down,   \* messages on their way to the server, to the client
    outbox,     \* write queue of the server's transport to each client
    backlog,    \* connections the server has not accepted yet
    accepting,  \* is an async_accept pending?
    clients,    \* all_clients
    closing,    \* clients whose transport was told to close
    running,    \* the programs that run
    failures,   \* how much has failed
    joined      \* history: packets read from the server's device before the accept

tunnelVars == <<reading, taken, link, up, down, outbox, backlog, accepting,
                clients, closing, running, failures, joined>>
vars == <<pointVars, tunnelVars>>

Data(p) == [tag |-> "TAG_DATA", packet |-> p]
Command == [tag |-> "TAG_COMMAND"]

Init ==
    /\ PointInit
    /\ reading = {Server}
    /\ taken = [d \in Points |-> 0]
    /\ link = [c \in Clients |-> "none"]
    /\ up = [c \in Clients |-> <<>>] /\ down = [c \in Clients |-> <<>>]
    /\ outbox = [c \in Clients |-> <<>>]
    /\ backlog = <<>>
    /\ accepting = TRUE
    /\ clients = {}
    /\ closing = {}
    /\ running = Points
    /\ failures = 0
    /\ joined = [c \in Clients |-> 0]

Fails == failures < MaxFailures /\ failures' = failures + 1

----------------------------------------------------------------------------
(* Client programs.                                                          *)

\* on_connect: the device is read from now on, and a first message goes out.
OnConnect(c) ==
    /\ c \in running /\ Server \in running
    /\ link[c] = "none"
    /\ link' = [link EXCEPT ![c] = "open"]
    /\ backlog' = Append(backlog, c)
    /\ reading' = reading \cup {c}
    /\ up' = [up EXCEPT ![c] = <<Command>>]
    /\ UNCHANGED <<pointVars, taken, down, outbox, accepting, clients, closing,
                   running, failures, joined>>

\* on_connect_error: a line is printed; nothing is left for the io_service to do.
OnConnectError(c) ==
    /\ c \in running
    /\ link[c] = "none"
    /\ Fails
    /\ link' = [link EXCEPT ![c] = "lost"]
    /\ running' = running \ {c}
    /\ UNCHANGED <<pointVars, reading, taken, up, down, outbox, backlog,
                   accepting, clients, closing, joined>>

\* tuntap_reader::on_read, and the next read of the device.  What is written to
\* a broken connection fails.
ClientDeviceRead(c) ==
    /\ c \in running \cap reading
    /\ taken[c] < Reads[c]
    /\ taken' = [taken EXCEPT ![c] = @ + 1]
    /\ up' = [up EXCEPT ![c] = IF link[c] = "open"
                                 THEN Append(@, Data(<<c, taken[c] + 1>>)) ELSE @]
    /\ UNCHANGED <<pointVars, reading, link, down, outbox, backlog, accepting,
                   clients, closing, running, failures, joined>>

\* tdelegate::on_message; on_need_read reads on.
ClientOnMessage(c) ==
    /\ c \in running
    /\ down[c] # <<>>
    /\ down' = [down EXCEPT ![c] = Tail(@)]
    /\ PostWrite(c, Head(down[c]).packet)
    /\ UNCHANGED <<reading, taken, link, up, outbox, backlog, accepting, clients,
                   closing, running, failures, joined>>

\* tdelegate::on_read_error, on_write_error: the program stops.
ClientError(c) ==
    /\ c \in running
    /\ link[c] = "lost"
    /\ running' = running \ {c}
    /\ UNCHANGED <<pointVars, reading, taken, link, up, down, outbox, backlog,
                   accepting, clients, closing, failures, joined>>

----------------------------------------------------------------------------
(* The server program.                                                       *)

Register(c) == clients \cup {c}

\* on_accept_client: the client is registered, read from, and the next awaited.
OnAcceptClient ==
    /\ Server \in running /\ accepting /\ backlog # <<>>
    /\ LET c == Head(backlog) IN
         /\ clients' = Register(c)
         /\ joined' = [joined EXCEPT ![c] = taken[Server]]
    /\ backlog' = Tail(backlog)
    /\ UNCHANGED <<pointVars, reading, taken, link, up, down, outbox, accepting,
                   closing, running, failures>>

\* handle_accept: the peer is gone already, remote_endpoint() throws, and nobody
\* between there and the end of the program catches.
AcceptThrows ==
    /\ Server \in running /\ accepting /\ backlog # <<>>
    /\ link[Head(backlog)] = "lost"
    /\ running' = running \ {Server}
    /\ link' = [c \in Clients |-> IF link[c] = "open" THEN "lost" ELSE link[c]]
    /\ UNCHANGED <<pointVars, reading, taken, up, down, outbox, backlog,
                   accepting, clients, closing, failures, joined>>

\* on_accept_error: no other accept is started.
OnAcceptError ==
    /\ Server \in running /\ accepting
    /\ Fails
    /\ accepting' = FALSE
    /\ UNCHANGED <<pointVars, reading, taken, link, up, down, outbox, backlog,
                   clients, closing, running, joined>>

\* Mutant: only the client registered last is written to.
MutantWriteToClients(p) ==
    [c \in Clients |-> IF c \in clients /\ \A o \in clients : joined[o] <= joined[c]
                       THEN Append(outbox[c], Data(p)) ELSE outbox[c]]

\* Mutant: a packet overtakes those that wait.
MutantOvertakes(p) ==
    [c \in Clients |-> IF c \in clients THEN <<Data(p)>> \o outbox[c] ELSE outbox[c]]

\* write_to_clients
WriteToClients(p) ==
    [c \in Clients |-> IF c \in clients THEN Append(outbox[c], Data(p)) ELSE outbox[c]]

\* tuntap_reader::on_read, and the next read of the device.
ServerDeviceRead ==
    /\ Server \in running \cap reading
    /\ taken[Server] < Reads[Server]
    /\ taken' = [taken EXCEPT ![Server] = @ + 1]
    /\ outbox' = WriteToClients(<<Server, taken[Server] + 1>>)
    /\ UNCHANGED <<pointVars, reading, link, up, down, backlog, accepting,
                   clients, closing, running, failures, joined>>

\* on_read_error: a line is printed, and the device is read no more.
DeviceReadError(d) ==
    /\ d \in running \cap reading
    /\ Fails
    /\ reading' = reading \ {d}
    /\ UNCHANGED <<pointVars, taken, link, up, down, outbox, backlog, accepting,
                   clients, closing, running, joined>>

WriteToDevice(p) == PostWrite(Server, p)

\* client_delegate::on_message writes data to the device; on_need_read reads on.
ServerOnMessage(c) ==
    /\ Server \in running /\ c \in clients
    /\ up[c] # <<>>
    /\ up' = [up EXCEPT ![c] = Tail(@)]
    /\ IF Head(up[c]).tag = "TAG_DATA"
         THEN WriteToDevice(Head(up[c]).packet) ELSE UNCHANGED pointVars
    /\ UNCHANGED <<reading, taken, link, down, outbox, backlog, accepting, clients,
                   closing, running, failures, joined>>

\* Mutant: the error is printed only.
MutantServerReadError(c) == FALSE

\* client_delegate::on_read_error
ServerReadError(c) ==
    /\ Server \in running /\ c \in clients \ closing
    /\ link[c] = "lost" /\ up[c] = <<>>
    /\ closing' = closing \cup {c}
    /\ UNCHANGED <<pointVars, reading, taken, link, up, down, outbox, backlog,
                   accepting, clients, running, failures, joined>>

\* client_delegate::on_write_error; the transport goes on with its queue.
ServerWriteError(c) ==
    /\ Server \in running /\ c \in clients
    /\ link[c] = "lost" /\ outbox[c] # <<>>
    /\ outbox' = [outbox EXCEPT ![c] = Tail(@)]
    /\ closing' = closing \cup {c}
    /\ UNCHANGED <<pointVars, reading, taken, link, up, down, backlog,
                   accepting, clients, running, failures, joined>>

\* The transport closes: on_close, remove_client.  Its delegate is gone with it.
OnClose(c) ==
    /\ Server \in running /\ c \in clients \cap closing
    /\ clients' = clients \ {c}
    /\ UNCHANGED <<pointVars, reading, taken, link, up, down, outbox, backlog,
                   accepting, closing, running, failures, joined>>

\* A write was in flight at the close: its handler, which keeps the transport,
\* calls the delegate that was freed.  Either nothing comes of it, or the end.
StaleHandler(c) ==
    /\ Server \in running /\ c \in closing \ clients
    /\ outbox[c] # <<>>
    /\ outbox' = [outbox EXCEPT ![c] = <<>>]
    /\ \/ UNCHANGED <<running, link>>
       \/ /\ running' = running \ {Server}
          /\ link' = [o \in Clients |-> IF link[o] = "open" THEN "lost" ELSE link[o]]
    /\ UNCHANGED <<pointVars, reading, taken, up, down, backlog, accepting,
                   clients, closing, failures, joined>>

----------------------------------------------------------------------------
(* Devices and network.                                                      *)

DeviceStep(d) == d \in running /\ PointStep(d) /\ UNCHANGED tunnelVars

DeviceWriteError(d) ==
    /\ d \in running
    /\ Fails
    /\ WriteError(d)
    /\ UNCHANGED <<reading, taken, link, up, down, outbox, backlog, accepting,
                   clients, closing, running, joined>>

\* The server's transport sends a message to its client.
Send(c) ==
    /\ Server \in running /\ c \in clients /\ link[c] = "open"
    /\ outbox[c] # <<>>
    /\ outbox' = [outbox EXCEPT ![c] = Tail(@)]
    /\ down' = [down EXCEPT ![c] = Append(@, Head(outbox[c]))]
    /\ UNCHANGED <<pointVars, reading, taken, link, up, backlog, accepting,
                   clients, closing, running, failures, joined>>

\* The connection breaks; some of what was on its way still arrives.
Lose(c) ==
    /\ link[c] = "open"
    /\ Fails
    /\ link' = [link EXCEPT ![c] = "lost"]
    /\ \E i \in 0..Len(up[c]), j \in 0..Len(down[c]) :
          /\ up' = [up EXCEPT ![c] = SubSeq(@, 1, i)]
          /\ down' = [down EXCEPT ![c] = SubSeq(@, 1, j)]
    /\ UNCHANGED <<pointVars, reading, taken, outbox, backlog, accepting,
                   clients, closing, running, joined>>

ClientStep(c) == OnConnect(c) \/ ClientDeviceRead(c) \/ ClientOnMessage(c) \/ ClientError(c)

ServerStep(c) ==
    \/ ServerOnMessage(c) \/ ServerReadError(c) \/ ServerWriteError(c)
    \/ OnClose(c) \/ StaleHandler(c) \/ Send(c)

Next ==
    \/ \E c \in Clients : ClientStep(c) \/ OnConnectError(c) \/ ServerStep(c) \/ Lose(c)
    \/ OnAcceptClient \/ AcceptThrows \/ OnAcceptError \/ ServerDeviceRead
    \/ \E d \in Points : DeviceReadError(d) \/ DeviceStep(d) \/ DeviceWriteError(d)

Spec == Init /\ [][Next]_vars

\* What goes on without anything new from outside: messages, handlers, devices.
Work ==
    \/ OnAcceptClient
    \/ \E c \in Clients : ClientOnMessage(c) \/ ClientError(c) \/ ServerStep(c)
    \/ \E d \in Points : DeviceStep(d)

\* There is no halt while there is work for one of the io_services, the network
\* or a device.  Work comes to an end when nothing new is read.
FairSpec == Spec /\ WF_vars(Work)

----------------------------------------------------------------------------
(* Correctness.                                                              *)

Message == {Data(p) : p \in Packets} \cup {Command}

\* Type invariant.
TypeOK ==
    /\ \A d \in Points : total[d] \in NoOp..(Length[d] - 1) /\ bytes[d] \in NoOp..Length[d]
    /\ \A d \in Points : given[d] \in Seq(Packets) /\ queue[d] \in Seq(Packets)
    /\ reading \in SUBSET Points
    /\ taken \in [Points -> Nat]
    /\ link \in [Clients -> {"none", "open", "lost"}]
    /\ \A c \in Clients : /\ up[c] \in Seq(Message) /\ down[c] \in Seq(Message)
                          /\ outbox[c] \in Seq(Message)
    /\ backlog \in Seq(Clients)
    /\ accepting \in BOOLEAN
    /\ clients \in SUBSET Clients /\ closing \in SUBSET Clients
    /\ running \in SUBSET Points
    /\ failures \in 0..MaxFailures

\* What each device is given to write is, of every other device, what was read
\* there, in order and without a gap: to a client from its accept on, to the
\* server from the client's start.  What one client sends comes to no other, and
\* nothing comes back to the server.
PacketsInOrder ==
    /\ \A c \in Clients : \A i \in 1..Len(given[c]) :
          given[c][i] = <<Server, joined[c] + i>>
    /\ \A i \in 1..Len(given[Server]) :
          LET p == given[Server][i]
              before == {given[Server][j] : j \in 1..(i - 1)} IN
          /\ p[1] \in Clients
          /\ p[2] > 1 => <<p[1], p[2] - 1>> \in before
          /\ \A q \in before : q[1] = p[1] => q[2] < p[2]

\* A client is served from its accept to the loss of its connection: it is
\* forgotten only then, and it is never both connected, accepted and unknown.
ServedWhileConnected ==
    /\ closing \subseteq {c \in Clients : link[c] = "lost"}
    /\ \A c \in Clients :
         link[c] = "open" => c \in clients \/ c \in Range(backlog)

\* The server's transports and what is on its way hold all that a client is
\* still due, while its connection stands.
NothingSkipped ==
    \A c \in clients : link[c] = "open" =>
        taken[Server] - joined[c] = Len(given[c]) + Len(down[c]) + Len(outbox[c])

\* The server gives each client its due, in order, for as long as it is there.
EachGetsItsPackets == TypeOK /\ PacketsInOrder /\ ServedWhileConnected /\ NothingSkipped

\* Every point_iface is a FIFO channel of packets.
Channel(d) == INSTANCE WriteChannel WITH
    Msgs <- Packets, Size <- [p \in Packets |-> Length[d]],
    accepted <- given[d], reported <- settled[d], wire <- out[d],
    sent <- IF total[d] = NoOp THEN 0
            ELSE IF bytes[d] = NoOp THEN total[d] ELSE total[d] + bytes[d],
    open <- TRUE, grace <- FALSE
DevicesAreChannels ==
    /\ \A d \in Points : Channel(d)!Init
    /\ [][\A d \in Points :
            UNCHANGED Channel(d)!channelVars \/ Channel(d)!Next]_pointVars

\* A packet read by the server while a client is served reaches the client's
\* device, unless the connection breaks or a program ends.
Delivered(c) == Len(given[c]) + joined[c] = taken[Server]
BroadcastArrives ==
    \A c \in Clients :
       c \in clients ~> (Delivered(c) \/ link[c] = "lost"
                         \/ ~({c, Server} \subseteq running))

\* A connection that broke is noticed, and its client forgotten, for as long as
\* the server runs.
LostAreForgotten ==
    \A c \in Clients :
       (c \in clients /\ link[c] = "lost") ~> (c \notin clients \/ Server \notin running)
=============================================================================
