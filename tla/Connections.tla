----------------------------- MODULE Connections -----------------------------
(***************************************************************************)
(* How a connection comes about: the connector of each client, and the       *)
(* acceptor with its listener at the server (tcp).  The user of the listener *)
(* starts and stops it from any thread, again too; the user of a connector   *)
(* connects, closes and drops it, and may connect again before the first     *)
(* answer.  Handlers run on the threads of an io_service, in any order.      *)
(***************************************************************************)
EXTENDS Integers, Sequences, SequencesExt, FiniteSets

CONSTANTS
    Connectors,
    MaxConnects,    \* bound on the connect() of a connector, for each of them
    MaxStarts,      \* bound on the start() of the listener
    MaxUpsets,      \* bound on stops, closes, drops and failures, together
    Backlog         \* of listen(); 5 in the code

ASSUME BoundsAssumption ==
    /\ MaxConnects \in [Connectors -> Nat]
    /\ {MaxStarts, MaxUpsets, Backlog} \subseteq Nat

\* <<k, i>>: the transport made for the i-th connect() of k.  <<k, 0>> is the one
\* made with the connector, which is never connected.
Attempts == UNION {{k} \X (1..MaxConnects[k]) : k \in Connectors}
Transports == Attempts \cup (Connectors \X {0})

VARIABLES
    listening,  \* acceptor_: "new", "open", "closing" (on_close is called), "closed"; "dead"
    pending,    \* async_accepts waiting
    accepted,   \* accepts that completed: the connection, or AcceptFailed
    rearm,      \* handlers between on_accept and the next start_accept
    starts, acceptErrors, upsets,   \* history: counts
    offered,    \* history: on_accept emitted, in order
    backlog,    \* connections the system has made and nobody accepted yet
    arrived,    \* history: all that were ever in the backlog, in order
    socket,     \* of each attempt: "idle", "connecting", "up", "dead"
    client,     \* client_ of each connector: the number of its attempt
    alive,      \* connectors held by their users
    taken,      \* transports whose user holds them and is their delegate
    replies,    \* connects that completed, <<attempt, ok>>
    answers,    \* history: on_connect and on_connect_error calls
    closing     \* close_impl tasks posted, by transport

serverVars == <<listening, pending, accepted, rearm, starts, acceptErrors, offered>>
netVars == <<backlog, arrived, socket, upsets>>
clientVars == <<client, alive, taken, replies, answers, closing>>
vars == <<serverVars, netVars, clientVars>>

AcceptFailed == <<"error">>

Upset == upsets < MaxUpsets /\ upsets' = upsets + 1

ListenerInit ==
    /\ listening = "new" /\ pending = 0 /\ accepted = <<>> /\ rearm = 0
    /\ starts = 0 /\ acceptErrors = 0 /\ offered = <<>>

ConnectorInit ==
    /\ client = [k \in Connectors |-> 0]
    /\ alive = Connectors
    /\ taken = {} /\ replies = {} /\ answers = {} /\ closing = {}

Init ==
    /\ ListenerInit /\ ConnectorInit
    /\ upsets = 0 /\ backlog = <<>> /\ arrived = <<>>
    /\ socket = [a \in Attempts |-> "idle"]

\* The sockets of some attempts are closed: a connect that waits is aborted.
Shut(gone) ==
    /\ socket' = [a \in Attempts |-> IF a \in gone /\ socket[a] # "idle"
                                       THEN "dead" ELSE socket[a]]
    /\ replies' = replies \cup {<<a, FALSE>> : a \in {g \in gone \cap Attempts : socket[g] = "connecting"}}

----------------------------------------------------------------------------
(* Listener and acceptor.                                                    *)

\* async_accept, which fails at once on an acceptor that is closed.
AsyncAccept(state) ==
    IF state \in {"open", "closing"}
      THEN pending' = pending + 1 /\ UNCHANGED accepted
      ELSE accepted' = Append(accepted, AcceptFailed) /\ UNCHANGED pending

\* open and bind, which listens.
OpenAndBind ==
    /\ listening \in {"new", "closed"}
    /\ listening' = "open"

\* impl::start, with the first start_accept.
Start ==
    /\ OpenAndBind
    /\ starts < MaxStarts
    /\ starts' = starts + 1
    /\ AsyncAccept("open")
    /\ UNCHANGED <<rearm, acceptErrors, offered, netVars, clientVars>>

\* impl::stop, acceptor close(): first on_close is emitted ...
Stop ==
    /\ listening = "open"
    /\ Upset
    /\ listening' = "closing"
    /\ UNCHANGED <<pending, accepted, rearm, starts, acceptErrors, offered, backlog,
                   arrived, socket, clientVars>>

\* Mutant: the acceptor is left open.
MutantCloseAcceptor ==
    /\ listening = "closing"
    /\ listening' = "closed"
    /\ UNCHANGED <<pending, accepted, rearm, starts, acceptErrors, offered, netVars, clientVars>>

\* ... then acceptor_.close() aborts the accepts and resets the backlog.
CloseAcceptor ==
    /\ listening = "closing"
    /\ listening' = "closed"
    /\ pending' = 0
    /\ accepted' = accepted \o [i \in 1..pending |-> AcceptFailed]
    /\ Shut(Range(backlog))
    /\ backlog' = <<>>
    /\ UNCHANGED <<rearm, starts, acceptErrors, offered, arrived, upsets,
                   client, alive, taken, answers, closing>>

\* handle_accept, accept_delegate::on_accept_client: on_accept is emitted.  Whoever
\* is called keeps the transport, or it is closed when the handler is left.
OnAcceptClient(i) ==
    /\ accepted[i] # AcceptFailed
    /\ offered' = Append(offered, accepted[i])
    /\ accepted' = RemoveAt(accepted, i)
    /\ rearm' = rearm + 1
    /\ \/ UNCHANGED <<socket, replies>>
       \/ Shut({accepted[i]})
    /\ UNCHANGED <<listening, pending, starts, acceptErrors, backlog, arrived, upsets,
                   client, alive, taken, answers, closing>>

\* Mutant: the next accept is started only by a listener that is still open.
MutantStartAccept ==
    /\ rearm > 0
    /\ rearm' = rearm - 1
    /\ IF listening = "open" THEN AsyncAccept(listening) ELSE UNCHANGED <<pending, accepted>>
    /\ UNCHANGED <<listening, starts, acceptErrors, offered, netVars, clientVars>>

\* The rest of on_accept_client: the next accept.
StartAccept ==
    /\ rearm > 0
    /\ rearm' = rearm - 1
    /\ AsyncAccept(listening)
    /\ UNCHANGED <<listening, starts, acceptErrors, offered, netVars, clientVars>>

\* handle_accept, accept_delegate::on_accept_error: emitted, and no accept follows.
OnAcceptError(i) ==
    /\ accepted[i] = AcceptFailed
    /\ acceptErrors' = acceptErrors + 1
    /\ accepted' = RemoveAt(accepted, i)
    /\ UNCHANGED <<listening, pending, rearm, starts, offered, netVars, clientVars>>

\* handle_accept: the peer has gone, remote_endpoint() throws, nobody catches,
\* and the server's program ends.
AcceptThrows(i) ==
    /\ accepted[i] # AcceptFailed /\ socket[accepted[i]] = "dead"
    /\ listening' = "dead"
    /\ pending' = 0 /\ accepted' = <<>> /\ rearm' = 0 /\ backlog' = <<>>
    /\ Shut({a \in Attempts : socket[a] = "up"})
    /\ UNCHANGED <<starts, acceptErrors, offered, arrived, upsets,
                   client, alive, taken, answers, closing>>

\* The user drops the listener: its acceptor goes with it, and handlers find
\* nobody to report to.
DropListener ==
    /\ listening \in {"open", "closed"}
    /\ rearm = 0
    /\ Upset
    /\ listening' = "dead"
    /\ pending' = 0 /\ accepted' = <<>> /\ backlog' = <<>>
    /\ Shut((Range(backlog) \cup Range(accepted)) \cap Attempts)
    /\ UNCHANGED <<rearm, starts, acceptErrors, offered, arrived,
                   client, alive, taken, answers, closing>>

----------------------------------------------------------------------------
(* Connector.                                                                *)

Current(k) == <<k, client[k]>>

\* connect: a new transport replaces client_.  The one before is closed with it,
\* unless its user holds it.
Connect(k) ==
    /\ k \in alive /\ client[k] < MaxConnects[k]
    /\ client' = [client EXCEPT ![k] = @ + 1]
    /\ LET next == <<k, client[k] + 1>>
           last == {Current(k)} \cap (Attempts \ taken)
       IN  /\ socket' = [a \in Attempts |-> IF a = next THEN "connecting"
                                              ELSE IF a \in last THEN "dead" ELSE socket[a]]
           /\ replies' = replies \cup
                  {<<a, FALSE>> : a \in {l \in last : socket[l] = "connecting"}}
    /\ UNCHANGED <<serverVars, backlog, arrived, upsets, alive, taken, answers, closing>>

\* Mutant: one connection is reported, and no more.
MutantReport(k) == k \in alive /\ \A t \in taken : t[1] # k

\* Mutant: nothing is reported while a close is under way.
MutantReportOpen(k) == k \in alive /\ \A t \in closing : t[1] # k

\* handle_connect reports only while inst.lock() succeeds.
Report(k) == k \in alive

Told(k) == Current(k)

\* handle_connect: client_ is reported, whichever transport completed.  A user who
\* is told of a transport keeps it and becomes its delegate.
HandleConnect(a, ok) ==
    /\ <<a, ok>> \in replies
    /\ replies' = replies \ {<<a, ok>>}
    /\ LET told == Told(a[1]) IN
         IF Report(a[1])
           THEN /\ answers' = answers \cup {[of |-> a, told |-> told, ok |-> ok]}
                /\ taken' = IF ok THEN taken \cup {told} ELSE taken
           ELSE UNCHANGED <<answers, taken>>
    /\ UNCHANGED <<serverVars, netVars, client, alive, closing>>

\* close: on_close, then the transport is asked to close.
Close(k) ==
    /\ k \in alive
    /\ Upset
    /\ closing' = closing \cup {Current(k)}
    /\ UNCHANGED <<serverVars, backlog, arrived, socket, client, alive, taken,
                   replies, answers>>

\* The transport's close_impl, if it is still there.  Before on_connect nobody has
\* given it a delegate, and delegate_ is not initialised: whatever it holds is
\* called.  That ends the program, or nothing comes of it.
CloseImpl(a) ==
    /\ a \in closing
    /\ closing' = closing \ {a}
    /\ IF a \in taken \/ (a[1] \in alive /\ a = Current(a[1]))
         THEN \/ Shut({a}) /\ UNCHANGED <<alive, taken>>
              \/ /\ a \notin taken
                 /\ alive' = alive \ {a[1]}
                 /\ taken' = {t \in taken : t[1] # a[1]}
                 /\ Shut({t \in Attempts : t[1] = a[1]})
         ELSE UNCHANGED <<socket, replies, alive, taken>>
    /\ UNCHANGED <<serverVars, backlog, arrived, upsets, client, answers>>

\* The user drops the connector, and client_ goes with it.
DropConnector(k) ==
    /\ k \in alive
    /\ Upset
    /\ alive' = alive \ {k}
    /\ Shut({Current(k)} \cap (Attempts \ taken))
    /\ UNCHANGED <<serverVars, backlog, arrived, client, taken, answers, closing>>

----------------------------------------------------------------------------
(* The system's side of it.                                                  *)

Establish(a) ==
    /\ socket[a] = "connecting"
    /\ listening \in {"open", "closing"} /\ Len(backlog) < Backlog
    /\ socket' = [socket EXCEPT ![a] = "up"]
    /\ backlog' = Append(backlog, a) /\ arrived' = Append(arrived, a)
    /\ replies' = replies \cup {<<a, TRUE>>}
    /\ UNCHANGED <<serverVars, upsets, client, alive, taken, answers, closing>>

\* Nobody listens, or the backlog stays full.
Refuse(a) ==
    /\ socket[a] = "connecting"
    /\ ~(listening \in {"open", "closing"} /\ Len(backlog) < Backlog)
    /\ Shut({a})
    /\ replies' = replies \cup {<<a, FALSE>>}
    /\ UNCHANGED <<serverVars, backlog, arrived, upsets, client, alive, taken, answers, closing>>

\* async_accept completes.
Accept ==
    /\ pending > 0 /\ backlog # <<>>
    /\ pending' = pending - 1
    /\ accepted' = Append(accepted, Head(backlog))
    /\ backlog' = Tail(backlog)
    /\ UNCHANGED <<listening, rearm, starts, acceptErrors, offered, arrived, socket,
                   upsets, clientVars>>

\* An accept fails by itself: no descriptors are left.
AcceptFails ==
    /\ pending > 0
    /\ pending' = pending - 1
    /\ accepted' = Append(accepted, AcceptFailed)
    /\ Upset
    /\ UNCHANGED <<listening, rearm, starts, acceptErrors, offered, backlog, arrived,
                   socket, clientVars>>

Server ==
    \/ CloseAcceptor \/ StartAccept \/ Accept
    \/ \E i \in 1..Len(accepted) : OnAcceptClient(i) \/ OnAcceptError(i)

Work ==
    \/ Server
    \/ \E a \in Attempts : Establish(a) \/ Refuse(a)
    \/ \E t \in Transports : CloseImpl(t)
    \/ \E a \in Attempts, ok \in BOOLEAN : HandleConnect(a, ok)

Next ==
    \/ Work
    \/ Start \/ Stop \/ DropListener \/ AcceptFails
    \/ \E i \in 1..Len(accepted) : AcceptThrows(i)
    \/ \E k \in Connectors : Connect(k) \/ Close(k) \/ DropConnector(k)

Spec == Init /\ [][Next]_vars

\* Handlers that are ready run, and the network answers, one way or another; the
\* users need not do anything more.  Each piece of work is done once, so that it
\* is enough not to halt while there is some.
FairSpec == Spec /\ WF_vars(Work)

----------------------------------------------------------------------------
(* Correctness.                                                              *)

\* Type invariant.
TypeOK ==
    /\ listening \in {"new", "open", "closing", "closed", "dead"}
    /\ pending \in Nat /\ rearm \in Nat
    /\ accepted \in Seq(Attempts \cup {AcceptFailed})
    /\ offered \in Seq(Attempts) /\ backlog \in Seq(Attempts)
    /\ socket \in [Attempts -> {"idle", "connecting", "up", "dead"}]
    /\ \A k \in Connectors : client[k] \in 0..MaxConnects[k]
    /\ alive \subseteq Connectors
    /\ taken \subseteq Attempts /\ closing \subseteq Transports
    /\ replies \subseteq Attempts \X BOOLEAN

\* Every start of the listener is one chain of accepts, at any time in one place,
\* and each chain ends with one on_accept_error: after stop() too, and when the
\* listener was stopped and started again in the middle of an on_accept.
ChainsConserved ==
    listening # "dead" => starts = pending + Len(accepted) + rearm + acceptErrors

\* A listener is told of each connection once, and of those it never stopped
\* between in the order in which they came.
OfferedInOrder ==
    /\ \A i, j \in 1..Len(offered) : offered[i] = offered[j] => i = j
    /\ starts <= 1 => IsPrefix(offered, arrived)

\* The listener's side: no accept is lost or doubled, no connection offered twice.
ListenerConsistent == TypeOK /\ ChainsConserved /\ OfferedInOrder

\* What a client was told is connected, and was not closed since, is known to the
\* server, or will be: it waits in the backlog or for its handler, or was offered.
BothEndsAgree ==
    \A a \in Attempts : socket[a] = "up" =>
        a \in Range(backlog) \cup Range(accepted) \cup Range(offered)

\* Each connect() is answered once at most, also when it is aborted by a close, by
\* the next connect() or by both.
AnsweredOnce ==
    /\ \A r \in replies : \A a \in answers : a.of # r[1]
    /\ \A r, q \in replies : r[1] = q[1] => r = q

\* When nothing is under way any more, a connector whose transport is connected
\* has told its user of that transport, also when it was reported by the handler of
\* an earlier connect() and the earlier one was aborted.
Settled(k) ==
    client[k] > 0 /\ socket[Current(k)] = "up" /\ ~ \E r \in replies : r[1][1] = k
CurrentIsTold ==
    \A k \in alive :
        Settled(k) => \E r \in answers : r.told = Current(k) /\ r.ok

\* The connector's side: answered once, for the transport it has, which the server
\* has as well.
ConnectorConsistent == BothEndsAgree /\ AnsweredOnce /\ CurrentIsTold

\* While its user holds the connector, each connect() is answered.
ConnectAnswered ==
    \A a \in Attempts :
        socket[a] = "connecting" ~> (a[1] \notin alive \/ \E r \in answers : r.of = a)

\* A listener that is neither stopped nor fails is told of each connection.
ConnectionOffered ==
    \A a \in Attempts :
        a \in Range(backlog) ~> (a \in Range(offered) \/ listening \in {"closed", "dead"}
                                 \/ acceptErrors > 0 \/ AcceptFailed \in Range(accepted))

\* A listener that is stopped for good becomes silent.
StopSettles ==
    []<>(listening \in {"closed", "dead"} => pending = 0 /\ accepted = <<>> /\ rearm = 0)

\* A listener that goes on offers every connection, one that is stopped ends.
ListenerSettles == ConnectionOffered /\ StopSettles
=============================================================================
