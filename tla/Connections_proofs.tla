------------------------- MODULE Connections_proofs -------------------------
(***************************************************************************)
(* Proofs about Connections, for any number of clients, any backlog and any   *)
(* bounds: the server loses no connection and offers none twice, and each      *)
(* connect() is answered once, with a transport that the server has as well.  *)
(***************************************************************************)
EXTENDS Connections, TLAPS

(***************************************************************************)
(* The inductive invariant, of three parts.                                   *)
(***************************************************************************)

\* The types of the connector's variables and of the listener's, with those of the
\* histories; client_ is a function.
ConnectorTyped ==
    /\ socket \in [Attempts -> {"idle", "connecting", "up", "dead"}]
    /\ client \in [Connectors -> Nat]
    /\ \A k \in Connectors : client[k] <= MaxConnects[k]
    /\ alive \subseteq Connectors
    /\ taken \subseteq Attempts /\ closing \subseteq Transports
    /\ replies \subseteq Attempts \X BOOLEAN
    /\ answers \subseteq [of : Attempts, told : Transports, ok : BOOLEAN]

ListenerTyped ==
    /\ listening \in {"new", "open", "closing", "closed", "dead"}
    /\ pending \in Nat /\ rearm \in Nat
    /\ starts \in Nat /\ acceptErrors \in Nat
    /\ accepted \in Seq(Attempts \cup {AcceptFailed})
    /\ offered \in Seq(Attempts) /\ backlog \in Seq(Attempts)
    /\ arrived \in Seq(Attempts)

\* Of the connector.  An attempt beyond client_ was not made yet; one that is
\* answered, or about to be, is decided; and a transport that is connected while it
\* is the connector's own was reported or is going to be.
Decided == {a \in Attempts : socket[a] \in {"up", "dead"}}

Made == \A a \in Attempts : socket[a] # "idle" => a[2] <= client[a[1]]

RepliesAreDecided ==
    /\ \A r \in replies : r[1] \in Decided
    /\ \A r \in answers : r.of \in Decided

WillBeTold ==
    \A k \in alive :
        client[k] > 0 /\ socket[Current(k)] = "up" =>
            \/ <<Current(k), TRUE>> \in replies
            \/ \E r \in answers : r.told = Current(k) /\ r.ok

ConnectorInv == ConnectorTyped /\ Made /\ RepliesAreDecided /\ AnsweredOnce /\ WillBeTold

\* Of the listener.  A connection is once in one place, from the backlog on, and
\* of a listener that was started once, in the order of arrival.
Once(s) ==
    \A i, j \in 1..Len(s) : s[i] = s[j] /\ s[i] # AcceptFailed => i = j

Apart(s, t) ==
    \A i \in 1..Len(s), j \in 1..Len(t) : s[i] = t[j] => s[i] = AcceptFailed

InOnePlace ==
    /\ Once(offered) /\ Once(accepted) /\ Once(backlog)
    /\ Apart(offered, accepted) /\ Apart(offered, backlog) /\ Apart(accepted, backlog)

PlacesAreDecided ==
    /\ \A i \in 1..Len(offered) : offered[i] \in Decided
    /\ \A i \in 1..Len(accepted) : accepted[i] = AcceptFailed \/ accepted[i] \in Decided
    /\ \A i \in 1..Len(backlog) : backlog[i] \in Decided

\* A listener that is gone holds nothing, and one that does not listen no backlog.
HoldsNothing ==
    /\ listening = "dead" => pending = 0 /\ accepted = <<>> /\ rearm = 0
    /\ listening \notin {"open", "closing"} => backlog = <<>>
    /\ listening = "new" <=> starts = 0

\* How many have come out of the backlog: those offered, and the one in between.
Out == Len(offered) +
         (IF accepted # <<>> /\ accepted[1] # AcceptFailed THEN 1 ELSE 0)

InTurn ==
    starts <= 1 =>
        /\ Out <= Len(arrived)
        /\ \A i \in 1..Len(offered) : offered[i] = arrived[i]
        /\ Out > Len(offered) => accepted[1] = arrived[Out]
        /\ listening \in {"new", "open", "closing"} => Len(arrived) = Out + Len(backlog)
        /\ \A i \in 1..Len(backlog) : backlog[i] = arrived[Out + i]

ListenerInv ==
    /\ ListenerTyped /\ ChainsConserved /\ HoldsNothing
    /\ InOnePlace /\ PlacesAreDecided /\ InTurn

IInv == ConnectorInv /\ ListenerInv /\ BothEndsAgree

(***************************************************************************)
(* Attempts and transports.                                                   *)
(***************************************************************************)
LEMMA AnAttempt ==
    /\ \A a \in Attempts : /\ a[1] \in Connectors /\ a[2] \in Nat /\ a[2] > 0
                           /\ a[2] <= MaxConnects[a[1]] /\ a = <<a[1], a[2]>>
    /\ \A k \in Connectors, i \in Nat :
           0 < i /\ i <= MaxConnects[k] => <<k, i>> \in Attempts
    /\ \A k \in Connectors : MaxConnects[k] \in Nat
  BY BoundsAssumption DEF Attempts

\* No attempt is taken for an accept that failed.
LEMMA NotFailed == AcceptFailed \notin Attempts
  BY AnAttempt DEF AcceptFailed

\* The transport of a connector is an attempt as soon as it connects.
LEMMA CurrentTransport ==
    ASSUME ConnectorTyped, NEW k \in Connectors
    PROVE  /\ Current(k) \in Transports /\ Current(k)[1] = k
           /\ client[k] > 0 => Current(k) \in Attempts
           /\ client[k] \in Nat /\ client[k] <= MaxConnects[k]
  <1>1. client[k] \in Nat /\ client[k] <= MaxConnects[k]
    BY AnAttempt DEF ConnectorTyped
  <1>2. client[k] > 0 => Current(k) \in Attempts
    BY <1>1, AnAttempt DEF Current
  <1>3. client[k] = 0 => Current(k) \in Connectors \X {0}
    BY DEF Current
  <1> QED BY <1>1, <1>2, <1>3 DEF Transports, Current

(***************************************************************************)
(* What closing sockets does (Shut): no socket comes up, and each connect     *)
(* that waited gets a reply, which it had not.                                *)
(***************************************************************************)
LEMMA ShutEffect ==
    ASSUME ConnectorTyped, NEW gone, Shut(gone)
    PROVE  /\ socket' \in [Attempts -> {"idle", "connecting", "up", "dead"}]
           /\ replies' \subseteq Attempts \X BOOLEAN
           /\ \A a \in Attempts :
                 /\ socket'[a] # socket[a] => socket[a] # "idle" /\ socket'[a] = "dead"
                 /\ a \in gone /\ socket[a] # "idle" => socket'[a] = "dead"
           /\ replies \subseteq replies'
           /\ \A r \in replies' : r \in replies \/
                 /\ r = <<r[1], FALSE>> /\ r[1] \in Attempts
                 /\ socket[r[1]] = "connecting" /\ socket'[r[1]] = "dead"
  <1>1. socket \in [Attempts -> {"idle", "connecting", "up", "dead"}]
        /\ replies \subseteq Attempts \X BOOLEAN
    BY DEF ConnectorTyped
  <1>2. socket' = [a \in Attempts |-> IF a \in gone /\ socket[a] # "idle"
                                        THEN "dead" ELSE socket[a]]
    BY DEF Shut
  <1>3. /\ socket' \in [Attempts -> {"idle", "connecting", "up", "dead"}]
        /\ \A a \in Attempts :
              /\ socket'[a] # socket[a] => socket[a] # "idle" /\ socket'[a] = "dead"
              /\ a \in gone /\ socket[a] # "idle" => socket'[a] = "dead"
    BY <1>1, <1>2
  <1>4. replies' = replies \cup
            {<<a, FALSE>> : a \in {g \in gone \cap Attempts : socket[g] = "connecting"}}
    BY DEF Shut
  <1>5. ASSUME NEW r \in replies', r \notin replies
        PROVE  /\ r = <<r[1], FALSE>> /\ r[1] \in Attempts /\ r \in Attempts \X BOOLEAN
               /\ socket[r[1]] = "connecting" /\ socket'[r[1]] = "dead"
    <2>1. PICK a \in Attempts : a \in gone /\ socket[a] = "connecting" /\ r = <<a, FALSE>>
      BY <1>4, <1>5
    <2>2. socket'[a] = "dead"
      BY <1>3, <2>1
    <2> QED BY <2>1, <2>2
  <1>6. replies' \subseteq Attempts \X BOOLEAN
    <2> SUFFICES ASSUME NEW r \in replies' PROVE r \in Attempts \X BOOLEAN
      OBVIOUS
    <2> QED BY <1>1, <1>5
  <1> QED BY <1>3, <1>4, <1>5, <1>6

(***************************************************************************)
(* The connector's part: what is decided stays so.                            *)
(***************************************************************************)

\* Sockets are closed, or none changes; the user lets go of things, or asks for
\* a close.
LEMMA ShutKeeps ==
    ASSUME ConnectorInv, NEW gone, Shut(gone), UNCHANGED <<client, answers>>,
           alive' \subseteq alive, taken' \subseteq taken, closing' \subseteq Transports
    PROVE  ConnectorInv'
  <1>0. ConnectorTyped /\ Made /\ RepliesAreDecided /\ AnsweredOnce /\ WillBeTold
    BY DEF ConnectorInv
  <1>1. /\ socket' \in [Attempts -> {"idle", "connecting", "up", "dead"}]
        /\ replies' \subseteq Attempts \X BOOLEAN
        /\ \A a \in Attempts :
              /\ socket'[a] # socket[a] => socket[a] # "idle" /\ socket'[a] = "dead"
              /\ a \in gone /\ socket[a] # "idle" => socket'[a] = "dead"
        /\ replies \subseteq replies'
        /\ \A r \in replies' : r \in replies \/
              /\ r = <<r[1], FALSE>> /\ r[1] \in Attempts
              /\ socket[r[1]] = "connecting" /\ socket'[r[1]] = "dead"
    BY <1>0, ShutEffect
  <1>2. ConnectorTyped'
    BY <1>0, <1>1 DEF ConnectorTyped
  <1>3. Made'
    BY <1>0, <1>1 DEF Made
  <1>4. RepliesAreDecided'
    BY <1>0, <1>1 DEF RepliesAreDecided, Decided
  <1>5. AnsweredOnce'
    BY <1>0, <1>1 DEF AnsweredOnce, RepliesAreDecided, Decided
  <1>6. WillBeTold'
    <2> SUFFICES ASSUME NEW k \in alive', client'[k] > 0, socket'[Current(k)'] = "up"
                 PROVE  \/ <<Current(k)', TRUE>> \in replies'
                        \/ \E r \in answers' : r.told = Current(k)' /\ r.ok
      BY DEF WillBeTold
    <2>1. k \in Connectors /\ k \in alive /\ client[k] > 0 /\ Current(k)' = Current(k)
      BY <1>0 DEF ConnectorTyped, Current
    <2>2. Current(k) \in Attempts
      BY <1>0, <2>1, CurrentTransport
    <2>3. socket[Current(k)] = "up"
      BY <1>1, <2>1, <2>2
    <2> QED BY <1>0, <1>1, <2>1, <2>3 DEF WillBeTold
  <1> QED BY <1>2, <1>3, <1>4, <1>5, <1>6 DEF ConnectorInv

LEMMA StillKeeps ==
    ASSUME ConnectorInv, UNCHANGED <<socket, replies, client, answers>>,
           alive' \subseteq alive, taken' \subseteq taken, closing' \subseteq Transports
    PROVE  ConnectorInv'
  <1>1. ConnectorTyped'
    BY DEF ConnectorInv, ConnectorTyped
  <1>2. Made' /\ RepliesAreDecided' /\ AnsweredOnce' /\ WillBeTold'
    BY DEF ConnectorInv, Made, RepliesAreDecided, Decided, AnsweredOnce, WillBeTold, Current
  <1> QED BY <1>1, <1>2 DEF ConnectorInv

\* The system decides.
LEMMA EstablishKeeps ==
    ASSUME ConnectorInv, NEW a \in Attempts, Establish(a)
    PROVE  ConnectorInv'
  <1>0. /\ ConnectorTyped /\ Made /\ RepliesAreDecided /\ AnsweredOnce /\ WillBeTold
        /\ socket \in [Attempts -> {"idle", "connecting", "up", "dead"}]
    BY DEF ConnectorInv, ConnectorTyped
  <1> DEFINE reply == <<a, TRUE>>
  <1>1. /\ socket[a] = "connecting" /\ socket' = [socket EXCEPT ![a] = "up"]
        /\ replies' = replies \cup {reply}
        /\ UNCHANGED <<client, alive, taken, answers, closing>>
    BY DEF Establish
  <1>r. reply[1] = a /\ reply \in Attempts \X BOOLEAN
    OBVIOUS
  <1> HIDE DEF reply
  <1>2. socket'[a] = "up" /\ \A b \in Attempts : b # a => socket'[b] = socket[b]
    BY <1>0, <1>1
  <1>3. ConnectorTyped'
    BY <1>0, <1>1, <1>r DEF ConnectorTyped
  <1>4. Made'
    BY <1>0, <1>1, <1>2 DEF Made
  <1>a. a \notin Decided /\ Decided \subseteq Decided' /\ a \in Decided'
    BY <1>1, <1>2 DEF Decided
  <1>5. RepliesAreDecided'
    BY <1>0, <1>1, <1>a, <1>r DEF RepliesAreDecided
  <1>6. AnsweredOnce'
    BY <1>0, <1>1, <1>a, <1>r DEF AnsweredOnce, RepliesAreDecided
  <1>7. WillBeTold'
    <2> SUFFICES ASSUME NEW k \in alive', client'[k] > 0, socket'[Current(k)'] = "up"
                 PROVE  \/ <<Current(k)', TRUE>> \in replies'
                        \/ \E r \in answers' : r.told = Current(k)' /\ r.ok
      BY DEF WillBeTold
    <2>1. k \in Connectors /\ k \in alive /\ client[k] > 0 /\ Current(k)' = Current(k)
      BY <1>0, <1>1 DEF ConnectorTyped, Current
    <2>2. CASE Current(k) = a
      BY <1>1, <2>1, <2>2 DEF reply
    <2>3. CASE Current(k) # a
      <3>1. Current(k) \in Attempts
        BY <1>0, <2>1, CurrentTransport
      <3>2. socket[Current(k)] = "up"
        BY <1>2, <2>1, <2>3, <3>1
      <3> QED BY <1>0, <1>1, <2>1, <3>2 DEF WillBeTold
    <2> QED BY <2>2, <2>3
  <1> QED BY <1>3, <1>4, <1>5, <1>6, <1>7 DEF ConnectorInv

\* A new transport replaces client_: an attempt that nobody made before, and what
\* the last one waited for fails.
LEMMA ConnectKeeps ==
    ASSUME ConnectorInv, NEW k \in Connectors, Connect(k)
    PROVE  /\ ConnectorInv'
           /\ \A a \in Attempts : socket'[a] = "up" => socket[a] = "up"
           /\ Decided \subseteq Decided'
  <1> DEFINE next == <<k, client[k] + 1>>
             last == {Current(k)} \cap (Attempts \ taken)
  <1>0. /\ ConnectorTyped /\ Made /\ RepliesAreDecided /\ AnsweredOnce /\ WillBeTold
        /\ socket \in [Attempts -> {"idle", "connecting", "up", "dead"}]
        /\ replies \subseteq Attempts \X BOOLEAN
        /\ client \in [Connectors -> Nat] /\ alive \subseteq Connectors
    BY DEF ConnectorInv, ConnectorTyped
  <1>1. /\ client[k] < MaxConnects[k] /\ client' = [client EXCEPT ![k] = @ + 1]
        /\ socket' = [a \in Attempts |-> IF a = next THEN "connecting"
                                           ELSE IF a \in last THEN "dead" ELSE socket[a]]
        /\ replies' = replies \cup
               {<<a, FALSE>> : a \in {l \in last : socket[l] = "connecting"}}
        /\ UNCHANGED <<alive, taken, answers, closing>>
    BY DEF Connect
  <1>2. /\ next \in Attempts /\ next[1] = k /\ next[2] = client[k] + 1
        /\ socket[next] = "idle" /\ next \notin last
    <2>1. client[k] \in Nat /\ next \in Attempts
      BY <1>0, <1>1, AnAttempt
    <2>2. ~(next[2] <= client[next[1]])
      BY <2>1
    <2>3. next # Current(k)
      BY <2>1 DEF Current
    <2> QED BY <1>0, <2>1, <2>2, <2>3 DEF Made
  <1>3. last \subseteq Attempts /\ \A a \in last : a = Current(k)
    OBVIOUS
  <1>4. ASSUME NEW r \in replies', r \notin replies
        PROVE  /\ r = <<r[1], FALSE>> /\ r \in Attempts \X BOOLEAN /\ r[1] \in last
               /\ socket[r[1]] = "connecting"
    <2> HIDE DEF last, next
    <2>1. PICK a \in last : socket[a] = "connecting" /\ r = <<a, FALSE>>
      BY <1>1, <1>4
    <2> QED BY <1>3, <2>1
  <1>5. last \subseteq {a \in Attempts : a[2] <= client[a[1]]}
    BY <1>0, <1>3 DEF Current
  <1> HIDE DEF last, next
  <1>6. /\ socket' \in [Attempts -> {"idle", "connecting", "up", "dead"}]
        /\ socket'[next] = "connecting" /\ \A a \in last : socket'[a] = "dead"
        /\ \A a \in Attempts : a # next /\ a \notin last => socket'[a] = socket[a]
    BY <1>0, <1>1, <1>2, <1>3
  <1>7. /\ client' \in [Connectors -> Nat] /\ client'[k] = client[k] + 1
        /\ \A c \in Connectors : c # k => client'[c] = client[c]
        /\ client[k] \in Nat /\ MaxConnects[k] \in Nat
    BY <1>0, <1>1, AnAttempt
  <1>8. ConnectorTyped'
    <2>1. \A c \in Connectors : client'[c] <= MaxConnects[c]
      BY <1>0, <1>1, <1>7 DEF ConnectorTyped
    <2>2. replies' \subseteq Attempts \X BOOLEAN
      <3> SUFFICES ASSUME NEW r \in replies' PROVE r \in Attempts \X BOOLEAN
        OBVIOUS
      <3> QED BY <1>0, <1>4
    <2> QED BY <1>0, <1>1, <1>6, <1>7, <2>1, <2>2 DEF ConnectorTyped
  <1>9. Made'
    <2> SUFFICES ASSUME NEW a \in Attempts, socket'[a] # "idle"
                 PROVE  a[2] <= client'[a[1]]
      BY DEF Made
    <2>1. a[1] \in Connectors /\ a[2] \in Nat
      BY AnAttempt
    <2>2. client[a[1]] <= client'[a[1]] /\ client[a[1]] \in Nat /\ client'[a[1]] \in Nat
      BY <1>0, <1>7, <2>1
    <2>3. CASE a = next
      BY <1>2, <1>7, <2>3
    <2>4. CASE a \in last
      BY <1>5, <2>1, <2>2, <2>4
    <2>5. CASE a # next /\ a \notin last
      <3>1. a[2] <= client[a[1]]
        BY <1>0, <1>6, <2>5 DEF Made
      <3> QED BY <2>1, <2>2, <3>1
    <2> QED BY <2>3, <2>4, <2>5
  <1>10. /\ Decided \subseteq Decided'
         /\ \A a \in Attempts : socket'[a] = "up" => socket[a] = "up"
         /\ \A a \in last : a \in Decided'
    BY <1>2, <1>3, <1>6 DEF Decided
  <1>11. RepliesAreDecided'
    BY <1>0, <1>1, <1>4, <1>10 DEF RepliesAreDecided
  <1>12. AnsweredOnce'
    <2>1. \A r \in replies' : r \notin replies => r[1] \notin Decided /\ r = <<r[1], FALSE>>
      BY <1>4 DEF Decided
    <2> QED BY <1>0, <1>1, <2>1 DEF AnsweredOnce, RepliesAreDecided
  <1>13. WillBeTold'
    <2> SUFFICES ASSUME NEW c \in alive', client'[c] > 0, socket'[Current(c)'] = "up"
                 PROVE  \/ <<Current(c)', TRUE>> \in replies'
                        \/ \E r \in answers' : r.told = Current(c)' /\ r.ok
      BY DEF WillBeTold
    <2>1. c \in alive /\ c \in Connectors
      BY <1>0, <1>1
    <2>2. c # k
      <3>1. Current(k)' = next
        BY <1>7 DEF Current, next
      <3> QED BY <1>6, <3>1
    <2>3. client[c] > 0 /\ Current(c)' = Current(c)
      BY <1>7, <2>1, <2>2 DEF Current
    <2>4. Current(c) \in Attempts /\ socket[Current(c)] = "up"
      BY <1>0, <1>10, <2>1, <2>3, CurrentTransport
    <2>5. replies \subseteq replies'
      BY <1>1
    <2> QED BY <1>0, <1>1, <2>1, <2>3, <2>4, <2>5 DEF WillBeTold
  <1> QED BY <1>8, <1>9, <1>10, <1>11, <1>12, <1>13 DEF ConnectorInv

\* A handler reports, to a user who is still there.
LEMMA HandleConnectKeeps ==
    ASSUME ConnectorInv, NEW a \in Attempts, NEW ok \in BOOLEAN, HandleConnect(a, ok)
    PROVE  ConnectorInv'
  <1> DEFINE reply == <<a, ok>>
             told == Current(a[1])
             answer == [of |-> a, told |-> told, ok |-> ok]
  <1>0. /\ ConnectorTyped /\ Made /\ RepliesAreDecided /\ AnsweredOnce /\ WillBeTold
        /\ socket \in [Attempts -> {"idle", "connecting", "up", "dead"}]
        /\ alive \subseteq Connectors
    BY DEF ConnectorInv, ConnectorTyped
  <1>1. /\ reply \in replies /\ replies' = replies \ {reply}
        /\ UNCHANGED <<socket, client, alive, closing>>
        /\ \/ /\ a[1] \in alive /\ answers' = answers \cup {answer}
              /\ taken' = IF ok THEN taken \cup {told} ELSE taken
           \/ a[1] \notin alive /\ UNCHANGED <<answers, taken>>
    BY DEF HandleConnect, Report, Told, netVars
  <1>2. /\ reply[1] = a /\ reply[2] = ok /\ answer.of = a /\ answer.told = told /\ answer.ok = ok
        /\ a[1] \in Connectors /\ a[2] \in Nat /\ a[2] > 0
    BY AnAttempt
  <1>3. a \in Decided
    BY <1>0, <1>1, <1>2 DEF RepliesAreDecided
  <1>4. told \in Attempts /\ told \in Transports
    <2>1. client[a[1]] \in Nat /\ a[2] <= client[a[1]]
      BY <1>0, <1>2, <1>3 DEF Made, Decided, ConnectorTyped
    <2>2. client[a[1]] > 0
      BY <1>2, <2>1
    <2> QED BY <1>0, <1>2, <2>2, CurrentTransport
  <1>5. answer \in [of : Attempts, told : Transports, ok : BOOLEAN]
    BY <1>4
  <1>6. ASSUME NEW k \in alive, <<Current(k), TRUE>> = reply
        PROVE  ok /\ answer.told = Current(k) /\ k = a[1]
    <2>1. Current(k) = a /\ ok = TRUE
      BY <1>6
    <2>2. a[1] = k
      BY <2>1 DEF Current
    <2> QED BY <1>2, <2>1, <2>2
  <1> HIDE DEF reply, answer, told
  <1>7. answers \subseteq answers'
    BY <1>1
  <1>8. ConnectorTyped'
    <2>1. replies' \subseteq Attempts \X BOOLEAN
      BY <1>0, <1>1 DEF ConnectorTyped
    <2>2. taken' \subseteq Attempts
      BY <1>0, <1>1, <1>4 DEF ConnectorTyped
    <2>3. answers' \subseteq [of : Attempts, told : Transports, ok : BOOLEAN]
      BY <1>0, <1>1, <1>5 DEF ConnectorTyped
    <2> QED BY <1>0, <1>1, <2>1, <2>2, <2>3 DEF ConnectorTyped
  <1>9. Made'
    BY <1>0, <1>1 DEF Made
  <1>10. Decided' = Decided
    BY <1>1 DEF Decided
  <1>11. RepliesAreDecided'
    BY <1>0, <1>1, <1>2, <1>3, <1>10 DEF RepliesAreDecided
  <1>12. AnsweredOnce'
    <2>1. \A r \in replies' : r \in replies /\ r[1] # a
      BY <1>0, <1>1, <1>2 DEF AnsweredOnce
    <2> QED BY <1>0, <1>1, <1>2, <2>1 DEF AnsweredOnce
  <1>13. WillBeTold'
    <2> SUFFICES ASSUME NEW k \in alive', client'[k] > 0, socket'[Current(k)'] = "up"
                 PROVE  \/ <<Current(k)', TRUE>> \in replies'
                        \/ \E r \in answers' : r.told = Current(k)' /\ r.ok
      BY DEF WillBeTold
    <2>1. /\ k \in alive /\ client[k] > 0 /\ Current(k)' = Current(k)
          /\ socket[Current(k)] = "up"
      BY <1>1 DEF Current
    <2>2. CASE \E r \in answers : r.told = Current(k) /\ r.ok
      BY <1>7, <2>1, <2>2
    <2>3. CASE <<Current(k), TRUE>> \in replies /\ <<Current(k), TRUE>> # reply
      BY <1>1, <2>1, <2>3
    <2>4. CASE <<Current(k), TRUE>> = reply
      BY <1>1, <1>2, <1>6, <2>1, <2>4
    <2> QED BY <1>0, <2>1, <2>2, <2>3, <2>4 DEF WillBeTold
  <1> QED BY <1>8, <1>9, <1>11, <1>12, <1>13 DEF ConnectorInv

(***************************************************************************)
(* The listener's part.  Its sequences, element by element.                   *)
(***************************************************************************)

\* RemoveAt takes the i-th element out and leaves the others in their order.
LEMMA Erased ==
    ASSUME NEW S, NEW s \in Seq(S), NEW i \in 1..Len(s)
    PROVE  /\ RemoveAt(s, i) \in Seq(S)
           /\ Len(RemoveAt(s, i)) = Len(s) - 1
           /\ \A j \in 1..(Len(s) - 1) :
                 RemoveAt(s, i)[j] = IF j < i THEN s[j] ELSE s[j + 1]
  <1> DEFINE a == SubSeq(s, 1, i - 1)
             b == SubSeq(s, i + 1, Len(s))
  <1>0. Len(s) \in Nat /\ i \in Nat /\ 1 <= i /\ i <= Len(s)
    OBVIOUS
  <1>1. a \in Seq(S) /\ Len(a) = i - 1 /\ \A j \in 1..(i - 1) : a[j] = s[j]
    BY <1>0
  <1>2. b \in Seq(S) /\ Len(b) = Len(s) - i /\ \A j \in 1..(Len(s) - i) : b[j] = s[i + j]
    BY <1>0
  <1>3. RemoveAt(s, i) = a \o b
    BY DEF RemoveAt
  <1> HIDE DEF a, b
  <1>4. a \o b \in Seq(S) /\ Len(a \o b) = Len(s) - 1
    <2>0. a \in Seq(S) /\ b \in Seq(S)
      BY <1>1, <1>2
    <2>1. a \o b \in Seq(S) /\ Len(a \o b) = Len(a) + Len(b)
      BY <2>0
    <2>2. (i - 1) + (Len(s) - i) = Len(s) - 1
      BY <1>0
    <2> QED BY <1>1, <1>2, <2>1, <2>2
  <1>5. ASSUME NEW j \in 1..(Len(s) - 1)
        PROVE  (a \o b)[j] = IF j < i THEN s[j] ELSE s[j + 1]
    <2>1. CASE j < i
      BY <1>0, <1>1, <1>2, <2>1
    <2>2. CASE j >= i
      <3>1. j - (i - 1) \in 1..(Len(s) - i) /\ i + (j - (i - 1)) = j + 1
        BY <1>0, <2>2
      <3>2. (a \o b)[j] = b[j - (i - 1)]
        BY <1>0, <1>1, <1>2, <2>2
      <3>3. b[j - (i - 1)] = s[i + (j - (i - 1))]
        BY <1>2, <3>1
      <3>4. ~(j < i)
        BY <1>0, <2>2
      <3> QED BY <3>1, <3>2, <3>3, <3>4
    <2>3. j < i \/ j >= i
      BY <1>0
    <2> QED BY <2>1, <2>2, <2>3
  <1> QED BY <1>3, <1>4, <1>5

\* It cannot be told apart from what it was, for what is not failed.
LEMMA ListenerStill ==
    ASSUME ListenerInv, UNCHANGED <<serverVars, backlog, arrived>>, Decided \subseteq Decided'
    PROVE  ListenerInv'
  <1>1. UNCHANGED <<listening, pending, accepted, rearm, starts, acceptErrors, offered,
                    backlog, arrived>>
    BY DEF serverVars
  <1>2. ListenerTyped' /\ ChainsConserved' /\ HoldsNothing' /\ InOnePlace' /\ Out' = Out
    BY <1>1 DEF ListenerInv, ListenerTyped, ChainsConserved, HoldsNothing, InOnePlace,
                Once, Apart, Out
  <1>3. PlacesAreDecided'
    BY <1>1 DEF ListenerInv, PlacesAreDecided
  <1>4. InTurn'
    BY <1>1, <1>2 DEF ListenerInv, InTurn
  <1> QED BY <1>2, <1>3, <1>4 DEF ListenerInv

\* Accepts that fail are added, and the backlog may be given up.
LEMMA FailuresKeep ==
    ASSUME ListenerInv, Decided \subseteq Decided',
           ListenerTyped', ChainsConserved', HoldsNothing',
           Len(accepted') >= Len(accepted),
           \A i \in 1..Len(accepted) : accepted'[i] = accepted[i],
           \A i \in 1..Len(accepted') : i > Len(accepted) => accepted'[i] = AcceptFailed,
           UNCHANGED <<offered, arrived>>,
           backlog' = backlog \/ backlog' = <<>>,
           starts' <= 1 => /\ starts <= 1
                           /\ listening' \in {"new", "open", "closing"} =>
                                 /\ listening \in {"new", "open", "closing"}
                                 /\ backlog' = backlog
    PROVE  ListenerInv'
  <1>0. /\ Len(accepted) \in Nat /\ Len(accepted') \in Nat /\ Len(offered) \in Nat
        /\ \A i \in 1..Len(accepted') : accepted'[i] # AcceptFailed =>
              i \in 1..Len(accepted) /\ accepted'[i] = accepted[i]
        /\ backlog' = backlog \/ Len(backlog') = 0
    BY DEF ListenerInv, ListenerTyped
  <1>1. Once(accepted') /\ Apart(offered', accepted')
    BY <1>0 DEF ListenerInv, InOnePlace, Once, Apart
  <1>2. Once(backlog') /\ Apart(offered', backlog') /\ Apart(accepted', backlog')
    BY <1>0 DEF ListenerInv, InOnePlace, Once, Apart
  <1>3. InOnePlace'
    BY <1>1, <1>2 DEF ListenerInv, InOnePlace
  <1>4. PlacesAreDecided'
    BY <1>0 DEF ListenerInv, PlacesAreDecided
  <1>5. /\ (accepted' # <<>> /\ accepted'[1] # AcceptFailed) <=>
             (accepted # <<>> /\ accepted[1] # AcceptFailed)
        /\ accepted # <<>> => accepted'[1] = accepted[1]
    <2>1. accepted \in Seq(Attempts \cup {AcceptFailed}) /\ accepted' \in Seq(Attempts \cup {AcceptFailed})
      BY DEF ListenerInv, ListenerTyped
    <2>2. (accepted = <<>> <=> Len(accepted) = 0) /\ (accepted' = <<>> <=> Len(accepted') = 0)
      BY <2>1
    <2> QED BY <1>0, <2>2
  <1>6. Out' = Out
    BY <1>5 DEF Out
  <1>7. InTurn'
    <2>1. SUFFICES ASSUME starts' <= 1
                   PROVE  /\ Out' <= Len(arrived')
                          /\ \A i \in 1..Len(offered') : offered'[i] = arrived'[i]
                          /\ Out' > Len(offered') => accepted'[1] = arrived'[Out']
                          /\ listening' \in {"new", "open", "closing"} =>
                                 Len(arrived') = Out' + Len(backlog')
                          /\ \A i \in 1..Len(backlog') : backlog'[i] = arrived'[Out' + i]
      BY DEF InTurn
    <2>2. starts <= 1
      BY <2>1
    <2>3. Out > Len(offered) => accepted # <<>>
      BY <1>0 DEF Out
    <2> QED BY <1>0, <1>5, <1>6, <2>1, <2>2, <2>3 DEF ListenerInv, InTurn
  <1> QED BY <1>3, <1>4, <1>7 DEF ListenerInv

\* The types of the listener's variables, as the steps need them.
LEMMA ListenerTypes ==
    ASSUME ListenerInv
    PROVE  /\ ListenerTyped /\ ChainsConserved /\ HoldsNothing
           /\ listening \in {"new", "open", "closing", "closed", "dead"}
           /\ pending \in Nat /\ rearm \in Nat /\ starts \in Nat /\ acceptErrors \in Nat
           /\ accepted \in Seq(Attempts \cup {AcceptFailed}) /\ Len(accepted) \in Nat
           /\ offered \in Seq(Attempts) /\ Len(offered) \in Nat
           /\ backlog \in Seq(Attempts) /\ Len(backlog) \in Nat
           /\ arrived \in Seq(Attempts) /\ Len(arrived) \in Nat
           /\ accepted = <<>> <=> Len(accepted) = 0
           /\ backlog = <<>> <=> Len(backlog) = 0
  BY DEF ListenerInv, ListenerTyped

\* An accept is started: it waits, or fails at once.
LEMMA AsyncAccepts ==
    ASSUME ListenerInv, NEW state, AsyncAccept(state)
    PROVE  /\ pending' \in Nat /\ accepted' \in Seq(Attempts \cup {AcceptFailed})
           /\ Len(accepted') \in Nat
           /\ pending' + Len(accepted') = pending + Len(accepted) + 1
           /\ Len(accepted') >= Len(accepted)
           /\ \A i \in 1..Len(accepted) : accepted'[i] = accepted[i]
           /\ \A i \in 1..Len(accepted') : i > Len(accepted) => accepted'[i] = AcceptFailed
  <1>1. /\ pending \in Nat /\ accepted \in Seq(Attempts \cup {AcceptFailed})
        /\ Len(accepted) \in Nat
    BY ListenerTypes
  <1>2. CASE pending' = pending + 1 /\ UNCHANGED accepted
    BY <1>1, <1>2
  <1>3. CASE accepted' = Append(accepted, AcceptFailed) /\ UNCHANGED pending
    BY <1>1, <1>3
  <1> QED BY <1>2, <1>3 DEF AsyncAccept

LEMMA StartKeeps ==
    ASSUME ListenerInv, Start
    PROVE  ListenerInv'
  <1>1. /\ listening \in {"new", "closed"} /\ listening' = "open" /\ starts' = starts + 1
        /\ AsyncAccept("open")
        /\ UNCHANGED <<rearm, acceptErrors, offered, backlog, arrived, socket>>
    BY DEF Start, OpenAndBind, netVars
  <1>2. /\ pending' \in Nat /\ accepted' \in Seq(Attempts \cup {AcceptFailed})
        /\ Len(accepted') \in Nat
        /\ pending' + Len(accepted') = pending + Len(accepted) + 1
        /\ Len(accepted') >= Len(accepted)
        /\ \A i \in 1..Len(accepted) : accepted'[i] = accepted[i]
        /\ \A i \in 1..Len(accepted') : i > Len(accepted) => accepted'[i] = AcceptFailed
    BY <1>1, AsyncAccepts
  <1>3. ListenerTyped'
    BY <1>1, <1>2, ListenerTypes DEF ListenerTyped
  <1>4. ChainsConserved'
    <2>1. starts = pending + Len(accepted) + rearm + acceptErrors
      BY <1>1, ListenerTypes DEF ChainsConserved
    <2>2. /\ pending \in Nat /\ Len(accepted) \in Nat /\ rearm \in Nat /\ acceptErrors \in Nat
          /\ starts' = starts + 1 /\ rearm' = rearm /\ acceptErrors' = acceptErrors
      BY <1>1, ListenerTypes
    <2>3. starts' = pending' + Len(accepted') + rearm' + acceptErrors'
      BY <1>2, <2>1, <2>2
    <2> QED BY <2>3 DEF ChainsConserved
  <1>5. HoldsNothing'
    BY <1>1, ListenerTypes DEF HoldsNothing
  <1>6. starts' <= 1 => /\ starts <= 1
                        /\ listening' \in {"new", "open", "closing"} =>
                              /\ listening \in {"new", "open", "closing"}
                              /\ backlog' = backlog
    BY <1>1, ListenerTypes DEF HoldsNothing
  <1>7. Decided \subseteq Decided' /\ backlog' = backlog /\ UNCHANGED <<offered, arrived>>
    BY <1>1 DEF Decided
  <1> QED BY <1>2, <1>3, <1>4, <1>5, <1>6, <1>7, FailuresKeep

LEMMA StopKeeps ==
    ASSUME ListenerInv, Stop
    PROVE  ListenerInv'
  <1>1. /\ listening = "open" /\ listening' = "closing"
        /\ UNCHANGED <<pending, accepted, rearm, starts, acceptErrors, offered, backlog,
                       arrived, socket>>
    BY DEF Stop
  <1>2. ListenerTyped' /\ ChainsConserved' /\ HoldsNothing'
    BY <1>1, ListenerTypes DEF ListenerTyped, ChainsConserved, HoldsNothing
  <1>3. Decided \subseteq Decided'
    BY <1>1 DEF Decided
  <1> QED BY <1>1, <1>2, <1>3, ListenerTypes, FailuresKeep

LEMMA StartAcceptKeeps ==
    ASSUME ListenerInv, StartAccept
    PROVE  ListenerInv'
  <1>1. /\ rearm > 0 /\ rearm' = rearm - 1 /\ AsyncAccept(listening)
        /\ UNCHANGED <<listening, starts, acceptErrors, offered, backlog, arrived, socket>>
    BY DEF StartAccept, netVars
  <1>2. /\ pending' \in Nat /\ accepted' \in Seq(Attempts \cup {AcceptFailed})
        /\ Len(accepted') \in Nat
        /\ pending' + Len(accepted') = pending + Len(accepted) + 1
        /\ Len(accepted') >= Len(accepted)
        /\ \A i \in 1..Len(accepted) : accepted'[i] = accepted[i]
        /\ \A i \in 1..Len(accepted') : i > Len(accepted) => accepted'[i] = AcceptFailed
    BY <1>1, AsyncAccepts
  <1>3. ListenerTyped'
    BY <1>1, <1>2, ListenerTypes DEF ListenerTyped
  <1>4. ChainsConserved'
    <2>1. /\ listening # "dead" => starts = pending + Len(accepted) + rearm + acceptErrors
          /\ pending \in Nat /\ Len(accepted) \in Nat /\ rearm \in Nat /\ acceptErrors \in Nat
      BY ListenerTypes DEF ChainsConserved
    <2> QED BY <1>1, <1>2, <2>1 DEF ChainsConserved
  <1>5. HoldsNothing'
    BY <1>1, ListenerTypes DEF HoldsNothing
  <1>6. Decided \subseteq Decided'
    BY <1>1 DEF Decided
  <1> QED BY <1>1, <1>2, <1>3, <1>4, <1>5, <1>6, FailuresKeep

LEMMA AcceptFailsKeeps ==
    ASSUME ListenerInv, AcceptFails
    PROVE  ListenerInv'
  <1>1. /\ pending > 0 /\ pending' = pending - 1
        /\ accepted' = Append(accepted, AcceptFailed)
        /\ UNCHANGED <<listening, rearm, starts, acceptErrors, offered, backlog,
                       arrived, socket>>
    BY DEF AcceptFails
  <1>2. /\ accepted' \in Seq(Attempts \cup {AcceptFailed})
        /\ Len(accepted') = Len(accepted) + 1 /\ Len(accepted) \in Nat
        /\ \A i \in 1..Len(accepted) : accepted'[i] = accepted[i]
        /\ accepted'[Len(accepted) + 1] = AcceptFailed
    BY <1>1, ListenerTypes
  <1>3. ListenerTyped'
    BY <1>1, <1>2, ListenerTypes DEF ListenerTyped
  <1>4. ChainsConserved'
    <2>1. pending' + Len(accepted') = pending + Len(accepted)
      BY <1>1, <1>2, ListenerTypes
    <2>2. /\ listening # "dead" => starts = pending + Len(accepted) + rearm + acceptErrors
          /\ rearm \in Nat /\ acceptErrors \in Nat
      BY ListenerTypes DEF ChainsConserved
    <2> QED BY <1>1, <2>1, <2>2 DEF ChainsConserved
  <1>5. HoldsNothing'
    BY <1>1, ListenerTypes DEF HoldsNothing
  <1>6. Decided \subseteq Decided'
    BY <1>1 DEF Decided
  <1>7. /\ Len(accepted') >= Len(accepted)
        /\ \A i \in 1..Len(accepted') : i > Len(accepted) => accepted'[i] = AcceptFailed
    BY <1>2
  <1> QED BY <1>1, <1>2, <1>3, <1>4, <1>5, <1>6, <1>7, FailuresKeep

\* The close fails the accepts that wait, and refuses who waits in the backlog.
LEMMA CloseAcceptorKeeps ==
    ASSUME ListenerInv, CloseAcceptor, Decided \subseteq Decided'
    PROVE  ListenerInv'
  <1>1. /\ listening = "closing" /\ listening' = "closed" /\ pending' = 0
        /\ accepted' = accepted \o [i \in 1..pending |-> AcceptFailed]
        /\ backlog' = <<>>
        /\ UNCHANGED <<rearm, starts, acceptErrors, offered, arrived>>
    BY DEF CloseAcceptor
  <1>2. /\ accepted' \in Seq(Attempts \cup {AcceptFailed})
        /\ Len(accepted') = Len(accepted) + pending /\ Len(accepted) \in Nat /\ pending \in Nat
        /\ \A i \in 1..Len(accepted) : accepted'[i] = accepted[i]
        /\ \A i \in 1..pending : accepted'[Len(accepted) + i] = AcceptFailed
    <2> DEFINE S == Attempts \cup {AcceptFailed}
               failed == [i \in 1..pending |-> AcceptFailed]
    <2>1. pending \in Nat /\ accepted \in Seq(S) /\ AcceptFailed \in S
      BY ListenerTypes
    <2> HIDE DEF S
    <2>2. /\ failed \in Seq(S) /\ Len(failed) = pending
          /\ \A i \in 1..pending : failed[i] = AcceptFailed
      BY <2>1
    <2>3. accepted' = accepted \o failed
      BY <1>1
    <2> HIDE DEF failed
    <2>4. /\ accepted \o failed \in Seq(S)
          /\ Len(accepted \o failed) = Len(accepted) + Len(failed) /\ Len(accepted) \in Nat
          /\ \A i \in 1..Len(accepted) : (accepted \o failed)[i] = accepted[i]
          /\ \A i \in 1..Len(failed) : (accepted \o failed)[Len(accepted) + i] = failed[i]
      BY <2>1, <2>2
    <2>5. \A i \in 1..pending : (accepted \o failed)[Len(accepted) + i] = AcceptFailed
      <3>1. \A i \in 1..pending : (accepted \o failed)[Len(accepted) + i] = failed[i]
        BY <2>2, <2>4, Zenon
      <3> QED BY <2>2, <3>1
    <2>6. Len(accepted \o failed) = Len(accepted) + pending
      BY <2>2, <2>4, Zenon
    <2> QED BY <2>1, <2>3, <2>4, <2>5, <2>6, Zenon DEF S
  <1>3. ListenerTyped'
    BY <1>1, <1>2, ListenerTypes DEF ListenerTyped
  <1>4. ChainsConserved'
    BY <1>1, <1>2, ListenerTypes DEF ChainsConserved
  <1>5. HoldsNothing'
    BY <1>1, ListenerTypes DEF HoldsNothing
  <1>6. /\ Len(accepted') >= Len(accepted)
        /\ \A i \in 1..Len(accepted') : i > Len(accepted) => accepted'[i] = AcceptFailed
    <2>1. ASSUME NEW i \in 1..Len(accepted'), i > Len(accepted)
          PROVE  accepted'[i] = AcceptFailed
      <3>1. i - Len(accepted) \in 1..pending /\ Len(accepted) + (i - Len(accepted)) = i
        BY <1>2, <2>1
      <3> QED BY <1>2, <3>1
    <2> QED BY <1>2, <2>1
  <1> QED BY <1>1, <1>2, <1>3, <1>4, <1>5, <1>6, FailuresKeep

\* A listener that ends drops what it held.
LEMMA EndKeeps ==
    ASSUME ListenerInv, Decided \subseteq Decided', listening # "new",
           listening' = "dead", pending' = 0, accepted' = <<>>, rearm' = 0, backlog' = <<>>,
           UNCHANGED <<starts, acceptErrors, offered, arrived>>
    PROVE  ListenerInv'
  <1>1. Len(accepted') = 0 /\ Len(backlog') = 0
    OBVIOUS
  <1>2. ListenerTyped' /\ ChainsConserved' /\ HoldsNothing'
    BY ListenerTypes DEF ListenerTyped, ChainsConserved, HoldsNothing
  <1>3. InOnePlace' /\ PlacesAreDecided'
    BY <1>1 DEF ListenerInv, InOnePlace, PlacesAreDecided, Once, Apart
  <1>4. Out' = Len(offered) /\ Len(offered) <= Out
    BY ListenerTypes DEF Out
  <1>5. InTurn'
    BY <1>1, <1>4, ListenerTypes DEF ListenerInv, InTurn, Out
  <1> QED BY <1>2, <1>3, <1>5 DEF ListenerInv

\* One thing that was accepted is taken out: a connection is offered, or a failure
\* is reported.  A listener that was started once has no other.
LEMMA TakenOut ==
    ASSUME ListenerInv, NEW i \in 1..Len(accepted), accepted' = RemoveAt(accepted, i)
    PROVE  /\ accepted' \in Seq(Attempts \cup {AcceptFailed})
           /\ Len(accepted') = Len(accepted) - 1 /\ Len(accepted) \in Nat
           /\ \A j \in 1..Len(accepted') :
                 \E k \in 1..Len(accepted) : k # i /\ accepted'[j] = accepted[k]
           /\ Once(accepted) => Once(accepted')
           /\ listening # "dead"
           /\ starts <= 1 => i = 1 /\ Len(accepted) = 1 /\ accepted' = <<>>
  <1>1. accepted \in Seq(Attempts \cup {AcceptFailed}) /\ Len(accepted) \in Nat
    BY ListenerTypes
  <1>2. /\ RemoveAt(accepted, i) \in Seq(Attempts \cup {AcceptFailed})
        /\ Len(RemoveAt(accepted, i)) = Len(accepted) - 1
        /\ \A j \in 1..(Len(accepted) - 1) :
              RemoveAt(accepted, i)[j] = IF j < i THEN accepted[j] ELSE accepted[j + 1]
    BY <1>1, Erased
  <1>3. /\ accepted' \in Seq(Attempts \cup {AcceptFailed})
        /\ Len(accepted') = Len(accepted) - 1
        /\ \A j \in 1..(Len(accepted) - 1) :
              accepted'[j] = IF j < i THEN accepted[j] ELSE accepted[j + 1]
    BY <1>2, Zenon
  <1>4. ASSUME NEW j \in 1..Len(accepted')
        PROVE  LET k == IF j < i THEN j ELSE j + 1
               IN  k \in 1..Len(accepted) /\ k # i /\ accepted'[j] = accepted[k]
    <2>1. j \in 1..(Len(accepted) - 1)
      BY <1>1, <1>3
    <2> QED BY <1>1, <1>3, <2>1
  <1>5. \A j \in 1..Len(accepted') :
           \E k \in 1..Len(accepted) : k # i /\ accepted'[j] = accepted[k]
    BY <1>4
  <1>6. ASSUME Once(accepted), NEW j \in 1..Len(accepted'), NEW k \in 1..Len(accepted'),
               accepted'[j] = accepted'[k], accepted'[j] # AcceptFailed
        PROVE  j = k
    <2> DEFINE p(x) == IF x < i THEN x ELSE x + 1
    <2>1. p(j) = p(k)
      BY <1>4, <1>6 DEF Once
    <2> QED BY <1>1, <1>3, <2>1
  <1>7. listening # "dead"
    BY <1>1, ListenerTypes DEF HoldsNothing
  <1>8. starts <= 1 => Len(accepted) <= 1
    BY <1>1, <1>7, ListenerTypes DEF ChainsConserved
  <1>9. starts <= 1 => i = 1 /\ Len(accepted) = 1 /\ accepted' = <<>>
    BY <1>1, <1>3, <1>8
  <1> QED BY <1>1, <1>3, <1>5, <1>6, <1>7, <1>9 DEF Once

LEMMA OnAcceptErrorKeeps ==
    ASSUME ListenerInv, NEW i \in 1..Len(accepted), OnAcceptError(i)
    PROVE  ListenerInv'
  <1>1. /\ accepted[i] = AcceptFailed /\ acceptErrors' = acceptErrors + 1
        /\ accepted' = RemoveAt(accepted, i)
        /\ UNCHANGED <<listening, pending, rearm, starts, offered, backlog, arrived, socket>>
    BY DEF OnAcceptError, netVars
  <1>2. /\ accepted' \in Seq(Attempts \cup {AcceptFailed})
        /\ Len(accepted') = Len(accepted) - 1 /\ Len(accepted) \in Nat
        /\ \A j \in 1..Len(accepted') :
              \E k \in 1..Len(accepted) : k # i /\ accepted'[j] = accepted[k]
        /\ Once(accepted) => Once(accepted')
        /\ listening # "dead"
        /\ starts <= 1 => i = 1 /\ Len(accepted) = 1 /\ accepted' = <<>>
    BY <1>1, TakenOut
  <1>3. ListenerTyped'
    BY <1>1, <1>2, ListenerTypes DEF ListenerTyped
  <1>4. ChainsConserved'
    BY <1>1, <1>2, ListenerTypes DEF ChainsConserved
  <1>5. HoldsNothing'
    BY <1>1, <1>2, ListenerTypes DEF HoldsNothing
  <1>6. InOnePlace'
    <2>0. /\ Once(offered) /\ Once(accepted) /\ Once(backlog)
          /\ Apart(offered, accepted) /\ Apart(offered, backlog) /\ Apart(accepted, backlog)
      BY DEF ListenerInv, InOnePlace
    <2>1. Apart(offered, accepted') /\ Apart(accepted', backlog)
      BY <1>2, <2>0 DEF Apart
    <2> QED BY <1>1, <1>2, <2>0, <2>1 DEF InOnePlace
  <1>7. PlacesAreDecided'
    <2>1. Decided' = Decided
      BY <1>1 DEF Decided
    <2> QED BY <1>1, <1>2, <2>1 DEF ListenerInv, PlacesAreDecided
  <1>8. InTurn'
    <2> SUFFICES ASSUME starts <= 1 PROVE InTurn'
      BY <1>1 DEF InTurn
    <2>1. i = 1 /\ accepted' = <<>>
      BY <1>2
    <2>2. Out = Len(offered) /\ Out' = Len(offered)
      BY <1>1, <2>1, ListenerTypes DEF Out
    <2>3. /\ Out <= Len(arrived)
          /\ \A j \in 1..Len(offered) : offered[j] = arrived[j]
          /\ listening \in {"new", "open", "closing"} => Len(arrived) = Out + Len(backlog)
          /\ \A j \in 1..Len(backlog) : backlog[j] = arrived[Out + j]
      BY DEF ListenerInv, InTurn
    <2>4. Len(offered) \in Nat
      BY ListenerTypes
    <2> QED BY <1>1, <2>2, <2>3, <2>4 DEF InTurn
  <1> QED BY <1>3, <1>4, <1>5, <1>6, <1>7, <1>8 DEF ListenerInv

LEMMA OnAcceptClientKeeps ==
    ASSUME ListenerInv, NEW i \in 1..Len(accepted), OnAcceptClient(i),
           Decided \subseteq Decided'
    PROVE  ListenerInv'
  <1> DEFINE a == accepted[i]
             n == Len(offered)
  <1>1. /\ a # AcceptFailed /\ accepted' = RemoveAt(accepted, i)
        /\ offered' = Append(offered, a) /\ rearm' = rearm + 1
        /\ UNCHANGED <<listening, pending, starts, acceptErrors, backlog, arrived>>
    BY DEF OnAcceptClient
  <1>2. /\ accepted' \in Seq(Attempts \cup {AcceptFailed})
        /\ Len(accepted') = Len(accepted) - 1 /\ Len(accepted) \in Nat
        /\ \A j \in 1..Len(accepted') :
              \E k \in 1..Len(accepted) : k # i /\ accepted'[j] = accepted[k]
        /\ Once(accepted) => Once(accepted')
        /\ listening # "dead"
        /\ starts <= 1 => i = 1 /\ Len(accepted) = 1 /\ accepted' = <<>>
    BY <1>1, TakenOut
  <1>a. a \in Attempts /\ a \in Decided
    BY <1>1, ListenerTypes DEF ListenerInv, PlacesAreDecided
  <1>b. /\ offered' \in Seq(Attempts) /\ Len(offered') = n + 1 /\ n \in Nat
        /\ offered'[n + 1] = a /\ \A j \in 1..n : offered'[j] = offered[j]
    BY <1>1, <1>a, ListenerTypes
  <1>c. /\ \A j \in 1..Len(accepted) : accepted[j] = a => j = i
        /\ \A j \in 1..n : offered[j] # a
        /\ \A j \in 1..Len(backlog) : backlog[j] # a
    BY <1>1 DEF ListenerInv, InOnePlace, Once, Apart
  <1> HIDE DEF a
  <1>3. ListenerTyped'
    BY <1>1, <1>2, <1>b, ListenerTypes DEF ListenerTyped
  <1>4. ChainsConserved'
    BY <1>1, <1>2, ListenerTypes DEF ChainsConserved
  <1>5. HoldsNothing'
    BY <1>1, <1>2, ListenerTypes DEF HoldsNothing
  <1>6. InOnePlace'
    <2>1. Once(accepted') /\ Apart(accepted', backlog')
      <3>1. Once(accepted) /\ Apart(accepted, backlog)
        BY DEF ListenerInv, InOnePlace
      <3>2. Apart(accepted', backlog)
        BY <1>2, <3>1 DEF Apart
      <3> QED BY <1>1, <1>2, <3>1, <3>2
    <2>2. Once(offered')
      BY <1>b, <1>c DEF ListenerInv, InOnePlace, Once
    <2>3. Apart(offered', accepted')
      BY <1>2, <1>b, <1>c DEF ListenerInv, InOnePlace, Apart
    <2>4. Apart(offered', backlog')
      BY <1>1, <1>b, <1>c DEF ListenerInv, InOnePlace, Apart
    <2> QED BY <1>1, <2>1, <2>2, <2>3, <2>4 DEF ListenerInv, InOnePlace
  <1>7. PlacesAreDecided'
    <2>1. \A j \in 1..Len(offered') : offered'[j] \in Decided'
      BY <1>a, <1>b DEF ListenerInv, PlacesAreDecided
    <2>2. \A j \in 1..Len(accepted') : accepted'[j] = AcceptFailed \/ accepted'[j] \in Decided'
      BY <1>2 DEF ListenerInv, PlacesAreDecided
    <2>3. \A j \in 1..Len(backlog') : backlog'[j] \in Decided'
      BY <1>1 DEF ListenerInv, PlacesAreDecided
    <2> QED BY <2>1, <2>2, <2>3 DEF PlacesAreDecided
  <1>8. InTurn'
    <2> SUFFICES ASSUME starts <= 1 PROVE InTurn'
      BY <1>1 DEF InTurn
    <2>1. i = 1 /\ accepted' = <<>> /\ accepted # <<>> /\ accepted[1] = a
      BY <1>2 DEF a
    <2>2. Out = n + 1 /\ Out' = n + 1
      BY <1>1, <1>b, <2>1 DEF Out
    <2>3. a = arrived[n + 1] /\ n + 1 <= Len(arrived)
      BY <1>b, <2>1, <2>2 DEF ListenerInv, InTurn
    <2>4. \A j \in 1..Len(offered') : offered'[j] = arrived'[j]
      BY <1>1, <1>b, <2>3 DEF ListenerInv, InTurn
    <2>5. /\ listening \in {"new", "open", "closing"} => Len(arrived) = Out + Len(backlog)
          /\ \A j \in 1..Len(backlog) : backlog[j] = arrived[Out + j]
      BY DEF ListenerInv, InTurn
    <2>6. /\ Out' = Out /\ Out = Len(offered') /\ Out <= Len(arrived')
          /\ UNCHANGED <<listening, backlog, arrived>>
      BY <1>1, <1>b, <2>2, <2>3
    <2>7. ~(Out' > Len(offered'))
      BY <1>b, <2>2
    <2> QED BY <2>4, <2>5, <2>6, <2>7 DEF InTurn
  <1> QED BY <1>3, <1>4, <1>5, <1>6, <1>7, <1>8 DEF ListenerInv

\* An accept completes with the connection at the front of the backlog.
LEMMA AcceptKeeps ==
    ASSUME ListenerInv, Accept
    PROVE  ListenerInv'
  <1> DEFINE a == Head(backlog)
             n == Len(accepted)
  <1>1. /\ pending > 0 /\ backlog # <<>> /\ pending' = pending - 1
        /\ accepted' = Append(accepted, a) /\ backlog' = Tail(backlog)
        /\ UNCHANGED <<listening, rearm, starts, acceptErrors, offered, arrived, socket>>
    BY DEF Accept
  <1>2. /\ a \in Attempts /\ a = backlog[1] /\ Len(backlog) \in Nat /\ Len(backlog) >= 1
        /\ backlog' \in Seq(Attempts) /\ Len(backlog') = Len(backlog) - 1
        /\ \A j \in 1..Len(backlog') : backlog'[j] = backlog[j + 1]
    BY <1>1, ListenerTypes
  <1>3. a # AcceptFailed
    BY <1>2, NotFailed
  <1> HIDE DEF a
  <1>4. /\ accepted' \in Seq(Attempts \cup {AcceptFailed}) /\ n \in Nat /\ Len(accepted') = n + 1
        /\ accepted'[n + 1] = a /\ \A j \in 1..n : accepted'[j] = accepted[j]
    BY <1>1, <1>2, ListenerTypes
  <1>5. /\ Once(offered) /\ Once(accepted) /\ Once(backlog)
        /\ Apart(offered, accepted) /\ Apart(offered, backlog) /\ Apart(accepted, backlog)
    BY DEF ListenerInv, InOnePlace
  <1>6. ListenerTyped'
    BY <1>1, <1>2, <1>4, ListenerTypes DEF ListenerTyped
  <1>7. ChainsConserved'
    BY <1>1, <1>4, ListenerTypes DEF ChainsConserved
  <1>8. HoldsNothing'
    BY <1>1, ListenerTypes DEF HoldsNothing
  <1>9. InOnePlace'
    <2>0. \A j \in 1..Len(backlog) : backlog[j] # AcceptFailed
      BY NotFailed, ListenerTypes
    <2>1. /\ \A j \in 1..n : accepted[j] # a
          /\ \A j \in 1..Len(offered) : offered[j] # a \/ offered[j] = AcceptFailed
          /\ \A j \in 1..Len(backlog') : backlog'[j] # a
      <3>1. \A j \in 1..n : accepted[j] # a
        BY <1>2, <1>3, <1>5 DEF Apart
      <3>2. \A j \in 1..Len(offered) : offered[j] # a \/ offered[j] = AcceptFailed
        BY <1>2, <1>5 DEF Apart
      <3>3. \A j \in 1..Len(backlog') : backlog'[j] # a
        BY <1>2, <1>3, <1>5 DEF Once
      <3> QED BY <3>1, <3>2, <3>3
    <2>2. Once(accepted')
      BY <1>4, <1>5, <2>1 DEF Once
    <2>3. Once(backlog') /\ Apart(offered, backlog')
      BY <1>2, <1>5 DEF Once, Apart
    <2>4. Apart(offered, accepted')
      BY <1>4, <1>5, <2>1 DEF Apart
    <2>5. Apart(accepted', backlog')
      <3>1. Apart(accepted, backlog')
        BY <1>2, <1>5 DEF Apart
      <3> QED BY <1>4, <2>1, <3>1 DEF Apart
    <2> QED BY <1>1, <1>5, <2>2, <2>3, <2>4, <2>5 DEF InOnePlace
  <1>10. PlacesAreDecided'
    <2>1. Decided' = Decided
      BY <1>1 DEF Decided
    <2>2. /\ \A j \in 1..Len(offered) : offered[j] \in Decided
          /\ \A j \in 1..Len(accepted) : accepted[j] = AcceptFailed \/ accepted[j] \in Decided
          /\ \A j \in 1..Len(backlog) : backlog[j] \in Decided
      BY DEF ListenerInv, PlacesAreDecided
    <2> QED BY <1>1, <1>2, <1>4, <2>1, <2>2 DEF PlacesAreDecided
  <1>11. InTurn'
    <2> SUFFICES ASSUME starts <= 1 PROVE InTurn'
      BY <1>1 DEF InTurn
    <2>1. n = 0
      <3>1. listening # "dead"
        BY <1>1, ListenerTypes DEF HoldsNothing
      <3> QED BY <1>1, <3>1, ListenerTypes DEF ChainsConserved
    <2>2. accepted = <<>> /\ accepted' # <<>> /\ accepted'[1] = a
      <3>1. accepted = <<>>
        BY <2>1, ListenerTypes
      <3>2. Len(accepted') = 1 /\ accepted'[1] = a
        BY <1>4, <2>1
      <3>3. accepted' # <<>>
        BY <3>2
      <3> QED BY <3>1, <3>2, <3>3
    <2>3. Out = Len(offered) /\ Out' = Len(offered) + 1 /\ Len(offered) \in Nat
      BY <1>1, <1>3, <2>2, ListenerTypes DEF Out
    <2>4. /\ \A j \in 1..Len(offered) : offered[j] = arrived[j]
          /\ Len(arrived) = Out + Len(backlog)
          /\ \A j \in 1..Len(backlog) : backlog[j] = arrived[Out + j]
      <3>1. listening \in {"open", "closing"}
        BY <1>1, ListenerTypes DEF HoldsNothing
      <3> QED BY <3>1 DEF ListenerInv, InTurn
    <2>5. a = arrived[Len(offered) + 1]
      BY <1>2, <2>3, <2>4
    <2>6. \A j \in 1..Len(backlog') : backlog'[j] = arrived[(Len(offered) + 1) + j]
      <3> SUFFICES ASSUME NEW j \in 1..Len(backlog')
                   PROVE  backlog'[j] = arrived[(Len(offered) + 1) + j]
        OBVIOUS
      <3>1. j + 1 \in 1..Len(backlog) /\ backlog'[j] = backlog[j + 1]
        BY <1>2
      <3>2. Len(offered) + (j + 1) = (Len(offered) + 1) + j
        BY <2>3
      <3> QED BY <2>3, <2>4, <3>1, <3>2
    <2> QED BY <1>1, <1>2, <2>2, <2>3, <2>4, <2>5, <2>6 DEF InTurn
  <1> QED BY <1>6, <1>7, <1>8, <1>9, <1>10, <1>11 DEF ListenerInv

\* The system makes a connection, which waits at the end of the backlog.
LEMMA EstablishInTurn ==
    ASSUME ListenerInv, ConnectorTyped, NEW a \in Attempts, Establish(a)
    PROVE  ListenerInv'
  <1> DEFINE n == Len(backlog)
             m == Len(arrived)
  <1>1. /\ socket[a] = "connecting" /\ listening \in {"open", "closing"}
        /\ socket' = [socket EXCEPT ![a] = "up"]
        /\ backlog' = Append(backlog, a) /\ arrived' = Append(arrived, a)
        /\ UNCHANGED <<listening, pending, accepted, rearm, starts, acceptErrors, offered>>
    BY DEF Establish, serverVars
  <1>2. /\ n \in Nat /\ backlog' \in Seq(Attempts) /\ Len(backlog') = n + 1
        /\ backlog'[n + 1] = a /\ \A j \in 1..n : backlog'[j] = backlog[j]
    BY <1>1, ListenerTypes
  <1>3. /\ m \in Nat /\ arrived' \in Seq(Attempts) /\ Len(arrived') = m + 1
        /\ arrived'[m + 1] = a /\ \A j \in 1..m : arrived'[j] = arrived[j]
    BY <1>1, ListenerTypes
  <1>4. a \notin Decided /\ Decided \subseteq Decided' /\ a \in Decided'
    <2>1. socket \in [Attempts -> {"idle", "connecting", "up", "dead"}]
      BY DEF ConnectorTyped
    <2> QED BY <1>1, <2>1 DEF Decided
  <1>5. /\ Once(offered) /\ Once(accepted) /\ Once(backlog)
        /\ Apart(offered, accepted) /\ Apart(offered, backlog) /\ Apart(accepted, backlog)
    BY DEF ListenerInv, InOnePlace
  <1>6. /\ \A j \in 1..Len(offered) : offered[j] \in Decided
        /\ \A j \in 1..Len(accepted) : accepted[j] = AcceptFailed \/ accepted[j] \in Decided
        /\ \A j \in 1..n : backlog[j] \in Decided
    BY DEF ListenerInv, PlacesAreDecided
  <1>7. ListenerTyped'
    BY <1>1, <1>2, <1>3, ListenerTypes DEF ListenerTyped
  <1>8. ChainsConserved' /\ HoldsNothing'
    BY <1>1, ListenerTypes DEF ChainsConserved, HoldsNothing
  <1>9. InOnePlace'
    <2>1. a # AcceptFailed
      BY NotFailed
    <2>2. Once(backlog')
      BY <1>2, <1>4, <1>5, <1>6 DEF Once
    <2>3. \A j \in 1..Len(backlog') : backlog'[j] = a \/ (j \in 1..n /\ backlog'[j] = backlog[j])
      BY <1>2
    <2> HIDE DEF n
    <2>4. Apart(offered, backlog')
      <3> SUFFICES ASSUME NEW i \in 1..Len(offered), NEW j \in 1..Len(backlog'), offered[i] = backlog'[j]
                   PROVE  offered[i] = AcceptFailed
        BY DEF Apart
      <3>1. backlog'[j] # a
        BY <1>4, <1>6
      <3> QED BY <1>5, <2>3, <3>1 DEF Apart, n
    <2>5. Apart(accepted, backlog')
      <3> SUFFICES ASSUME NEW i \in 1..Len(accepted), NEW j \in 1..Len(backlog'), accepted[i] = backlog'[j]
                   PROVE  accepted[i] = AcceptFailed
        BY DEF Apart
      <3>1. accepted[i] = AcceptFailed \/ backlog'[j] # a
        BY <1>4, <1>6
      <3> QED BY <1>5, <2>3, <3>1 DEF Apart, n
    <2> QED BY <1>1, <1>5, <2>2, <2>4, <2>5 DEF InOnePlace
  <1>10. PlacesAreDecided'
    BY <1>1, <1>2, <1>4, <1>6 DEF PlacesAreDecided
  <1>11. InTurn'
    <2> SUFFICES ASSUME starts <= 1 PROVE InTurn'
      BY <1>1 DEF InTurn
    <2>1. Out' = Out /\ Out \in Nat /\ Len(offered) \in Nat /\ Len(offered) <= Out
      BY <1>1, ListenerTypes DEF Out
    <2>2. /\ Out <= m
          /\ \A i \in 1..Len(offered) : offered[i] = arrived[i]
          /\ Out > Len(offered) => accepted[1] = arrived[Out]
          /\ m = Out + n
          /\ \A i \in 1..n : backlog[i] = arrived[Out + i]
      BY <1>1 DEF ListenerInv, InTurn
    <2>3. /\ \A i \in 1..Len(offered) : offered[i] = arrived'[i]
          /\ Out > Len(offered) => accepted[1] = arrived'[Out]
      BY <1>3, <2>1, <2>2
    <2>4. \A i \in 1..(n + 1) : backlog'[i] = arrived'[Out + i]
      BY <1>2, <1>3, <2>1, <2>2
    <2>5. /\ Out' = Out /\ Out <= Len(arrived') /\ Len(arrived') = Out + Len(backlog')
          /\ offered' = offered /\ accepted' = accepted
      BY <1>1, <1>2, <1>3, <2>1, <2>2
    <2>6. \A i \in 1..Len(backlog') : backlog'[i] = arrived'[Out + i]
      BY <1>2, <2>4
    <2> QED BY <2>3, <2>5, <2>6 DEF InTurn
  <1> QED BY <1>7, <1>8, <1>9, <1>10, <1>11 DEF ListenerInv

(***************************************************************************)
(* Both ends: a connection that is up has its place at the server.            *)
(***************************************************************************)
InSequence(s, a) == \E i \in 1..Len(s) : s[i] = a

AtServer(a) == InSequence(backlog, a) \/ InSequence(accepted, a) \/ InSequence(offered, a)

LEMMA RangeOfSequence ==
    ASSUME NEW S, NEW s \in Seq(S), NEW a
    PROVE  a \in Range(s) <=> InSequence(s, a)
  BY DEF Range, InSequence

LEMMA PlacesNow ==
    ASSUME ListenerTyped
    PROVE  BothEndsAgree <=> \A a \in Attempts : socket[a] = "up" => AtServer(a)
  <1>1. \A a : /\ a \in Range(backlog) <=> InSequence(backlog, a)
               /\ a \in Range(accepted) <=> InSequence(accepted, a)
               /\ a \in Range(offered) <=> InSequence(offered, a)
    BY RangeOfSequence DEF ListenerTyped
  <1> QED BY <1>1 DEF BothEndsAgree, AtServer

LEMMA PlacesThen ==
    ASSUME ListenerTyped'
    PROVE  BothEndsAgree' <=> \A a \in Attempts : socket'[a] = "up" => AtServer(a)'
  <1>1. \A a : /\ a \in Range(backlog') <=> InSequence(backlog', a)
               /\ a \in Range(accepted') <=> InSequence(accepted', a)
               /\ a \in Range(offered') <=> InSequence(offered', a)
    BY RangeOfSequence DEF ListenerTyped
  <1> QED BY <1>1 DEF BothEndsAgree, AtServer

\* No socket comes up, and who is up stays where it is.
LEMMA AgreeKeeps ==
    ASSUME ListenerTyped, ListenerTyped', BothEndsAgree,
           \A a \in Attempts : socket'[a] = "up" => socket[a] = "up" /\ (AtServer(a) => AtServer(a)')
    PROVE  BothEndsAgree'
  BY PlacesNow, PlacesThen

\* What Shut does to the other part: nothing comes up, and what is decided stays so.
LEMMA ShutDecides ==
    ASSUME ConnectorTyped, NEW gone, Shut(gone)
    PROVE  /\ Decided \subseteq Decided'
           /\ \A a \in Attempts : socket'[a] = "up" => socket[a] = "up" /\ a \notin gone
  <1>1. \A a \in Attempts :
           /\ socket'[a] # socket[a] => socket[a] # "idle" /\ socket'[a] = "dead"
           /\ a \in gone /\ socket[a] # "idle" => socket'[a] = "dead"
    BY ShutEffect
  <1> QED BY <1>1 DEF Decided

(***************************************************************************)
(* The invariant holds.                                                       *)
(***************************************************************************)
LEMMA InitIInv ==
    ASSUME Init
    PROVE  IInv
  <1>1. /\ socket = [a \in Attempts |-> "idle"] /\ client = [k \in Connectors |-> 0]
        /\ alive = Connectors /\ taken = {} /\ replies = {} /\ answers = {} /\ closing = {}
    BY DEF Init, ConnectorInit
  <1>2. /\ listening = "new" /\ pending = 0 /\ accepted = <<>> /\ rearm = 0 /\ starts = 0
        /\ acceptErrors = 0 /\ offered = <<>> /\ backlog = <<>> /\ arrived = <<>>
    BY DEF Init, ListenerInit
  <1>3. ConnectorTyped
    BY <1>1, AnAttempt DEF ConnectorTyped
  <1>4. Made /\ RepliesAreDecided /\ AnsweredOnce /\ WillBeTold
    BY <1>1 DEF Made, RepliesAreDecided, AnsweredOnce, WillBeTold
  <1>5. ListenerTyped /\ Len(accepted) = 0 /\ Len(offered) = 0 /\ Len(backlog) = 0 /\ Len(arrived) = 0
    BY <1>2 DEF ListenerTyped
  <1>6. ChainsConserved /\ HoldsNothing
    BY <1>2, <1>5 DEF ChainsConserved, HoldsNothing
  <1>7. InOnePlace /\ PlacesAreDecided
    BY <1>5 DEF InOnePlace, PlacesAreDecided, Once, Apart
  <1>8. InTurn
    <2>1. Out = 0
      BY <1>2, <1>5 DEF Out
    <2> QED BY <1>5, <2>1 DEF InTurn
  <1>9. BothEndsAgree
    BY <1>1 DEF BothEndsAgree
  <1> QED BY <1>3, <1>4, <1>5, <1>6, <1>7, <1>8, <1>9 DEF IInv, ConnectorInv, ListenerInv

\* A step of the connector's side that leaves the listener alone.
LEMMA ConnectorSide ==
    ASSUME IInv, ConnectorInv', UNCHANGED <<serverVars, backlog, arrived>>,
           Decided \subseteq Decided',
           \A a \in Attempts : socket'[a] = "up" => socket[a] = "up"
    PROVE  IInv'
  <1>1. ListenerInv'
    BY ListenerStill DEF IInv
  <1>2. \A a : AtServer(a) => AtServer(a)'
    BY DEF AtServer, serverVars
  <1>3. BothEndsAgree'
    BY <1>1, <1>2, AgreeKeeps DEF IInv, ListenerInv
  <1> QED BY <1>1, <1>3 DEF IInv

\* A step of the listener's side that leaves the connectors alone, and no connection
\* behind.
LEMMA ListenerSide ==
    ASSUME IInv, ListenerInv', UNCHANGED <<socket, clientVars>>,
           \A a \in Attempts : AtServer(a) => AtServer(a)'
    PROVE  IInv'
  <1>1. UNCHANGED <<socket, replies, client, answers, alive, taken, closing>>
    BY DEF clientVars
  <1>2. ConnectorInv'
    BY <1>1, StillKeeps DEF IInv, ConnectorInv, ConnectorTyped
  <1>3. BothEndsAgree'
    BY <1>1, AgreeKeeps DEF IInv, ListenerInv
  <1> QED BY <1>2, <1>3 DEF IInv

\* A step of the listener's side that closes sockets.
LEMMA ListenerShuts ==
    ASSUME IInv, ListenerInv', NEW gone, Shut(gone),
           UNCHANGED <<client, alive, taken, answers, closing>>,
           \A a \in Attempts : AtServer(a) /\ socket[a] = "up" => a \in gone \/ AtServer(a)'
    PROVE  IInv'
  <1>1. ConnectorInv'
    BY ShutKeeps DEF IInv, ConnectorInv, ConnectorTyped
  <1>2. \A a \in Attempts : socket'[a] = "up" => socket[a] = "up" /\ a \notin gone
    BY ShutDecides DEF IInv, ConnectorInv
  <1>3. BothEndsAgree'
    BY <1>2, AgreeKeeps DEF IInv, ListenerInv
  <1> QED BY <1>1, <1>3 DEF IInv

\* Where the things at the server go, action by action.
LEMMA AcceptMoves ==
    ASSUME ListenerInv, Accept, NEW a, AtServer(a)
    PROVE  AtServer(a)'
  <1>1. /\ backlog # <<>> /\ accepted' = Append(accepted, Head(backlog))
        /\ backlog' = Tail(backlog) /\ offered' = offered
    BY DEF Accept
  <1>2. /\ Len(backlog) \in Nat /\ Len(backlog) >= 1 /\ Len(backlog') = Len(backlog) - 1
        /\ \A j \in 1..(Len(backlog) - 1) : backlog'[j] = backlog[j + 1]
    BY <1>1, ListenerTypes
  <1>3. /\ Len(accepted) \in Nat /\ Len(accepted') = Len(accepted) + 1
        /\ accepted'[Len(accepted) + 1] = backlog[1]
        /\ \A j \in 1..Len(accepted) : accepted'[j] = accepted[j]
    <2>1. Head(backlog) \in Attempts \cup {AcceptFailed} /\ Head(backlog) = backlog[1]
      BY <1>1, ListenerTypes
    <2> QED BY <1>1, <2>1, ListenerTypes
  <1>4. CASE InSequence(backlog, a)
    <2>1. PICK j \in 1..Len(backlog) : backlog[j] = a
      BY <1>4 DEF InSequence
    <2>2. CASE j = 1
      BY <1>3, <2>1, <2>2 DEF AtServer, InSequence
    <2>3. CASE j # 1
      <3>1. j - 1 \in 1..(Len(backlog) - 1) /\ (j - 1) + 1 = j
        BY <1>2, <2>3
      <3>2. backlog'[j - 1] = a /\ j - 1 \in 1..Len(backlog')
        BY <1>2, <2>1, <3>1
      <3> QED BY <3>2 DEF AtServer, InSequence
    <2> QED BY <2>2, <2>3
  <1>5. CASE InSequence(accepted, a)
    BY <1>3, <1>5 DEF AtServer, InSequence
  <1>6. CASE InSequence(offered, a)
    BY <1>1, <1>6 DEF AtServer
  <1> QED BY <1>4, <1>5, <1>6 DEF AtServer

\* What is taken out of the accepted things is the one that was meant.
LEMMA OthersStay ==
    ASSUME ListenerInv, NEW i \in 1..Len(accepted), accepted' = RemoveAt(accepted, i),
           NEW a, InSequence(accepted, a), a # accepted[i]
    PROVE  InSequence(accepted', a)
  <1>1. accepted \in Seq(Attempts \cup {AcceptFailed}) /\ Len(accepted) \in Nat
    BY ListenerTypes
  <1>2. /\ Len(RemoveAt(accepted, i)) = Len(accepted) - 1
        /\ \A j \in 1..(Len(accepted) - 1) :
              RemoveAt(accepted, i)[j] = IF j < i THEN accepted[j] ELSE accepted[j + 1]
    BY <1>1, Erased
  <1>3. PICK j \in 1..Len(accepted) : accepted[j] = a /\ j # i
    BY DEF InSequence
  <1>4. CASE j < i
    <2>1. j \in 1..(Len(accepted) - 1)
      BY <1>1, <1>4
    <2> QED BY <1>2, <1>3, <1>4, <2>1 DEF InSequence
  <1>5. CASE j > i
    <2>1. j - 1 \in 1..(Len(accepted) - 1) /\ ~(j - 1 < i) /\ (j - 1) + 1 = j
      BY <1>1, <1>5
    <2> QED BY <1>2, <1>3, <2>1 DEF InSequence
  <1> QED BY <1>1, <1>3, <1>4, <1>5

LEMMA OnAcceptClientMoves ==
    ASSUME ListenerInv, NEW i \in 1..Len(accepted), OnAcceptClient(i), NEW a, AtServer(a)
    PROVE  AtServer(a)'
  <1>1. /\ accepted[i] # AcceptFailed /\ accepted' = RemoveAt(accepted, i)
        /\ offered' = Append(offered, accepted[i]) /\ backlog' = backlog
    BY DEF OnAcceptClient
  <1>2. /\ Len(offered) \in Nat /\ Len(offered') = Len(offered) + 1
        /\ offered'[Len(offered) + 1] = accepted[i]
        /\ \A j \in 1..Len(offered) : offered'[j] = offered[j]
    <2>1. accepted[i] \in Attempts
      BY <1>1, ListenerTypes
    <2> QED BY <1>1, <2>1, ListenerTypes
  <1>3. CASE InSequence(backlog, a)
    BY <1>1, <1>3 DEF AtServer
  <1>4. CASE InSequence(accepted, a)
    <2>1. CASE a = accepted[i]
      BY <1>2, <2>1 DEF AtServer, InSequence
    <2>2. CASE a # accepted[i]
      BY <1>1, <1>4, <2>2, OthersStay DEF AtServer
    <2> QED BY <2>1, <2>2
  <1>5. CASE InSequence(offered, a)
    BY <1>2, <1>5 DEF AtServer, InSequence
  <1> QED BY <1>3, <1>4, <1>5 DEF AtServer

\* Failures are added behind what was accepted.
LEMMA AddedMoves ==
    ASSUME Len(accepted) \in Nat, Len(accepted') \in Nat, Len(accepted') >= Len(accepted),
           \A i \in 1..Len(accepted) : accepted'[i] = accepted[i],
           backlog' = backlog, offered' = offered, NEW a, AtServer(a)
    PROVE  AtServer(a)'
  <1>1. InSequence(accepted, a) => InSequence(accepted', a)
    BY DEF InSequence
  <1> QED BY <1>1 DEF AtServer

LEMMA ServerStep ==
    ASSUME IInv, Server
    PROVE  IInv'
  <1>0. ListenerInv /\ ConnectorInv /\ ConnectorTyped
    BY DEF IInv, ConnectorInv
  <1>1. CASE CloseAcceptor
    <2>1. /\ Shut(Range(backlog)) /\ UNCHANGED <<client, alive, taken, answers, closing>>
          /\ accepted' = accepted \o [i \in 1..pending |-> AcceptFailed] /\ offered' = offered
      BY <1>1 DEF CloseAcceptor
    <2>2. ListenerInv'
      BY <1>0, <1>1, <2>1, ShutDecides, CloseAcceptorKeeps
    <2>3. ASSUME NEW a, InSequence(accepted, a) PROVE InSequence(accepted', a)
      <3>1. accepted \in Seq(Attempts \cup {AcceptFailed}) /\ pending \in Nat
        BY <1>0, ListenerTypes
      <3>2. PICK i \in 1..Len(accepted) : accepted[i] = a
        BY <2>3 DEF InSequence
      <3> DEFINE failed == [j \in 1..pending |-> AcceptFailed]
      <3>3. failed \in Seq(Attempts \cup {AcceptFailed}) /\ accepted' = accepted \o failed
        BY <2>1, <3>1
      <3> HIDE DEF failed
      <3>4. i \in 1..Len(accepted \o failed) /\ (accepted \o failed)[i] = a
        BY <3>1, <3>2, <3>3
      <3> QED BY <3>3, <3>4 DEF InSequence
    <2>4. \A a \in Attempts : AtServer(a) => a \in Range(backlog) \/ AtServer(a)'
      <3>1. \A a : InSequence(backlog, a) <=> a \in Range(backlog)
        BY <1>0, ListenerTypes, RangeOfSequence
      <3> QED BY <2>1, <2>3, <3>1 DEF AtServer
    <2> QED BY <2>1, <2>2, <2>4, ListenerShuts
  <1>2. CASE StartAccept
    <2>1. AsyncAccept(listening) /\ UNCHANGED <<offered, netVars, clientVars>>
      BY <1>2 DEF StartAccept
    <2>2. /\ Len(accepted) \in Nat /\ Len(accepted') \in Nat /\ Len(accepted') >= Len(accepted)
          /\ \A i \in 1..Len(accepted) : accepted'[i] = accepted[i]
      BY <1>0, <2>1, AsyncAccepts, ListenerTypes
    <2>3. backlog' = backlog /\ offered' = offered /\ UNCHANGED <<socket, clientVars>>
      BY <2>1 DEF netVars
    <2>4. \A a \in Attempts : AtServer(a) => AtServer(a)'
      BY <2>2, <2>3, AddedMoves
    <2> QED BY <1>0, <1>2, <2>3, <2>4, StartAcceptKeeps, ListenerSide
  <1>3. CASE Accept
    <2>1. UNCHANGED <<socket, clientVars>>
      BY <1>3 DEF Accept
    <2> QED BY <1>0, <1>3, <2>1, AcceptKeeps, AcceptMoves, ListenerSide
  <1>4. ASSUME NEW i \in 1..Len(accepted), OnAcceptClient(i) PROVE IInv'
    <2>1. /\ \/ UNCHANGED <<socket, replies>>
             \/ Shut({accepted[i]})
          /\ UNCHANGED <<client, alive, taken, answers, closing>>
      BY <1>4 DEF OnAcceptClient
    <2>2. \A a \in Attempts : AtServer(a) => AtServer(a)'
      BY <1>0, <1>4, OnAcceptClientMoves
    <2>3. CASE UNCHANGED <<socket, replies>>
      <3>1. UNCHANGED <<socket, clientVars>>
        BY <2>1, <2>3 DEF clientVars
      <3>2. Decided \subseteq Decided'
        BY <2>3 DEF Decided
      <3>3. ListenerInv'
        BY <1>0, <1>4, <3>2, OnAcceptClientKeeps
      <3> QED BY <2>2, <3>1, <3>3, ListenerSide
    <2>4. CASE Shut({accepted[i]})
      <3>1. Decided \subseteq Decided'
        BY <1>0, <2>4, ShutDecides
      <3>2. ListenerInv'
        BY <1>0, <1>4, <3>1, OnAcceptClientKeeps
      <3> QED BY <2>1, <2>2, <2>4, <3>2, ListenerShuts
    <2> QED BY <2>1, <2>3, <2>4
  <1>5. ASSUME NEW i \in 1..Len(accepted), OnAcceptError(i) PROVE IInv'
    <2>1. /\ accepted[i] = AcceptFailed /\ accepted' = RemoveAt(accepted, i)
          /\ backlog' = backlog /\ offered' = offered /\ UNCHANGED <<socket, clientVars>>
      BY <1>5 DEF OnAcceptError, netVars
    <2>2. ASSUME NEW a \in Attempts, AtServer(a) PROVE AtServer(a)'
      <3>1. a # accepted[i]
        BY <2>1, NotFailed
      <3>2. InSequence(accepted, a) => InSequence(accepted', a)
        BY <1>0, <2>1, <3>1, OthersStay
      <3> QED BY <2>1, <2>2, <3>2 DEF AtServer
    <2> QED BY <1>0, <1>5, <2>1, <2>2, OnAcceptErrorKeeps, ListenerSide
  <1> QED BY <1>1, <1>2, <1>3, <1>4, <1>5 DEF Server

LEMMA NetworkStep ==
    ASSUME IInv, NEW a \in Attempts, Establish(a) \/ Refuse(a)
    PROVE  IInv'
  <1>0. ListenerInv /\ ConnectorInv /\ ConnectorTyped
    BY DEF IInv, ConnectorInv
  <1>1. CASE Establish(a)
    <2>1. ListenerInv' /\ ConnectorInv'
      BY <1>0, <1>1, EstablishKeeps, EstablishInTurn
    <2>2. /\ socket' = [socket EXCEPT ![a] = "up"] /\ backlog' = Append(backlog, a)
          /\ accepted' = accepted /\ offered' = offered
      BY <1>1 DEF Establish, serverVars
    <2>3. /\ Len(backlog) \in Nat /\ Len(backlog') = Len(backlog) + 1
          /\ backlog'[Len(backlog) + 1] = a
          /\ \A j \in 1..Len(backlog) : backlog'[j] = backlog[j]
      BY <1>0, <2>2, ListenerTypes
    <2>4. ASSUME NEW b \in Attempts, socket'[b] = "up" PROVE AtServer(b)'
      <3>1. CASE b = a
        BY <2>3, <3>1 DEF AtServer, InSequence
      <3>2. CASE b # a
        <4>1. socket[b] = "up"
          BY <1>0, <2>2, <2>4, <3>2 DEF ConnectorTyped
        <4>2. AtServer(b)
          BY <1>0, <4>1, PlacesNow DEF IInv, ListenerInv
        <4>3. InSequence(backlog, b) => InSequence(backlog', b)
          BY <2>3 DEF InSequence
        <4> QED BY <2>2, <4>2, <4>3 DEF AtServer
      <3> QED BY <3>1, <3>2
    <2>5. BothEndsAgree'
      BY <2>1, <2>4, PlacesThen DEF ListenerInv
    <2> QED BY <2>1, <2>5 DEF IInv
  <1>2. CASE Refuse(a)
    <2>1. /\ Shut({a}) /\ UNCHANGED <<serverVars, backlog, arrived, client, alive, taken,
                                      answers, closing>>
      BY <1>2 DEF Refuse
    <2>2. ConnectorInv'
      BY <1>0, <2>1, ShutKeeps DEF ConnectorTyped
    <2> QED BY <1>0, <2>1, <2>2, ShutDecides, ConnectorSide
  <1> QED BY <1>1, <1>2

LEMMA ConnectorStep ==
    ASSUME IInv,
           \/ \E t \in Transports : CloseImpl(t)
           \/ \E a \in Attempts, ok \in BOOLEAN : HandleConnect(a, ok)
           \/ \E k \in Connectors : Connect(k) \/ Close(k) \/ DropConnector(k)
    PROVE  IInv'
  <1>0. ConnectorInv /\ ConnectorTyped
    BY DEF IInv, ConnectorInv
  <1>1. ASSUME NEW t \in Transports, CloseImpl(t) PROVE IInv'
    <2>1. /\ closing' = closing \ {t} /\ UNCHANGED <<serverVars, backlog, arrived, client, answers>>
          /\ \/ \E gone : Shut(gone) /\ alive' \subseteq alive /\ taken' \subseteq taken
             \/ UNCHANGED <<socket, replies, alive, taken>>
      BY <1>1 DEF CloseImpl
    <2>2. closing' \subseteq Transports
      BY <1>0, <2>1 DEF ConnectorTyped
    <2>3. ASSUME NEW gone, Shut(gone), alive' \subseteq alive, taken' \subseteq taken
          PROVE  IInv'
      <3>1. ConnectorInv'
        BY <1>0, <2>1, <2>2, <2>3, ShutKeeps
      <3> QED BY <1>0, <2>1, <2>3, <3>1, ShutDecides, ConnectorSide
    <2>4. CASE UNCHANGED <<socket, replies, alive, taken>>
      <3>1. ConnectorInv'
        BY <1>0, <2>1, <2>2, <2>4, StillKeeps
      <3> QED BY <2>1, <2>4, <3>1, ConnectorSide DEF Decided
    <2> QED BY <2>1, <2>3, <2>4
  <1>2. ASSUME NEW a \in Attempts, NEW ok \in BOOLEAN, HandleConnect(a, ok) PROVE IInv'
    <2>1. UNCHANGED <<serverVars, backlog, arrived, socket>>
      BY <1>2 DEF HandleConnect, netVars
    <2>2. ConnectorInv'
      BY <1>0, <1>2, HandleConnectKeeps
    <2> QED BY <2>1, <2>2, ConnectorSide DEF Decided
  <1>3. ASSUME NEW k \in Connectors, Connect(k) PROVE IInv'
    <2>1. UNCHANGED <<serverVars, backlog, arrived>>
      BY <1>3 DEF Connect
    <2> QED BY <1>0, <1>3, <2>1, ConnectKeeps, ConnectorSide
  <1>4. ASSUME NEW k \in Connectors, Close(k) PROVE IInv'
    <2>1. /\ closing' = closing \cup {Current(k)}
          /\ UNCHANGED <<serverVars, backlog, arrived, socket, client, alive, taken,
                         replies, answers>>
      BY <1>4 DEF Close
    <2>2. closing' \subseteq Transports
      BY <1>0, <2>1, CurrentTransport DEF ConnectorTyped
    <2>3. ConnectorInv'
      BY <1>0, <2>1, <2>2, StillKeeps
    <2> QED BY <2>1, <2>3, ConnectorSide DEF Decided
  <1>5. ASSUME NEW k \in Connectors, DropConnector(k) PROVE IInv'
    <2>1. /\ Shut({Current(k)} \cap (Attempts \ taken)) /\ alive' \subseteq alive
          /\ UNCHANGED <<serverVars, backlog, arrived, client, taken, answers, closing>>
      BY <1>5 DEF DropConnector
    <2>2. ConnectorInv'
      BY <1>0, <2>1, ShutKeeps DEF ConnectorTyped
    <2> QED BY <1>0, <2>1, <2>2, ShutDecides, ConnectorSide
  <1> QED BY <1>1, <1>2, <1>3, <1>4, <1>5

LEMMA UserStep ==
    ASSUME IInv,
           \/ Start \/ Stop \/ DropListener \/ AcceptFails
           \/ \E i \in 1..Len(accepted) : AcceptThrows(i)
    PROVE  IInv'
  <1>0. ListenerInv /\ ConnectorInv /\ ConnectorTyped
    BY DEF IInv, ConnectorInv
  <1>1. CASE Start
    <2>1. AsyncAccept("open") /\ UNCHANGED <<offered, netVars, clientVars>>
      BY <1>1 DEF Start
    <2>2. /\ Len(accepted) \in Nat /\ Len(accepted') \in Nat /\ Len(accepted') >= Len(accepted)
          /\ \A i \in 1..Len(accepted) : accepted'[i] = accepted[i]
      BY <1>0, <2>1, AsyncAccepts, ListenerTypes
    <2>3. backlog' = backlog /\ offered' = offered /\ UNCHANGED <<socket, clientVars>>
      BY <2>1 DEF netVars
    <2>4. \A a \in Attempts : AtServer(a) => AtServer(a)'
      BY <2>2, <2>3, AddedMoves
    <2> QED BY <1>0, <1>1, <2>3, <2>4, StartKeeps, ListenerSide
  <1>2. CASE Stop
    <2>1. UNCHANGED <<accepted, offered, backlog, socket, clientVars>>
      BY <1>2 DEF Stop
    <2>2. \A a \in Attempts : AtServer(a) => AtServer(a)'
      BY <2>1 DEF AtServer
    <2> QED BY <1>0, <1>2, <2>1, <2>2, StopKeeps, ListenerSide
  <1>3. CASE AcceptFails
    <2>1. /\ accepted' = Append(accepted, AcceptFailed)
          /\ UNCHANGED <<offered, backlog, socket, clientVars>>
      BY <1>3 DEF AcceptFails
    <2>2. /\ Len(accepted) \in Nat /\ Len(accepted') \in Nat /\ Len(accepted') >= Len(accepted)
          /\ \A i \in 1..Len(accepted) : accepted'[i] = accepted[i]
      BY <1>0, <2>1, ListenerTypes
    <2>3. \A a \in Attempts : AtServer(a) => AtServer(a)'
      BY <2>1, <2>2, AddedMoves
    <2> QED BY <1>0, <1>3, <2>1, <2>3, AcceptFailsKeeps, ListenerSide
  <1>4. CASE DropListener
    <2> DEFINE gone == (Range(backlog) \cup Range(accepted)) \cap Attempts
    <2>1. /\ listening \in {"open", "closed"} /\ rearm = 0 /\ listening' = "dead"
          /\ pending' = 0 /\ accepted' = <<>> /\ backlog' = <<>> /\ Shut(gone)
          /\ UNCHANGED <<rearm, starts, acceptErrors, offered, arrived,
                         client, alive, taken, answers, closing>>
      BY <1>4 DEF DropListener
    <2>2. ListenerInv'
      BY <1>0, <2>1, ShutDecides, EndKeeps
    <2>3. \A a \in Attempts : AtServer(a) => a \in gone \/ AtServer(a)'
      <3>1. \A a : /\ InSequence(backlog, a) <=> a \in Range(backlog)
                   /\ InSequence(accepted, a) <=> a \in Range(accepted)
        BY <1>0, ListenerTypes, RangeOfSequence
      <3> QED BY <2>1, <3>1 DEF AtServer
    <2> QED BY <2>1, <2>2, <2>3, ListenerShuts
  <1>5. ASSUME NEW i \in 1..Len(accepted), AcceptThrows(i) PROVE IInv'
    <2> DEFINE gone == {a \in Attempts : socket[a] = "up"}
    <2>1. /\ listening' = "dead"
          /\ pending' = 0 /\ accepted' = <<>> /\ rearm' = 0 /\ backlog' = <<>> /\ Shut(gone)
          /\ UNCHANGED <<starts, acceptErrors, offered, arrived,
                         client, alive, taken, answers, closing>>
      BY <1>5 DEF AcceptThrows
    <2>2. listening # "new"
      BY <1>0, ListenerTypes DEF HoldsNothing, ChainsConserved
    <2>3. ListenerInv'
      BY <1>0, <2>1, <2>2, ShutDecides, EndKeeps
    <2>4. \A a \in Attempts : AtServer(a) /\ socket[a] = "up" => a \in gone \/ AtServer(a)'
      OBVIOUS
    <2> QED BY <2>1, <2>3, <2>4, ListenerShuts
  <1> QED BY <1>1, <1>2, <1>3, <1>4, <1>5

LEMMA NextIInv ==
    ASSUME IInv, [Next]_vars
    PROVE  IInv'
  <1>1. CASE UNCHANGED vars
    <2>1. UNCHANGED <<serverVars, netVars, clientVars>>
      BY <1>1 DEF vars
    <2>2. UNCHANGED <<socket, replies, client, answers, alive, taken, closing, backlog, arrived>>
      BY <2>1 DEF netVars, clientVars
    <2>3. ConnectorInv'
      BY <2>2, StillKeeps DEF IInv, ConnectorInv, ConnectorTyped
    <2> QED BY <2>1, <2>2, <2>3, ConnectorSide DEF Decided
  <1>2. CASE Next
    BY <1>2, ServerStep, NetworkStep, ConnectorStep, UserStep DEF Next, Work
  <1> QED BY <1>1, <1>2

\* The invariant is inductive.
THEOREM Invariance == Spec => []IInv
  BY InitIInv, NextIInv, PTL DEF Spec

\* What the invariant says in the words of the specification.
LEMMA ListenerIsConsistent ==
    ASSUME IInv
    PROVE  ListenerConsistent
  <1>1. TypeOK
    BY AnAttempt DEF IInv, ConnectorInv, ListenerInv, ConnectorTyped, ListenerTyped, TypeOK
  <1>2. OfferedInOrder
    <2>1. ASSUME NEW i \in 1..Len(offered), NEW j \in 1..Len(offered), offered[i] = offered[j]
          PROVE  i = j
      <3>1. offered[i] # AcceptFailed
        BY NotFailed, ListenerTypes DEF IInv
      <3> QED BY <2>1, <3>1 DEF IInv, ListenerInv, InOnePlace, Once
    <2>2. ASSUME starts <= 1 PROVE IsPrefix(offered, arrived)
      <3>1. offered \in Seq(Attempts) /\ arrived \in Seq(Attempts) /\ Len(offered) \in Nat /\ Len(arrived) \in Nat
        BY ListenerTypes DEF IInv
      <3>2. Out <= Len(arrived) /\ \A i \in 1..Len(offered) : offered[i] = arrived[i]
        BY <2>2 DEF IInv, ListenerInv, InTurn
      <3>3. Len(offered) <= Len(arrived)
        BY <3>1, <3>2 DEF Out
      <3>4. SubSeq(offered, 1, Len(offered)) = SubSeq(arrived, 1, Len(offered))
        BY <3>1, <3>2, <3>3
      <3> QED BY <3>3, <3>4 DEF IsPrefix
    <2> QED BY <2>1, <2>2 DEF OfferedInOrder
  <1> QED BY <1>1, <1>2 DEF ListenerConsistent, IInv, ListenerInv

LEMMA ConnectorIsConsistent ==
    ASSUME IInv
    PROVE  ConnectorConsistent
  <1>1. CurrentIsTold
    <2> SUFFICES ASSUME NEW k \in alive, Settled(k)
                 PROVE  \E r \in answers : r.told = Current(k) /\ r.ok
      BY DEF CurrentIsTold
    <2>1. client[k] > 0 /\ socket[Current(k)] = "up" /\ \A r \in replies : r[1][1] # k
      BY DEF Settled
    <2>2. <<Current(k), TRUE>> \notin replies
      BY <2>1 DEF Current
    <2> QED BY <2>1, <2>2 DEF IInv, ConnectorInv, WillBeTold
  <1> QED BY <1>1 DEF ConnectorConsistent, IInv, ConnectorInv

\* However often the listener is started and stopped, and whatever fails: no chain of
\* accepts is lost or doubled, no connection is offered twice, and those of a listener
\* that was started once are offered in the order in which they came.
THEOREM ListenerOffersEachOnce == Spec => []ListenerConsistent
  BY Invariance, ListenerIsConsistent, PTL

\* Whoever connects again, closes or goes away before the answer: each connect() is
\* answered once at most, and what is connected is known at both ends.
THEOREM ConnectsAreAnsweredOnce == Spec => []ConnectorConsistent
  BY Invariance, ConnectorIsConsistent, PTL
=============================================================================
