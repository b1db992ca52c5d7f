--------------------------- MODULE UdpServer_proofs ---------------------------
(***************************************************************************)
(* Proofs about UdpServer, for any peers, any traffic and any bounds: the     *)
(* discipline of the write queue, the renewal of the one receive, and what     *)
(* each client is given, from which buffers and in which order.                *)
(***************************************************************************)
EXTENDS UdpServer, FiniteSetTheorems, WellFoundedInduction, TLAPS

(***************************************************************************)
(* Types.                                                                    *)
(***************************************************************************)
Datagram == [from : Endpoints, number : Nat]

Writes      == [kind : {"write"}, msg : Message]
Answers     == [kind : {"sent"}, msg : Message, ok : BOOLEAN]
Arrivals    == [kind : {"received"}, ok : {TRUE}, data : Datagram]
Errors      == [kind : {"received"}, ok : {FALSE}]
Closes      == [kind : {"close"}]
ClientStops == [kind : {"client_close"}, at : Endpoints]
SetReads    == [kind : {"set_read"}, client : Nat]
Pushes      == [kind : {"push"}, client : Nat, buf : Nat]

Task == Writes \cup Answers \cup Arrivals \cup Errors \cup Closes \cup ClientStops
          \cup SetReads \cup Pushes

ClientType ==
    [ep : Endpoints, read : BOOLEAN, queue : Seq(Nat), cache : Seq(Nat),
     asked : Nat, closed : Nat, given : Seq(Datagram), got : Seq(Datagram)]

SendTyped ==
    /\ strand \in Seq(Task)
    /\ queue \in Seq(Message) /\ ops \in Seq(Message)
    /\ accepted \in Seq(Message) /\ reported \in Seq(Message)

ServerTyped ==
    /\ receiving \in BOOLEAN /\ active \in BOOLEAN
    /\ ep \in Endpoints \cup {NoEndpoint}
    /\ accepting \in BOOLEAN /\ shut \in BOOLEAN
    /\ client \in Seq(ClientType) /\ heap \in Seq(Datagram)
    /\ clients \in [Endpoints -> Nat] /\ \A e \in Endpoints : clients[e] <= Len(client)
    /\ arrived \in Nat /\ arrived <= Len(Traffic)
    /\ failures \in Nat /\ failures <= MaxFailures

\* The tasks that are posted.
LEMMA TaskMade ==
    /\ \A m \in Message : [kind |-> "write", msg |-> m] \in Task
    /\ \A m \in Message, ok \in BOOLEAN : [kind |-> "sent", msg |-> m, ok |-> ok] \in Task
    /\ \A d \in Datagram : [kind |-> "received", ok |-> TRUE, data |-> d] \in Task
    /\ [kind |-> "received", ok |-> FALSE] \in Task
    /\ [kind |-> "close"] \in Task
    /\ \A e \in Endpoints : CloseTask(e) \in Task /\ CloseTask(e).kind = "client_close"
    /\ \A c \in Nat : SetReadTask(c) \in Task /\ SetReadTask(c).kind = "set_read"
    /\ \A c, b \in Nat : /\ PushTask(c, b) \in Task /\ PushTask(c, b).kind = "push"
                         /\ PushTask(c, b).client = c /\ PushTask(c, b).buf = b
  <1>1. \A m \in Message : [kind |-> "write", msg |-> m] \in Writes
    BY DEF Writes
  <1>2. \A m \in Message, ok \in BOOLEAN : [kind |-> "sent", msg |-> m, ok |-> ok] \in Answers
    BY DEF Answers
  <1>3. \A d \in Datagram : [kind |-> "received", ok |-> TRUE, data |-> d] \in Arrivals
    BY DEF Arrivals
  <1>4. [kind |-> "received", ok |-> FALSE] \in Errors /\ [kind |-> "close"] \in Closes
    BY DEF Errors, Closes
  <1>5. \A e \in Endpoints : CloseTask(e) \in ClientStops /\ CloseTask(e).kind = "client_close"
    BY DEF ClientStops, CloseTask
  <1>6. \A c \in Nat : SetReadTask(c) \in SetReads /\ SetReadTask(c).kind = "set_read"
    BY DEF SetReads, SetReadTask
  <1>7. \A c, b \in Nat : /\ PushTask(c, b) \in Pushes /\ PushTask(c, b).kind = "push"
                          /\ PushTask(c, b).client = c /\ PushTask(c, b).buf = b
    BY DEF Pushes, PushTask
  <1>8. /\ Writes \subseteq Task /\ Answers \subseteq Task /\ Arrivals \subseteq Task
        /\ Errors \subseteq Task /\ Closes \subseteq Task /\ ClientStops \subseteq Task
        /\ SetReads \subseteq Task /\ Pushes \subseteq Task
    BY Zenon DEF Task
  <1> QED BY <1>1, <1>2, <1>3, <1>4, <1>5, <1>6, <1>7, <1>8

\* What a task is, by its kind.
LEMMA TaskKind ==
    ASSUME NEW t \in Task
    PROVE  /\ t.kind = "write" => t.msg \in Message
           /\ t.kind = "sent" => t.msg \in Message /\ t.ok \in BOOLEAN
           /\ t.kind = "received" => t.ok \in BOOLEAN /\ (t.ok => t.data \in Datagram)
           /\ t.kind = "client_close" => t.at \in Endpoints
           /\ t.kind = "set_read" => t.client \in Nat
           /\ t.kind = "push" => t.client \in Nat /\ t.buf \in Nat
  BY DEF Task, Writes, Answers, Arrivals, Errors, Closes, ClientStops, SetReads, Pushes

(***************************************************************************)
(* What the steps do to the tasks of the strand.                              *)
(***************************************************************************)

\* A task is posted.
LEMMA Posting ==
    ASSUME strand \in Seq(Task), NEW t \in Task, strand' = Append(strand, t), NEW k
    PROVE  /\ strand' \in Seq(Task)
           /\ \A i \in Tasks(k) : i \in Tasks(k)' /\ strand'[i] = strand[i] /\ i <= Len(strand)
           /\ \A i \in Tasks(k)' : \/ i \in Tasks(k) /\ strand'[i] = strand[i]
                                   \/ i = Len(strand) + 1 /\ t.kind = k /\ strand'[i] = t
           /\ t.kind = k => Len(strand) + 1 \in Tasks(k)' /\ strand'[Len(strand) + 1] = t
  <1>1. /\ strand' \in Seq(Task) /\ Len(strand') = Len(strand) + 1 /\ Len(strand) \in Nat
        /\ \A i \in 1..Len(strand) : strand'[i] = strand[i]
        /\ strand'[Len(strand) + 1] = t
    OBVIOUS
  <1> QED BY <1>1 DEF Tasks

\* The task at the head is run.
LEMMA Running ==
    ASSUME strand \in Seq(Task), strand # <<>>, strand' = Tail(strand) \o <<>>, NEW k
    PROVE  /\ strand' \in Seq(Task) /\ Head(strand) \in Task
           /\ \A i \in Tasks(k) : \/ i = 1 /\ Head(strand) = strand[i] /\ Head(strand).kind = k
                                  \/ i > 1 /\ i - 1 \in Tasks(k)' /\ strand'[i - 1] = strand[i]
           /\ \A i \in Tasks(k)' : i + 1 \in Tasks(k) /\ strand'[i] = strand[i + 1]
           /\ Head(strand).kind = k => 1 \in Tasks(k) /\ strand[1] = Head(strand)
  <1>1. /\ Len(strand) \in Nat /\ Len(strand) > 0 /\ strand' \in Seq(Task)
        /\ Len(strand') = Len(strand) - 1 /\ Head(strand) = strand[1] /\ strand[1] \in Task
        /\ \A i \in 1..(Len(strand) - 1) : strand'[i] = strand[i + 1]
    OBVIOUS
  <1> QED BY <1>1 DEF Tasks

LEMMA Joined ==
    ASSUME NEW S, NEW r \in Seq(S), NEW one \in Seq(S), Len(one) = 1
    PROVE  /\ r \o one \in Seq(S) /\ Len(r \o one) = Len(r) + 1
           /\ \A i \in 1..Len(r) : (r \o one)[i] = r[i]
           /\ (r \o one)[Len(r) + 1] = one[1]
  OBVIOUS

\* The task at the head is run, and posts one more.
LEMMA TailAndOne ==
    ASSUME NEW S, NEW s \in Seq(S), s # <<>>, NEW t \in S
    PROVE  /\ Tail(s) \o <<t>> \in Seq(S) /\ Len(Tail(s) \o <<t>>) = Len(s)
           /\ \A i \in 1..(Len(s) - 1) : (Tail(s) \o <<t>>)[i] = s[i + 1]
           /\ (Tail(s) \o <<t>>)[Len(s)] = t
  <1> DEFINE r == Tail(s)
             one == <<t>>
             n == Len(s) - 1
  <1>1. /\ n \in Nat /\ n + 1 = Len(s) /\ r \in Seq(S) /\ Len(r) = n
        /\ \A i \in 1..n : r[i] = s[i + 1]
    OBVIOUS
  <1>2. one \in Seq(S) /\ Len(one) = 1 /\ one[1] = t
    OBVIOUS
  <1> HIDE DEF r, one, n
  <1>3. /\ r \o one \in Seq(S) /\ Len(r \o one) = n + 1
        /\ \A i \in 1..n : (r \o one)[i] = r[i]
        /\ (r \o one)[n + 1] = t
    BY <1>1, <1>2, Joined
  <1>4. /\ r \o one \in Seq(S) /\ Len(r \o one) = Len(s)
        /\ \A i \in 1..n : (r \o one)[i] = s[i + 1]
        /\ (r \o one)[Len(s)] = t
    BY <1>1, <1>3
  <1> QED BY <1>4 DEF r, one, n

LEMMA MovedOn ==
    ASSUME strand \in Seq(Task), strand # <<>>, NEW t, Len(strand') = Len(strand),
           \A i \in 1..(Len(strand) - 1) : strand'[i] = strand[i + 1],
           strand'[Len(strand)] = t, NEW k
    PROVE  /\ Head(strand) \in Task
           /\ \A i \in Tasks(k) : \/ i = 1 /\ Head(strand) = strand[i] /\ Head(strand).kind = k
                                  \/ i > 1 /\ i - 1 \in Tasks(k)' /\ strand'[i - 1] = strand[i]
           /\ \A i \in Tasks(k)' :
                 \/ i + 1 \in Tasks(k) /\ strand'[i] = strand[i + 1] /\ i < Len(strand)
                 \/ i = Len(strand) /\ t.kind = k /\ strand'[i] = t
           /\ Head(strand).kind = k => 1 \in Tasks(k) /\ strand[1] = Head(strand)
           /\ t.kind = k => Len(strand) \in Tasks(k)' /\ strand'[Len(strand)] = t
  <1>1. Len(strand) \in Nat /\ Len(strand) > 0 /\ Head(strand) = strand[1] /\ strand[1] \in Task
    OBVIOUS
  <1> QED BY <1>1 DEF Tasks

LEMMA RunningPosts ==
    ASSUME strand \in Seq(Task), strand # <<>>, NEW t \in Task, strand' = Tail(strand) \o <<t>>,
           NEW k
    PROVE  /\ strand' \in Seq(Task) /\ Head(strand) \in Task
           /\ \A i \in Tasks(k) : \/ i = 1 /\ Head(strand) = strand[i] /\ Head(strand).kind = k
                                  \/ i > 1 /\ i - 1 \in Tasks(k)' /\ strand'[i - 1] = strand[i]
           /\ \A i \in Tasks(k)' :
                 \/ i + 1 \in Tasks(k) /\ strand'[i] = strand[i + 1] /\ i < Len(strand)
                 \/ i = Len(strand) /\ t.kind = k /\ strand'[i] = t
           /\ Head(strand).kind = k => 1 \in Tasks(k) /\ strand[1] = Head(strand)
           /\ t.kind = k => Len(strand) \in Tasks(k)' /\ strand'[Len(strand)] = t
  <1>1. /\ strand' \in Seq(Task) /\ Len(strand') = Len(strand)
        /\ \A i \in 1..(Len(strand) - 1) : strand'[i] = strand[i + 1]
        /\ strand'[Len(strand)] = t
    BY TailAndOne, Zenon
  <1> QED BY <1>1, MovedOn, Zenon

\* Tasks of this kind are neither posted nor run.
Quiet(k) ==
    \/ strand' = strand
    \/ \E t \in Task : t.kind # k /\ strand' = Append(strand, t)
    \/ /\ strand # <<>> /\ Head(strand).kind # k
       /\ \/ strand' = Tail(strand) \o <<>>
          \/ \E t \in Task : t.kind # k /\ strand' = Tail(strand) \o <<t>>

\* They stay where they are, or come nearer to the head by one.
Stays(k) ==
    /\ \A i \in Tasks(k)' : i \in Tasks(k) /\ strand'[i] = strand[i]
    /\ \A i \in Tasks(k) : i \in Tasks(k)' /\ strand'[i] = strand[i]

Shifts(k) ==
    /\ \A i \in Tasks(k)' : i + 1 \in Tasks(k) /\ strand'[i] = strand[i + 1]
    /\ \A i \in Tasks(k) : i - 1 \in Tasks(k)' /\ strand'[i - 1] = strand[i]

LEMMA QuietEffect ==
    ASSUME strand \in Seq(Task), NEW k, Quiet(k)
    PROVE  strand' \in Seq(Task) /\ (Stays(k) \/ Shifts(k))
  <1>1. CASE strand' = strand
    BY <1>1 DEF Stays, Tasks
  <1>2. ASSUME NEW t \in Task, t.kind # k, strand' = Append(strand, t)
        PROVE  strand' \in Seq(Task) /\ Stays(k)
    BY <1>2, Posting DEF Stays
  <1>3. CASE strand # <<>> /\ Head(strand).kind # k /\ strand' = Tail(strand) \o <<>>
    BY <1>3, Running DEF Shifts
  <1>4. ASSUME strand # <<>>, Head(strand).kind # k,
               NEW t \in Task, t.kind # k, strand' = Tail(strand) \o <<t>>
        PROVE  strand' \in Seq(Task) /\ Shifts(k)
    BY <1>4, RunningPosts DEF Shifts
  <1> QED BY <1>1, <1>2, <1>3, <1>4 DEF Quiet

(***************************************************************************)
(* The sending side.  That a handler finds its datagram at the front needs    *)
(* that there is one send at a time, and the other way round.                *)
(***************************************************************************)
Numbered == \A n \in 1..Len(accepted) : accepted[n].number = n

\* Nothing is queued, or the front is on the socket, or its answer is in the strand.
OneSend ==
    \/ queue = <<>> /\ ops = <<>> /\ Tasks("sent") = {}
    \/ queue # <<>> /\ Len(ops) = 1 /\ ops[1] = Head(queue) /\ Tasks("sent") = {}
    \/ /\ queue # <<>> /\ ops = <<>>
       /\ \E i \in Tasks("sent") : Tasks("sent") = {i} /\ strand[i].msg = Head(queue)

SendInv == SendTyped /\ Numbered /\ OneSend /\ DatagramsConserved

\* Where the datagrams given to write_to() are, in parts.
Settled ==
    /\ Passed <= Len(accepted)
    /\ \A n \in 1..Len(reported) : reported[n] = accepted[n]
    /\ \A n \in 1..Len(queue) : queue[n] = accepted[Len(reported) + n]

AllCome == \A n \in (Passed + 1)..Len(accepted) : \E i \in Tasks("write") : strand[i].msg = accepted[n]
NoOther == \A i \in Tasks("write") : \E n \in (Passed + 1)..Len(accepted) : strand[i].msg = accepted[n]
InTurn  == \A i, j \in Tasks("write") : i < j => strand[i].msg.number < strand[j].msg.number
Coming  == AllCome /\ NoOther /\ InTurn

LEMMA Parts == DatagramsConserved <=> Settled /\ Coming
  BY Zenon DEF DatagramsConserved, Settled, Coming, AllCome, NoOther, InTurn

LEMMA TaskPlaces ==
    ASSUME SendTyped, NEW k
    PROVE  /\ \A i \in Tasks(k) : i \in Nat /\ i > 0 /\ strand[i] \in Task /\ strand[i].kind = k
           /\ \A i \in Tasks(k)' : i \in Nat /\ i > 0
  <1>1. strand \in Seq(Task)
    BY DEF SendTyped
  <1> QED BY <1>1 DEF Tasks

\* The posted writes move, and nothing else changes.
LEMMA ComingKept ==
    ASSUME SendTyped, Coming, UNCHANGED <<accepted, Passed>>, Stays("write") \/ Shifts("write")
    PROVE  Coming'
  <1>1. AllCome'
    <2> SUFFICES ASSUME NEW n \in (Passed + 1)..Len(accepted)
                 PROVE  \E i \in Tasks("write")' : strand'[i].msg = accepted[n]
      BY DEF AllCome
    <2>1. PICK i \in Tasks("write") : strand[i].msg = accepted[n]
      BY DEF Coming, AllCome
    <2> QED BY <2>1 DEF Stays, Shifts
  <1>2. ASSUME NEW i \in Tasks("write")'
        PROVE  \E j \in Tasks("write") : strand'[i] = strand[j] /\ (j = i \/ j = i + 1)
    BY DEF Stays, Shifts
  <1>3. NoOther'
    <2> SUFFICES ASSUME NEW i \in Tasks("write")'
                 PROVE  \E n \in (Passed + 1)..Len(accepted) : strand'[i].msg = accepted[n]
      BY DEF NoOther
    <2>1. PICK j \in Tasks("write") : strand'[i] = strand[j]
      BY <1>2
    <2>2. PICK n \in (Passed + 1)..Len(accepted) : strand[j].msg = accepted[n]
      BY DEF Coming, NoOther
    <2> QED BY <2>1, <2>2
  <1>4. InTurn'
    <2> SUFFICES ASSUME NEW i \in Tasks("write")', NEW j \in Tasks("write")', i < j
                 PROVE  strand'[i].msg.number < strand'[j].msg.number
      BY DEF InTurn
    <2>1. i \in Nat /\ j \in Nat
      BY TaskPlaces
    <2>2. CASE Stays("write")
      BY <2>2 DEF Coming, InTurn, Stays
    <2>3. CASE Shifts("write")
      <3>1. i + 1 \in Tasks("write") /\ j + 1 \in Tasks("write") /\ i + 1 < j + 1
            /\ strand'[i] = strand[i + 1] /\ strand'[j] = strand[j + 1]
        BY <2>1, <2>3 DEF Shifts
      <3> QED BY <3>1 DEF Coming, InTurn
    <2> QED BY <2>2, <2>3
  <1> QED BY <1>1, <1>3, <1>4 DEF Coming

\* A step that leaves the sends and the posted writes alone.
Silent == Quiet("write") /\ Quiet("sent") /\ UNCHANGED <<queue, ops, accepted, reported>>

LEMMA SilentSends == ASSUME SendInv, Silent PROVE SendInv'
  <1>1. /\ SendTyped /\ strand \in Seq(Task)
        /\ UNCHANGED <<queue, ops, accepted, reported, Passed>>
    BY DEF Silent, SendInv, SendTyped, Passed
  <1>2. strand' \in Seq(Task) /\ (Stays("write") \/ Shifts("write"))
                              /\ (Stays("sent") \/ Shifts("sent"))
    BY <1>1, QuietEffect DEF Silent
  <1>3. SendTyped' /\ Numbered' /\ Settled'
    BY <1>1, <1>2, Parts DEF SendInv, SendTyped, Numbered, Settled
  <1>4. OneSend'
    <2>1. CASE Tasks("sent") = {}
      <3>1. Tasks("sent")' = {}
        BY <1>2, <2>1 DEF Stays, Shifts
      <3> QED BY <1>1, <2>1, <3>1 DEF SendInv, OneSend
    <2>2. ASSUME NEW i \in Tasks("sent"), Tasks("sent") = {i}
          PROVE  \E j \in Tasks("sent")' : Tasks("sent")' = {j} /\ strand'[j].msg = strand[i].msg
      <3>1. CASE Stays("sent")
        BY <2>2, <3>1 DEF Stays
      <3>2. CASE Shifts("sent")
        <4>1. i - 1 \in Tasks("sent")' /\ strand'[i - 1] = strand[i] /\ i \in Nat
          BY <1>1, <3>2, TaskPlaces DEF Shifts
        <4>2. ASSUME NEW j \in Tasks("sent")' PROVE j = i - 1
          <5>1. j + 1 = i /\ j \in Nat
            BY <1>1, <2>2, <3>2, TaskPlaces DEF Shifts
          <5> QED BY <4>1, <5>1
        <4> QED BY <4>1, <4>2
      <3> QED BY <1>2, <3>1, <3>2
    <2> QED BY <1>1, <2>1, <2>2 DEF SendInv, OneSend
  <1>5. Coming'
    BY <1>1, <1>2, ComingKept, Parts DEF SendInv
  <1>6. DatagramsConserved'
    BY <1>3, <1>5, Zenon DEF DatagramsConserved, Settled, Coming, AllCome, NoOther, InTurn
  <1> QED BY <1>3, <1>4, <1>6 DEF SendInv

\* One more datagram is given to write_to().
LEMMA WriteToSends ==
    ASSUME SendInv, NEW to \in Endpoints \cup {NoEndpoint}, WriteTo(to)
    PROVE  SendInv'
  <1> DEFINE m == [number |-> Len(accepted) + 1, to |-> to]
             t == [kind |-> "write", msg |-> m]
  <1>1. /\ SendTyped /\ strand \in Seq(Task) /\ accepted \in Seq(Message) /\ Len(accepted) \in Nat
        /\ Len(reported) \in Nat /\ Len(queue) \in Nat /\ Passed \in Nat
    BY DEF SendInv, SendTyped, Passed
  <1>2. m \in Message /\ t \in Task /\ t.kind = "write" /\ t.msg = m /\ m.number = Len(accepted) + 1
    BY <1>1, TaskMade DEF Message
  <1>3. /\ strand' = Append(strand, t) /\ accepted' = Append(accepted, m)
        /\ UNCHANGED <<queue, ops, reported, Passed>>
    BY DEF WriteTo, PushToQueue, Passed
  <1> HIDE DEF m, t
  <1>4. /\ accepted' \in Seq(Message) /\ Len(accepted') = Len(accepted) + 1
        /\ \A n \in 1..Len(accepted) : accepted'[n] = accepted[n]
        /\ accepted'[Len(accepted) + 1] = m
    BY <1>1, <1>2, <1>3
  <1>5. strand' \in Seq(Task) /\ Tasks("sent")' = Tasks("sent")
        /\ \A i \in Tasks("sent") : strand'[i] = strand[i]
    <2>1. strand' \in Seq(Task) /\ \A i \in Tasks("sent") : i \in Tasks("sent")' /\ strand'[i] = strand[i]
      BY <1>1, <1>2, <1>3, Posting
    <2>2. \A i \in Tasks("sent")' : i \in Tasks("sent") \/ t.kind = "sent"
      BY <1>1, <1>2, <1>3, Posting
    <2> QED BY <1>2, <2>1, <2>2
  <1>6. SendTyped'
    BY <1>1, <1>3, <1>4, <1>5 DEF SendTyped
  <1>7. Numbered'
    BY <1>1, <1>2, <1>4 DEF SendInv, Numbered
  <1>8. OneSend'
    BY <1>3, <1>5 DEF SendInv, OneSend
  <1>9. Settled /\ Coming
    BY Parts DEF SendInv
  <1>10. Settled'
    <2>1. Passed' <= Len(accepted') /\ \A n \in 1..Len(reported) : n \in 1..Len(accepted)
      BY <1>1, <1>3, <1>4, <1>9 DEF Settled, Passed
    <2>2. \A n \in 1..Len(queue) : Len(reported) + n \in 1..Len(accepted)
      BY <1>1, <1>9 DEF Settled, Passed
    <2> QED BY <1>3, <1>4, <1>9, <2>1, <2>2 DEF Settled
  <1>11. Coming'
    <2> DEFINE i0 == Len(strand) + 1
    <2>1. /\ \A i \in Tasks("write") : i \in Tasks("write")' /\ strand'[i] = strand[i] /\ i < i0
          /\ \A i \in Tasks("write")' : (i \in Tasks("write") /\ strand'[i] = strand[i]) \/ (i = i0 /\ strand'[i] = t)
          /\ i0 \in Tasks("write")' /\ strand'[i0] = t
      <3>1. \A i \in Tasks("write") : i < i0
        BY <1>1, TaskPlaces DEF Tasks
      <3> QED BY <1>1, <1>2, <1>3, <3>1, Posting
    <2>2. \A n \in (Passed + 1)..Len(accepted') :
             n = Len(accepted) + 1 \/ (n \in (Passed + 1)..Len(accepted) /\ n \in 1..Len(accepted))
      BY <1>1, <1>4
    <2>3. \A n \in (Passed + 1)..Len(accepted) :
             n \in 1..Len(accepted) /\ n \in (Passed + 1)..Len(accepted') /\ n < m.number
      BY <1>1, <1>2, <1>4
    <2>4. Len(accepted) + 1 \in (Passed + 1)..Len(accepted')
      BY <1>1, <1>4, <1>9 DEF Settled
    <2> HIDE DEF i0
    <2>5. AllCome'
      <3> SUFFICES ASSUME NEW n \in (Passed + 1)..Len(accepted')
                   PROVE  \E i \in Tasks("write")' : strand'[i].msg = accepted'[n]
        BY <1>3 DEF AllCome
      <3>1. CASE n = Len(accepted) + 1
        BY <1>2, <1>4, <2>1, <3>1
      <3>2. CASE n \in (Passed + 1)..Len(accepted) /\ n \in 1..Len(accepted)
        <4>1. PICK i \in Tasks("write") : strand[i].msg = accepted[n]
          BY <1>9, <3>2 DEF Coming, AllCome
        <4> QED BY <1>4, <2>1, <3>2, <4>1
      <3> QED BY <2>2, <3>1, <3>2
    <2>6. NoOther'
      <3> SUFFICES ASSUME NEW i \in Tasks("write")'
                   PROVE  \E n \in (Passed + 1)..Len(accepted') : strand'[i].msg = accepted'[n]
        BY <1>3 DEF NoOther
      <3>1. CASE strand'[i] = t
        BY <1>2, <1>4, <2>4, <3>1
      <3>2. CASE i \in Tasks("write") /\ strand'[i] = strand[i]
        <4>1. PICK n \in (Passed + 1)..Len(accepted) : strand[i].msg = accepted[n]
          BY <1>9, <3>2 DEF Coming, NoOther
        <4> QED BY <1>4, <2>3, <3>2, <4>1
      <3> QED BY <2>1, <3>1, <3>2
    <2>7. \A i \in Tasks("write") : strand[i].msg.number < m.number
      BY <1>9, <2>3 DEF Coming, NoOther, SendInv, Numbered
    <2>8. InTurn'
      <3> SUFFICES ASSUME NEW i \in Tasks("write")', NEW j \in Tasks("write")', i < j
                   PROVE  strand'[i].msg.number < strand'[j].msg.number
        BY DEF InTurn
      <3>0. i \in Nat /\ j \in Nat /\ i0 \in Nat
        BY <1>1, TaskPlaces DEF i0
      <3>1. i \in Tasks("write") /\ strand'[i] = strand[i]
        <4>1. CASE i = i0
          BY <2>1, <3>0, <4>1
        <4> QED BY <2>1, <4>1
      <3>2. CASE j \in Tasks("write") /\ strand'[j] = strand[j]
        BY <1>9, <3>1, <3>2 DEF Coming, InTurn
      <3>3. CASE strand'[j] = t
        BY <1>2, <2>7, <3>1, <3>3
      <3> QED BY <2>1, <3>2, <3>3
    <2> QED BY <1>3, <2>5, <2>6, <2>8 DEF Coming
  <1>12. DatagramsConserved'
    BY <1>10, <1>11, Zenon DEF DatagramsConserved, Settled, Coming, AllCome, NoOther, InTurn
  <1> QED BY <1>6, <1>7, <1>8, <1>12 DEF SendInv

\* The one send is answered.
LEMMA RemoveOnly ==
    ASSUME NEW S, NEW s \in Seq(S), Len(s) = 1, NEW i \in 1..Len(s)
    PROVE  i = 1 /\ RemoveAt(s, i) = <<>>
  <1>1. i = 1
    OBVIOUS
  <1>2. SubSeq(s, 1, 0) = <<>> /\ SubSeq(s, 2, 1) = <<>>
    OBVIOUS
  <1> QED BY <1>1, <1>2 DEF RemoveAt

LEMMA AnsweredSends ==
    ASSUME SendInv, NEW i \in 1..Len(ops), NEW ok \in BOOLEAN, SendAnswered(i, ok)
    PROVE  SendInv'
  <1> DEFINE t == [kind |-> "sent", msg |-> ops[i], ok |-> ok]
  <1>1. /\ SendTyped /\ strand \in Seq(Task) /\ ops \in Seq(Message) /\ ops[i] \in Message
        /\ ops # <<>>
    BY DEF SendInv, SendTyped
  <1>2. queue # <<>> /\ Len(ops) = 1 /\ ops[1] = Head(queue) /\ Tasks("sent") = {}
    BY <1>1 DEF SendInv, OneSend
  <1>3. ops' = RemoveAt(ops, i) /\ strand' = Append(strand, t)
        /\ UNCHANGED <<queue, accepted, reported>>
    BY DEF SendAnswered
  <1>4. i = 1 /\ ops' = <<>>
    BY <1>1, <1>2, <1>3, RemoveOnly
  <1>5. t \in Task /\ t.kind = "sent" /\ t.msg = ops[i]
    BY <1>1, TaskMade
  <1> HIDE DEF t
  <1>6. \A j \in Tasks("sent")' : j = Len(strand) + 1
    BY <1>1, <1>2, <1>3, <1>5, Posting
  <1>7. strand' \in Seq(Task) /\ Len(strand) + 1 \in Tasks("sent")' /\ strand'[Len(strand) + 1] = t
    BY <1>1, <1>3, <1>5, Posting
  <1>8. OneSend'
    BY <1>2, <1>3, <1>4, <1>5, <1>6, <1>7 DEF OneSend
  <1>9. Quiet("write")
    BY <1>3, <1>5 DEF Quiet
  <1>10. Stays("write") \/ Shifts("write")
    BY <1>1, <1>9, QuietEffect
  <1>11. Passed' = Passed
    BY <1>3 DEF Passed
  <1>12. Coming'
    BY <1>1, <1>3, <1>10, <1>11, ComingKept, Parts DEF SendInv
  <1>13. SendTyped' /\ Numbered' /\ Settled'
    <2>1. Settled /\ Numbered
      BY Parts DEF SendInv
    <2>2. ops' \in Seq(Message)
      BY <1>4
    <2>3. SendTyped'
      BY <1>1, <1>3, <1>7, <2>2 DEF SendTyped
    <2> QED BY <1>3, <1>11, <2>1, <2>3 DEF Numbered, Settled
  <1>14. DatagramsConserved'
    BY <1>12, <1>13, Zenon DEF DatagramsConserved, Settled, Coming, AllCome, NoOther, InTurn
  <1> QED BY <1>8, <1>13, <1>14 DEF SendInv

\* write_to_queue: the posted write at the head is the next datagram.
LEMMA QueuedSends == ASSUME SendInv, WriteToQueue PROVE SendInv'
  <1> DEFINE m == Head(strand).msg
             p == Passed + 1
  <1>1. /\ SendTyped /\ strand \in Seq(Task) /\ strand # <<>> /\ Head(strand).kind = "write"
        /\ queue \in Seq(Message) /\ ops \in Seq(Message) /\ accepted \in Seq(Message)
        /\ Len(queue) \in Nat /\ Len(reported) \in Nat /\ Passed \in Nat /\ Len(accepted) \in Nat
        /\ Settled /\ AllCome /\ NoOther /\ InTurn
    BY Parts DEF SendInv, SendTyped, WriteToQueue, Runs, Passed, Coming
  <1>2. /\ strand' = Tail(strand) \o <<>> /\ queue' = Append(queue, m)
        /\ ops' = IF queue = <<>> THEN Append(ops, m) ELSE ops
        /\ UNCHANGED <<accepted, reported>>
    BY <1>1 DEF WriteToQueue, AsyncWrite, NobodySends
  <1>3. 1 \in Tasks("write") /\ strand[1] = Head(strand) /\ m \in Message
    BY <1>1, <1>2, Running, TaskKind
  <1>4. p <= Len(accepted) /\ m = accepted[p] /\ m.number = p
    <2>1. PICK n \in p..Len(accepted) : strand[1].msg = accepted[n]
      BY <1>1, <1>3 DEF NoOther
    <2>2. p \in p..Len(accepted) /\ n \in 1..Len(accepted) /\ p \in 1..Len(accepted)
      BY <1>1, <2>1
    <2>3. accepted[n].number = n /\ accepted[p].number = p
      BY <2>2 DEF SendInv, Numbered
    <2>4. PICK i \in Tasks("write") : strand[i].msg = accepted[p]
      BY <1>1, <2>2 DEF AllCome
    <2>5. i = 1 \/ 1 < i
      BY <1>1, TaskPlaces
    <2>6. n <= p
      BY <1>1, <1>3, <2>1, <2>2, <2>3, <2>4, <2>5 DEF InTurn
    <2>7. n = p
      BY <1>1, <2>1, <2>6
    <2> QED BY <1>3, <2>1, <2>2, <2>3, <2>7
  <1> HIDE DEF m
  <1>5. /\ queue' \in Seq(Message) /\ Len(queue') = Len(queue) + 1 /\ queue' # <<>>
        /\ \A n \in 1..Len(queue) : queue'[n] = queue[n]
        /\ queue'[Len(queue) + 1] = m
        /\ Head(queue') = IF queue = <<>> THEN m ELSE Head(queue)
    BY <1>1, <1>2, <1>3
  <1>6. Passed' = p
    BY <1>1, <1>2, <1>5 DEF Passed
  <1>7. strand' \in Seq(Task) /\ Tasks("sent") = {} => Tasks("sent")' = {}
    BY <1>1, <1>2, Running
  <1>8. OneSend'
    <2>1. CASE queue = <<>>
      <3>1. ops' = <<m>> /\ Tasks("sent")' = {}
        BY <1>1, <1>2, <1>7, <2>1 DEF SendInv, OneSend
      <3> QED BY <1>5, <2>1, <3>1 DEF OneSend
    <2>2. CASE queue # <<>> /\ Tasks("sent") = {}
      BY <1>1, <1>2, <1>5, <1>7, <2>2 DEF SendInv, OneSend
    <2>3. ASSUME queue # <<>>, NEW i \in Tasks("sent"), Tasks("sent") = {i}
          PROVE  OneSend'
      <3>1. Quiet("sent")
        BY <1>1, <1>2 DEF Quiet
      <3>2. i - 1 \in Tasks("sent")' /\ strand'[i - 1] = strand[i]
        BY <1>1, <1>2, Running, TaskPlaces
      <3>3. \A j \in Tasks("sent")' : j \in Nat /\ j + 1 \in Tasks("sent")
        BY <1>1, <1>2, Running, TaskPlaces
      <3>4. Tasks("sent")' = {i - 1}
        <4>1. \A j \in Tasks("sent")' : j = i - 1
          BY <2>3, <3>3
        <4> QED BY <3>2, <4>1
      <3>5. ops = <<>> /\ strand[i].msg = Head(queue)
        BY <2>3 DEF SendInv, OneSend
      <3> QED BY <1>2, <1>5, <2>3, <3>2, <3>4, <3>5 DEF OneSend
    <2> QED BY <2>1, <2>2, <2>3 DEF SendInv, OneSend
  <1>9. ops' \in Seq(Message)
    BY <1>1, <1>2, <1>3
  <1>10. strand' \in Seq(Task)
    BY <1>1, <1>2, Running
  <1>11. SendTyped' /\ Numbered'
    BY <1>1, <1>2, <1>5, <1>9, <1>10 DEF SendInv, SendTyped, Numbered
  <1>12. Settled'
    <2>1. Len(reported) + (Len(queue) + 1) = p
      BY <1>1 DEF Passed
    <2>2. \A n \in 1..(Len(queue) + 1) : n \in 1..Len(queue) \/ n = Len(queue) + 1
      BY <1>1
    <2> QED BY <1>1, <1>2, <1>4, <1>5, <1>6, <2>1, <2>2 DEF Settled
  <1>13. \A n \in (p + 1)..Len(accepted) :
            n \in p..Len(accepted) /\ n \in 1..Len(accepted) /\ n # p
    BY <1>1
  <1>14. AllCome'
    <2> SUFFICES ASSUME NEW n \in (p + 1)..Len(accepted)
                 PROVE  \E i \in Tasks("write")' : strand'[i].msg = accepted[n]
      BY <1>2, <1>6 DEF AllCome
    <2>1. PICK i \in Tasks("write") : strand[i].msg = accepted[n]
      BY <1>1, <1>13 DEF AllCome
    <2>2. accepted[n].number # p
      BY <1>13 DEF SendInv, Numbered
    <2>3. i # 1
      BY <1>3, <1>4, <2>1, <2>2 DEF m
    <2>4. i - 1 \in Tasks("write")' /\ strand'[i - 1] = strand[i]
      BY <1>1, <1>2, <2>3, Running
    <2> QED BY <2>1, <2>4
  <1>15. \A i \in Tasks("write")' : i + 1 \in Tasks("write") /\ strand'[i] = strand[i + 1] /\ i \in Nat /\ i > 0
    BY <1>1, <1>2, Running, TaskPlaces
  <1>16. NoOther'
    <2> SUFFICES ASSUME NEW i \in Tasks("write")'
                 PROVE  \E n \in (p + 1)..Len(accepted) : strand'[i].msg = accepted[n]
      BY <1>2, <1>6 DEF NoOther
    <2>1. PICK n \in p..Len(accepted) : strand[i + 1].msg = accepted[n]
      BY <1>1, <1>15 DEF NoOther
    <2>2. strand[1].msg.number < strand[i + 1].msg.number
      BY <1>1, <1>3, <1>15 DEF InTurn
    <2>3. accepted[n].number = n
      BY <1>1, <2>1 DEF SendInv, Numbered
    <2>4. n # p
      BY <1>1, <1>3, <1>4, <2>1, <2>2, <2>3 DEF m
    <2>5. n \in (p + 1)..Len(accepted)
      BY <1>1, <2>1, <2>4
    <2> QED BY <1>15, <2>1, <2>5
  <1>17. InTurn'
    <2> SUFFICES ASSUME NEW i \in Tasks("write")', NEW j \in Tasks("write")', i < j
                 PROVE  strand'[i].msg.number < strand'[j].msg.number
      BY DEF InTurn
    <2>1. i + 1 < j + 1
      BY <1>15
    <2> QED BY <1>1, <1>15, <2>1 DEF InTurn
  <1>18. DatagramsConserved'
    BY <1>12, <1>14, <1>16, <1>17, Zenon DEF DatagramsConserved, Settled, AllCome, NoOther, InTurn
  <1> QED BY <1>8, <1>11, <1>18 DEF SendInv

\* post_call of the front: it is settled, and the next one is sent.
LEMMA HandledSends ==
    ASSUME SendInv, Runs("sent"), reported' = Append(reported, Head(queue)), queue' = Tail(queue),
           IF queue' # <<>> THEN AsyncWrite(Head(queue')) ELSE UNCHANGED ops,
           accepted' = accepted,
           \/ strand' = Tail(strand) \o <<>>
           \/ \E t \in Task : t.kind \notin {"write", "sent"} /\ strand' = Tail(strand) \o <<t>>
    PROVE  SendInv' /\ queue # <<>>
  <1>1. /\ SendTyped /\ strand \in Seq(Task) /\ strand # <<>> /\ Head(strand).kind = "sent"
        /\ queue \in Seq(Message) /\ ops \in Seq(Message) /\ accepted \in Seq(Message)
        /\ reported \in Seq(Message)
        /\ Len(queue) \in Nat /\ Len(reported) \in Nat /\ Settled /\ Coming
    BY Parts DEF SendInv, SendTyped, Runs
  <1>2. 1 \in Tasks("sent") /\ strand' \in Seq(Task)
    BY <1>1, Running, RunningPosts
  <1>3. queue # <<>> /\ ops = <<>> /\ Tasks("sent") = {1}
    BY <1>2 DEF SendInv, OneSend
  <1>4. Tasks("sent")' = {}
    <2> SUFFICES ASSUME NEW i \in Tasks("sent")' PROVE FALSE
      OBVIOUS
    <2>1. i + 1 \in Tasks("sent") /\ i \in Nat /\ i > 0
      BY <1>1, Running, RunningPosts, TaskPlaces
    <2> QED BY <1>3, <2>1
  <1>5. /\ queue' \in Seq(Message) /\ Len(queue') = Len(queue) - 1 /\ Len(queue) > 0
        /\ \A n \in 1..Len(queue') : queue'[n] = queue[n + 1]
        /\ Head(queue) = queue[1] /\ queue[1] \in Message
        /\ queue' # <<>> => Head(queue') \in Message
    BY <1>1, <1>3
  <1>6. /\ reported' \in Seq(Message) /\ Len(reported') = Len(reported) + 1
        /\ \A n \in 1..Len(reported) : reported'[n] = reported[n]
        /\ reported'[Len(reported) + 1] = queue[1]
    BY <1>1, <1>5
  <1>7. Passed' = Passed
    BY <1>1, <1>5, <1>6 DEF Passed
  <1>8. ops' \in Seq(Message) /\ OneSend'
    <2>1. CASE queue' = <<>>
      BY <1>1, <1>3, <1>4, <2>1 DEF OneSend
    <2>2. CASE queue' # <<>>
      <3>1. ops' = Append(<<>>, Head(queue'))
        BY <1>3, <2>2 DEF AsyncWrite
      <3>2. ops' \in Seq(Message) /\ Len(ops') = 1 /\ ops'[1] = Head(queue')
        BY <1>5, <2>2, <3>1
      <3> QED BY <1>4, <2>2, <3>2 DEF OneSend
    <2> QED BY <2>1, <2>2
  <1>9. SendTyped' /\ Numbered'
    BY <1>1, <1>2, <1>5, <1>6, <1>8 DEF SendInv, SendTyped, Numbered
  <1>10. Settled'
    <2>1. \A n \in 1..Len(reported') : n \in 1..Len(reported) \/ n = Len(reported) + 1
      BY <1>1, <1>6
    <2>2. \A n \in 1..Len(queue') : n + 1 \in 1..Len(queue)
                                    /\ (Len(reported) + 1) + n = Len(reported) + (n + 1)
      BY <1>1, <1>5
    <2>3. queue[1] = accepted[Len(reported) + 1]
      BY <1>1, <1>5 DEF Settled
    <2>4. \A n \in 1..Len(reported') : reported'[n] = accepted[n]
      BY <1>1, <1>6, <2>1, <2>3 DEF Settled
    <2>5. \A n \in 1..Len(queue') : queue'[n] = accepted[Len(reported') + n]
      BY <1>1, <1>5, <1>6, <2>2 DEF Settled
    <2> QED BY <1>1, <1>7, <2>4, <2>5 DEF Settled
  <1>11. Quiet("write")
    BY <1>1 DEF Quiet
  <1>12. Stays("write") \/ Shifts("write")
    BY <1>1, <1>11, QuietEffect
  <1>13. Coming'
    BY <1>1, <1>7, <1>12, ComingKept
  <1>14. DatagramsConserved'
    BY <1>10, <1>13, Zenon DEF DatagramsConserved, Settled, Coming, AllCome, NoOther, InTurn
  <1> QED BY <1>3, <1>8, <1>9, <1>14 DEF SendInv

LEMMA InitSends == Init => SendInv
  <1> SUFFICES ASSUME Init PROVE SendInv
    OBVIOUS
  <1>1. strand = <<>> /\ queue = <<>> /\ ops = <<>> /\ accepted = <<>> /\ reported = <<>>
        /\ Len(strand) = 0 /\ Len(accepted) = 0 /\ Len(reported) = 0 /\ Len(queue) = 0
    BY DEF Init, UdpInit
  <1>2. \A k : Tasks(k) = {}
    BY <1>1 DEF Tasks
  <1>3. SendTyped
    BY <1>1 DEF SendTyped
  <1>4. Settled /\ Coming
    BY <1>1, <1>2 DEF Settled, Coming, AllCome, NoOther, InTurn, Passed
  <1> QED BY <1>1, <1>2, <1>3, <1>4, Parts DEF SendInv, Numbered, OneSend

\* What SendsInOrder says of it.
LEMMA SendInvImplies == SendInv => SendsInOrder
  <1> SUFFICES ASSUME SendInv PROVE SendsTheFront
    BY DEF SendsInOrder, SendInv
  <1>1. Cardinality({}) = 0 /\ \A i : Cardinality({i}) = 1
    BY FS_EmptySet, FS_Singleton
  <1>2. CASE queue = <<>> /\ ops = <<>> /\ Tasks("sent") = {}
    BY <1>1, <1>2 DEF SendsTheFront
  <1>3. CASE queue # <<>> /\ Len(ops) = 1 /\ ops[1] = Head(queue) /\ Tasks("sent") = {}
    <2>1. Cardinality(Tasks("sent")) = 0
      BY <1>1, <1>3
    <2>2. \A i \in 1..Len(ops) : i = 1
      BY <1>3
    <2> QED BY <1>3, <2>1, <2>2 DEF SendsTheFront
  <1>4. ASSUME queue # <<>>, ops = <<>>,
               NEW i \in Tasks("sent"), Tasks("sent") = {i}, strand[i].msg = Head(queue)
        PROVE  SendsTheFront
    <2>1. Cardinality(Tasks("sent")) = 1 /\ Len(ops) = 0
      BY <1>1, <1>4
    <2> QED BY <1>4, <2>1 DEF SendsTheFront
  <1> QED BY <1>2, <1>3, <1>4 DEF SendInv, OneSend

(***************************************************************************)
(* The receiving side: one receive at a time, whose sender's address and      *)
(* number are the last that came.                                            *)
(***************************************************************************)
OneReceive ==
    /\ \A i, j \in Tasks("received") : i = j
    /\ Tasks("received") # {} => ~receiving

InHand ==
    \A i \in Tasks("received") :
       strand[i].ok => strand[i].data.from = ep /\ strand[i].data.number = arrived

NoneFailed == active /\ failures = 0 => \A i \in Tasks("received") : strand[i].ok

RecvInv == OneReceive /\ InHand /\ NoneFailed /\ KeepsListening

ReadsRefer == \A i \in Tasks("set_read") : strand[i].client \in 1..Len(client)

Base == SendInv /\ ServerTyped /\ RecvInv /\ ReadsRefer

\* Is a datagram in the hands of the strand?
Arrived == \E i \in Tasks("received") : strand[i].ok

\* Nothing changes for what client c gets.
Same(c) ==
    /\ client'[c].ep = client[c].ep /\ client'[c].queue = client[c].queue
    /\ client'[c].cache = client[c].cache /\ client'[c].given = client[c].given
    /\ client'[c].got = client[c].got
    /\ client'[c].read = client[c].read \/ client[c].queue = <<>>

LineStays ==
    /\ Len(client') = Len(client) /\ heap' = heap /\ Quiet("push")
    /\ \A c \in 1..Len(client) : Same(c)
    /\ \A e \in Endpoints : clients'[e] \in {clients[e], 0}
    /\ (arrived' = arrived /\ (Arrived' => Arrived)) \/ arrived' = arrived + 1

LEMMA Typing ==
    ASSUME ServerTyped
    PROVE  /\ client \in Seq(ClientType) /\ Len(client) \in Nat /\ DOMAIN client = 1..Len(client)
           /\ \A c \in 1..Len(client) : client[c] \in ClientType
           /\ heap \in Seq(Datagram) /\ Len(heap) \in Nat /\ DOMAIN heap = 1..Len(heap)
           /\ \A b \in 1..Len(heap) : heap[b] \in Datagram
           /\ clients \in [Endpoints -> Nat]
           /\ \A e \in Endpoints : clients[e] \in Nat /\ clients[e] <= Len(client)
           /\ \A e \in Endpoints : clients[e] # 0 => clients[e] \in 1..Len(client)
           /\ ep \in Endpoints \cup {NoEndpoint} /\ NoEndpoint \notin Endpoints
           /\ arrived \in Nat /\ failures \in Nat
           /\ receiving \in BOOLEAN /\ active \in BOOLEAN /\ shut \in BOOLEAN /\ accepting \in BOOLEAN
  <1>1. client \in Seq(ClientType) /\ heap \in Seq(Datagram) /\ clients \in [Endpoints -> Nat]
        /\ \A e \in Endpoints : clients[e] <= Len(client)
    BY DEF ServerTyped
  <1>2. Len(client) \in Nat /\ DOMAIN client = 1..Len(client)
        /\ \A c \in 1..Len(client) : client[c] \in ClientType
    BY <1>1
  <1>3. Len(heap) \in Nat /\ DOMAIN heap = 1..Len(heap)
        /\ \A b \in 1..Len(heap) : heap[b] \in Datagram
    BY <1>1
  <1>4. \A e \in Endpoints : clients[e] \in Nat /\ clients[e] <= Len(client)
                             /\ (clients[e] # 0 => clients[e] \in 1..Len(client))
    BY <1>1, <1>2
  <1> QED BY <1>1, <1>2, <1>3, <1>4, NoEndpointAssumption DEF ServerTyped

LEMMA ClientFields ==
    ASSUME NEW x \in ClientType
    PROVE  /\ x.ep \in Endpoints /\ x.read \in BOOLEAN
           /\ x.queue \in Seq(Nat) /\ x.cache \in Seq(Nat) /\ x.asked \in Nat /\ x.closed \in Nat
           /\ x.given \in Seq(Datagram) /\ x.got \in Seq(Datagram)
  BY DEF ClientType

\* A client object after the assignments of a step.
LEMMA ClosedCounted ==
    ASSUME NEW x \in ClientType, NEW n \in Nat
    PROVE  LET y == [x EXCEPT !.closed = n] IN
             /\ y \in ClientType
             /\ y.ep = x.ep /\ y.read = x.read /\ y.queue = x.queue /\ y.cache = x.cache
             /\ y.asked = x.asked /\ y.closed = n /\ y.given = x.given /\ y.got = x.got
  <1> DEFINE Q == Seq(Nat)
             D == Seq(Datagram)
             T == [ep : Endpoints, read : BOOLEAN, queue : Q, cache : Q,
                   asked : Nat, closed : Nat, given : D, got : D]
             y == [x EXCEPT !.closed = n]
  <1>1. x \in T
    BY Zenon DEF ClientType
  <1> HIDE DEF Q, D
  <1>2. y \in T
    BY <1>1
  <1>3. y.ep = x.ep /\ y.read = x.read /\ y.queue = x.queue /\ y.cache = x.cache
        /\ y.asked = x.asked /\ y.closed = n /\ y.given = x.given /\ y.got = x.got
    BY <1>1
  <1> QED BY <1>2, <1>3, Zenon DEF Q, D, ClientType

LEMMA AskedCounted ==
    ASSUME NEW x \in ClientType, NEW n \in Nat
    PROVE  LET y == [x EXCEPT !.asked = n] IN
             /\ y \in ClientType
             /\ y.ep = x.ep /\ y.read = x.read /\ y.queue = x.queue /\ y.cache = x.cache
             /\ y.asked = n /\ y.closed = x.closed /\ y.given = x.given /\ y.got = x.got
  <1> DEFINE Q == Seq(Nat)
             D == Seq(Datagram)
             T == [ep : Endpoints, read : BOOLEAN, queue : Q, cache : Q,
                   asked : Nat, closed : Nat, given : D, got : D]
             y == [x EXCEPT !.asked = n]
  <1>1. x \in T
    BY Zenon DEF ClientType
  <1> HIDE DEF Q, D
  <1>2. y \in T
    BY <1>1
  <1>3. y.ep = x.ep /\ y.read = x.read /\ y.queue = x.queue /\ y.cache = x.cache
        /\ y.asked = n /\ y.closed = x.closed /\ y.given = x.given /\ y.got = x.got
    BY <1>1
  <1> QED BY <1>2, <1>3, Zenon DEF Q, D, ClientType

LEMMA ReadAssigned ==
    ASSUME NEW x \in ClientType, NEW r \in BOOLEAN
    PROVE  LET y == [x EXCEPT !.read = r] IN
             /\ y \in ClientType
             /\ y.ep = x.ep /\ y.read = r /\ y.queue = x.queue /\ y.cache = x.cache
             /\ y.asked = x.asked /\ y.closed = x.closed /\ y.given = x.given /\ y.got = x.got
  <1> DEFINE Q == Seq(Nat)
             D == Seq(Datagram)
             T == [ep : Endpoints, read : BOOLEAN, queue : Q, cache : Q,
                   asked : Nat, closed : Nat, given : D, got : D]
             y == [x EXCEPT !.read = r]
  <1>1. x \in T
    BY Zenon DEF ClientType
  <1> HIDE DEF Q, D
  <1>2. y \in T
    BY <1>1
  <1>3. y.ep = x.ep /\ y.read = r /\ y.queue = x.queue /\ y.cache = x.cache
        /\ y.asked = x.asked /\ y.closed = x.closed /\ y.given = x.given /\ y.got = x.got
    BY <1>1
  <1> QED BY <1>2, <1>3, Zenon DEF Q, D, ClientType

LEMMA QueueAssigned ==
    ASSUME NEW x \in ClientType, NEW q \in Seq(Nat)
    PROVE  LET y == [x EXCEPT !.queue = q] IN
             /\ y \in ClientType
             /\ y.ep = x.ep /\ y.read = x.read /\ y.queue = q /\ y.cache = x.cache
             /\ y.asked = x.asked /\ y.closed = x.closed /\ y.given = x.given /\ y.got = x.got
  <1> DEFINE Q == Seq(Nat)
             D == Seq(Datagram)
             T == [ep : Endpoints, read : BOOLEAN, queue : Q, cache : Q,
                   asked : Nat, closed : Nat, given : D, got : D]
             y == [x EXCEPT !.queue = q]
  <1>1. x \in T /\ q \in Q
    BY Zenon DEF ClientType
  <1> HIDE DEF Q, D
  <1>2. y \in T
    BY <1>1
  <1>3. y.ep = x.ep /\ y.read = x.read /\ y.queue = q /\ y.cache = x.cache
        /\ y.asked = x.asked /\ y.closed = x.closed /\ y.given = x.given /\ y.got = x.got
    BY <1>1
  <1> QED BY <1>2, <1>3, Zenon DEF Q, D, ClientType

LEMMA CacheAssigned ==
    ASSUME NEW x \in ClientType, NEW k \in Seq(Nat)
    PROVE  LET y == [x EXCEPT !.cache = k] IN
             /\ y \in ClientType
             /\ y.ep = x.ep /\ y.read = x.read /\ y.queue = x.queue /\ y.cache = k
             /\ y.asked = x.asked /\ y.closed = x.closed /\ y.given = x.given /\ y.got = x.got
  <1> DEFINE Q == Seq(Nat)
             D == Seq(Datagram)
             T == [ep : Endpoints, read : BOOLEAN, queue : Q, cache : Q,
                   asked : Nat, closed : Nat, given : D, got : D]
             y == [x EXCEPT !.cache = k]
  <1>1. x \in T /\ k \in Q
    BY Zenon DEF ClientType
  <1> HIDE DEF Q, D
  <1>2. y \in T
    BY <1>1
  <1>3. y.ep = x.ep /\ y.read = x.read /\ y.queue = x.queue /\ y.cache = k
        /\ y.asked = x.asked /\ y.closed = x.closed /\ y.given = x.given /\ y.got = x.got
    BY <1>1
  <1> QED BY <1>2, <1>3, Zenon DEF Q, D, ClientType

AfterFiling(x, k, g) == [x EXCEPT !.cache = k, !.given = g]

IsFiled(y, x, k, g) ==
    /\ y \in ClientType
    /\ y.ep = x.ep /\ y.read = x.read /\ y.queue = x.queue /\ y.cache = k
    /\ y.given = g /\ y.got = x.got /\ y.asked = x.asked /\ y.closed = x.closed

LEMMA GivenAssigned ==
    ASSUME NEW x \in ClientType, NEW k \in Seq(Nat), NEW g \in Seq(Datagram)
    PROVE  IsFiled(AfterFiling(x, k, g), x, k, g)
  <1> DEFINE Q == Seq(Nat)
             D == Seq(Datagram)
             T == [ep : Endpoints, read : BOOLEAN, queue : Q, cache : Q,
                   asked : Nat, closed : Nat, given : D, got : D]
             y == AfterFiling(x, k, g)
  <1>1. x \in T /\ k \in Q /\ g \in D
    BY Zenon DEF ClientType
  <1> HIDE DEF Q, D
  <1>2. y \in T
    BY <1>1 DEF AfterFiling
  <1>3. y.ep = x.ep /\ y.read = x.read /\ y.queue = x.queue /\ y.cache = k
        /\ y.given = g /\ y.got = x.got /\ y.asked = x.asked /\ y.closed = x.closed
    BY <1>1 DEF AfterFiling
  <1> HIDE DEF y
  <1>4. IsFiled(y, x, k, g)
    BY <1>2, <1>3, Zenon DEF IsFiled, Q, D, ClientType
  <1> QED BY <1>4 DEF y

AfterDelivery(x, g, r, q, k) == [x EXCEPT !.got = g, !.read = r, !.queue = q, !.cache = k]

LEMMA DeliveredAssigned ==
    ASSUME NEW x \in ClientType, NEW g \in Seq(Datagram), NEW r \in BOOLEAN, NEW q \in Seq(Nat), NEW k \in Seq(Nat)
    PROVE  LET y == AfterDelivery(x, g, r, q, k) IN
             /\ y \in ClientType
             /\ y.ep = x.ep /\ y.read = r /\ y.queue = q /\ y.cache = k
             /\ y.asked = x.asked /\ y.closed = x.closed /\ y.given = x.given /\ y.got = g
  <1> DEFINE Q == Seq(Nat)
             D == Seq(Datagram)
             T == [ep : Endpoints, read : BOOLEAN, queue : Q, cache : Q,
                   asked : Nat, closed : Nat, given : D, got : D]
             y == AfterDelivery(x, g, r, q, k)
  <1>1. x \in T /\ q \in Q /\ k \in Q /\ g \in D
    BY Zenon DEF ClientType
  <1> HIDE DEF Q, D
  <1>2. y \in T
    BY <1>1 DEF AfterDelivery
  <1>3. y.ep = x.ep /\ y.read = r /\ y.queue = q /\ y.cache = k
        /\ y.asked = x.asked /\ y.closed = x.closed /\ y.given = x.given /\ y.got = g
    BY <1>1 DEF AfterDelivery
  <1> QED BY <1>2, <1>3, Zenon DEF Q, D, ClientType

\* One client changes.
LEMMA OneChanges ==
    ASSUME ServerTyped, NEW c \in 1..Len(client), NEW x \in ClientType,
           client' = [client EXCEPT ![c] = x]
    PROVE  /\ client' \in Seq(ClientType) /\ Len(client') = Len(client)
           /\ client'[c] = x /\ \A d \in 1..Len(client) : d # c => client'[d] = client[d]
  BY Typing

LEMMA FunctionIsSeq ==
    ASSUME NEW T, NEW n \in Nat, NEW f \in [1..n -> T]
    PROVE  f \in Seq(T) /\ Len(f) = n
  OBVIOUS

LEMMA ToldTyped ==
    ASSUME ServerTyped, NEW S, client' = Told(S)
    PROVE  /\ client' \in Seq(ClientType) /\ Len(client') = Len(client)
           /\ \A c \in 1..Len(client) : Same(c)
  <1>1. \A c \in 1..Len(client) : Told(S)[c] =
           IF c \in S THEN [client[c] EXCEPT !.closed = @ + 1] ELSE client[c]
    BY Typing DEF Told
  <1>2. ASSUME NEW c \in 1..Len(client)
        PROVE  LET y == [client[c] EXCEPT !.closed = @ + 1] IN
               /\ y \in ClientType
               /\ y.ep = client[c].ep /\ y.read = client[c].read /\ y.queue = client[c].queue
               /\ y.cache = client[c].cache /\ y.given = client[c].given /\ y.got = client[c].got
    <2>1. client[c] \in ClientType /\ client[c].closed + 1 \in Nat
      BY Typing, ClientFields
    <2> QED BY <2>1, ClosedCounted
  <1>3. \A c \in 1..Len(client) : Told(S)[c] \in ClientType
    BY <1>1, <1>2, Typing
  <1>4. Len(client) \in Nat /\ Told(S) \in [1..Len(client) -> ClientType]
    <2>1. DOMAIN Told(S) = 1..Len(client) /\ Told(S) = [c \in DOMAIN Told(S) |-> Told(S)[c]]
      BY Typing DEF Told
    <2> QED BY <1>3, <2>1, Typing
  <1>5. Told(S) \in Seq(ClientType) /\ Len(Told(S)) = Len(client)
    BY <1>4, FunctionIsSeq
  <1>6. ASSUME NEW c \in 1..Len(client) PROVE Same(c)
    <2>1. client'[c] = Told(S)[c]
      OBVIOUS
    <2> QED BY <1>1, <1>2, <2>1 DEF Same
  <1> QED BY <1>5, <1>6

\* The receive is left alone.
LEMMA RecvKept ==
    ASSUME SendTyped, RecvInv, Quiet("received"), UNCHANGED <<receiving, ep, arrived, failures>>,
           active' => active
    PROVE  RecvInv'
  <1>1. strand \in Seq(Task) /\ (Stays("received") \/ Shifts("received"))
    BY QuietEffect DEF SendTyped
  <1>2. \A i \in Tasks("received")' :
           \E j \in Tasks("received") : strand'[i] = strand[j] /\ (Shifts("received") => j = i + 1)
                                        /\ (~Shifts("received") => j = i)
    BY <1>1 DEF Stays, Shifts
  <1>3. Tasks("received") # {} => Tasks("received")' # {}
    BY <1>1 DEF Stays, Shifts
  <1>4. OneReceive'
    <2>1. \A i, j \in Tasks("received")' : i = j
      <3> SUFFICES ASSUME NEW i \in Tasks("received")', NEW j \in Tasks("received")' PROVE i = j
        OBVIOUS
      <3>1. i \in Nat /\ j \in Nat
        BY TaskPlaces
      <3>2. CASE Stays("received")
        BY <3>2 DEF Stays, RecvInv, OneReceive
      <3>3. CASE Shifts("received")
        <4>1. i + 1 = j + 1
          BY <3>3 DEF Shifts, RecvInv, OneReceive
        <4> QED BY <3>1, <4>1
      <3> QED BY <1>1, <3>2, <3>3
    <2> QED BY <1>2, <2>1 DEF RecvInv, OneReceive
  <1>5. InHand'
    BY <1>2 DEF RecvInv, InHand
  <1>6. NoneFailed'
    BY <1>2 DEF RecvInv, NoneFailed
  <1>7. KeepsListening'
    BY <1>3 DEF RecvInv, KeepsListening
  <1> QED BY <1>4, <1>5, <1>6, <1>7 DEF RecvInv

LEMMA ReadsReferKept ==
    ASSUME SendTyped, ServerTyped, ReadsRefer, Quiet("set_read"),
           Len(client') \in Nat, Len(client') >= Len(client)
    PROVE  ReadsRefer'
  <1>1. \A i \in Tasks("set_read") : strand[i].client \in 1..Len(client')
    BY Typing DEF ReadsRefer
  <1>2. Stays("set_read") \/ Shifts("set_read")
    BY QuietEffect DEF SendTyped
  <1>3. \A i \in Tasks("set_read")' : \E j \in Tasks("set_read") : strand'[i] = strand[j]
    BY <1>2 DEF Stays, Shifts
  <1> QED BY <1>1, <1>3 DEF ReadsRefer

LEMMA ArrivedKept ==
    ASSUME SendTyped, Quiet("received") PROVE Arrived' => Arrived
  <1>1. Stays("received") \/ Shifts("received")
    BY QuietEffect DEF SendTyped
  <1> QED BY <1>1 DEF Arrived, Stays, Shifts

\* A step that only posts or runs a task, and touches neither what is sent nor received.
LEMMA BaseKept ==
    ASSUME Base,
           Quiet("write"), Quiet("sent"), Quiet("received"), Quiet("push"),
           UNCHANGED <<queue, ops, accepted, reported, receiving, ep, arrived, failures, heap>>,
           active' \in BOOLEAN, active' => active, shut' \in BOOLEAN, accepting' \in BOOLEAN,
           client' \in Seq(ClientType), Len(client') = Len(client),
           \A c \in 1..Len(client) : Same(c),
           clients' \in [Endpoints -> Nat], \A e \in Endpoints : clients'[e] \in {clients[e], 0},
           ReadsRefer'
    PROVE  Base' /\ LineStays
  <1>1. SendInv' /\ SendTyped
    BY SilentSends DEF Base, Silent, SendInv
  <1>2. RecvInv'
    BY <1>1, RecvKept DEF Base
  <1>3. LineStays
    BY <1>1, ArrivedKept DEF LineStays
  <1>4. ServerTyped'
    <2>0. ServerTyped
      BY DEF Base
    <2>1. \A e \in Endpoints : clients'[e] <= Len(client')
      <3>1. \A e \in Endpoints : clients[e] <= Len(client) /\ Len(client) \in Nat
        BY <2>0, Typing
      <3> QED BY <3>1
    <2> QED BY <2>0, <2>1 DEF ServerTyped
  <1> QED BY <1>1, <1>2, <1>3, <1>4 DEF Base

(***************************************************************************)
(* The steps that keep what every client gets.                               *)
(***************************************************************************)
LEMMA AskedTyped ==
    ASSUME ServerTyped, NEW c \in 1..Len(client), client' = [client EXCEPT ![c].asked = @ + 1]
    PROVE  /\ client' \in Seq(ClientType) /\ Len(client') = Len(client)
           /\ \A d \in 1..Len(client) : Same(d)
  <1> DEFINE x == [client[c] EXCEPT !.asked = client[c].asked + 1]
  <1>1. client[c] \in ClientType /\ client[c].asked + 1 \in Nat
    BY Typing, ClientFields
  <1>2. /\ x \in ClientType /\ x.ep = client[c].ep /\ x.read = client[c].read
        /\ x.queue = client[c].queue /\ x.cache = client[c].cache /\ x.given = client[c].given
        /\ x.got = client[c].got
    BY <1>1, AskedCounted
  <1>3. client' = [client EXCEPT ![c] = x]
    OBVIOUS
  <1> HIDE DEF x
  <1>4. /\ client' \in Seq(ClientType) /\ Len(client') = Len(client) /\ client'[c] = x
        /\ \A d \in 1..Len(client) : d # c => client'[d] = client[d]
    BY <1>2, <1>3, OneChanges
  <1> QED BY <1>2, <1>4 DEF Same

\* The same clients, and the same map.
LEMMA SameClients ==
    ASSUME ServerTyped, client' = client, clients' = clients
    PROVE  /\ client' \in Seq(ClientType) /\ Len(client') = Len(client)
           /\ \A d \in 1..Len(client) : Same(d)
           /\ clients' \in [Endpoints -> Nat] /\ \A e \in Endpoints : clients'[e] \in {clients[e], 0}
  BY Typing DEF Same

LEMMA UnchangedBase == ASSUME Base, UNCHANGED vars PROVE Base' /\ LineStays
  <1>1. UNCHANGED <<strand, queue, ops, receiving, ep, active, accepted, reported,
                    accepting, shut, clients, client, heap, arrived, failures>>
    BY DEF vars, udpVars, serverVars
  <1>2. ServerTyped /\ SendTyped /\ ReadsRefer'
    BY <1>1 DEF Base, SendInv, ReadsRefer, Tasks
  <1>3. \A k : Quiet(k)
    BY <1>1 DEF Quiet
  <1> QED BY <1>1, <1>2, <1>3, SameClients, BaseKept, Typing

LEMMA BindBase == ASSUME Base, Bind PROVE Base' /\ LineStays
  <1>1. /\ ~receiving /\ Tasks("received") = {} /\ receiving' = TRUE /\ ep' = NoEndpoint
        /\ UNCHANGED <<strand, queue, ops, active, accepted, reported,
                       accepting, shut, clients, client, heap, arrived, failures>>
    BY DEF Bind, ReadFrom, serverVars
  <1>2. ServerTyped /\ SendTyped /\ ReadsRefer' /\ Tasks("received")' = {}
    BY <1>1 DEF Base, SendInv, ReadsRefer, Tasks
  <1>3. \A k : Quiet(k)
    BY <1>1 DEF Quiet
  <1>4. SendInv'
    BY <1>1, <1>3, SilentSends DEF Base, Silent
  <1>5. RecvInv'
    BY <1>1, <1>2 DEF RecvInv, OneReceive, InHand, NoneFailed, KeepsListening
  <1>6. ServerTyped'
    BY <1>1, <1>2 DEF ServerTyped
  <1>7. LineStays
    BY <1>1, <1>2, <1>3, SameClients DEF LineStays, Arrived
  <1> QED BY <1>2, <1>4, <1>5, <1>6, <1>7 DEF Base

LEMMA StartAcceptBase == ASSUME Base, StartAccept PROVE Base' /\ LineStays
  <1>1. /\ accepting' = TRUE
        /\ UNCHANGED <<strand, queue, ops, receiving, ep, active, accepted, reported,
                       shut, clients, client, heap, arrived, failures>>
    BY DEF StartAccept, udpVars
  <1>2. ServerTyped /\ SendTyped /\ ReadsRefer'
    BY <1>1 DEF Base, SendInv, ReadsRefer, Tasks
  <1>3. \A k : Quiet(k)
    BY <1>1 DEF Quiet
  <1> QED BY <1>1, <1>2, <1>3, SameClients, BaseKept, Typing

LEMMA ClientReadBase == ASSUME Base, NEW c \in 1..Len(client), ClientRead(c) PROVE Base' /\ LineStays
  <1>1. /\ strand' = Append(strand, SetReadTask(c))
        /\ UNCHANGED <<queue, ops, receiving, ep, active, accepted, reported,
                       accepting, shut, clients, client, heap, arrived, failures>>
    BY DEF ClientRead, serverVars
  <1>2. ServerTyped /\ SendTyped /\ ReadsRefer /\ c \in Nat
    BY DEF Base, SendInv
  <1>3. SetReadTask(c) \in Task /\ SetReadTask(c).kind = "set_read" /\ SetReadTask(c).client = c
    BY <1>2, TaskMade DEF SetReadTask
  <1>4. Quiet("write") /\ Quiet("sent") /\ Quiet("received") /\ Quiet("push")
    BY <1>1, <1>3 DEF Quiet
  <1>5. ReadsRefer'
    <2>1. \A i \in Tasks("set_read")' :
             \/ i \in Tasks("set_read") /\ strand'[i] = strand[i]
             \/ strand'[i] = SetReadTask(c)
      BY <1>1, <1>2, <1>3, Posting DEF SendTyped
    <2> QED BY <1>1, <1>2, <1>3, <2>1 DEF ReadsRefer
  <1> QED BY <1>1, <1>2, <1>4, <1>5, SameClients, BaseKept, Typing

LEMMA ClientWriteBase == ASSUME Base, NEW c \in 1..Len(client), ClientWrite(c) PROVE Base' /\ LineStays
  <1>1. /\ WriteTo(client[c].ep)
        /\ UNCHANGED <<receiving, ep, active, accepting, shut, clients, client, heap, arrived, failures>>
    BY DEF ClientWrite, WriteTo, serverVars
  <1>2. ServerTyped /\ SendTyped /\ ReadsRefer /\ client[c].ep \in Endpoints
    BY Typing, ClientFields DEF Base, SendInv
  <1> DEFINE m == [number |-> Len(accepted) + 1, to |-> client[c].ep]
             t == [kind |-> "write", msg |-> m]
  <1>3. strand' = Append(strand, t) /\ t \in Task /\ t.kind = "write"
    <2>1. m \in Message
      BY <1>2 DEF Message, SendTyped
    <2> QED BY <1>1, <2>1, TaskMade DEF WriteTo, PushToQueue
  <1> HIDE DEF m, t
  <1>4. Quiet("received") /\ Quiet("push") /\ Quiet("set_read")
    BY <1>3 DEF Quiet
  <1>5. ReadsRefer'
    BY <1>1, <1>2, <1>4, ReadsReferKept, Typing
  <1>6. SendInv'
    BY <1>1, <1>2, WriteToSends DEF Base
  <1>7. RecvInv'
    BY <1>1, <1>2, <1>4, RecvKept DEF Base
  <1>8. ServerTyped'
    BY <1>1, <1>2 DEF ServerTyped
  <1>9. LineStays
    BY <1>1, <1>2, <1>4, ArrivedKept, SameClients DEF LineStays
  <1> QED BY <1>5, <1>6, <1>7, <1>8, <1>9 DEF Base

LEMMA ClientCloseBase == ASSUME Base, NEW c \in 1..Len(client), ClientClose(c) PROVE Base' /\ LineStays
  <1>1. /\ client' = [client EXCEPT ![c].asked = @ + 1]
        /\ strand' = Append(strand, CloseTask(client[c].ep))
        /\ UNCHANGED <<queue, ops, receiving, ep, active, accepted, reported,
                       accepting, shut, clients, heap, arrived, failures>>
    BY DEF ClientClose
  <1>2. ServerTyped /\ SendTyped /\ ReadsRefer /\ client[c].ep \in Endpoints
    BY Typing, ClientFields DEF Base, SendInv
  <1>3. CloseTask(client[c].ep) \in Task /\ CloseTask(client[c].ep).kind = "client_close"
    BY <1>2, TaskMade
  <1>4. Quiet("write") /\ Quiet("sent") /\ Quiet("received") /\ Quiet("push")
        /\ Quiet("set_read")
    BY <1>1, <1>3 DEF Quiet
  <1>5. /\ client' \in Seq(ClientType) /\ Len(client') = Len(client)
        /\ \A d \in 1..Len(client) : Same(d)
    BY <1>1, <1>2, AskedTyped
  <1>6. ReadsRefer'
    BY <1>1, <1>2, <1>4, <1>5, ReadsReferKept, Typing
  <1> QED BY <1>1, <1>2, <1>4, <1>5, <1>6, BaseKept, Typing

LEMMA AcceptorCloseBase == ASSUME Base, AcceptorClose PROVE Base' /\ LineStays
  <1> DEFINE t == [kind |-> "close"]
  <1>1. /\ shut' = TRUE /\ strand' = Append(strand, t)
        /\ client' = Told({c \in DOMAIN client : InMap(c)})
        /\ clients' = [e \in Endpoints |-> 0]
        /\ UNCHANGED <<queue, ops, receiving, ep, active, accepted, reported,
                       accepting, heap, arrived, failures>>
    BY DEF AcceptorClose
  <1>2. ServerTyped /\ SendTyped /\ ReadsRefer
    BY DEF Base, SendInv
  <1>3. t \in Task /\ t.kind = "close"
    BY TaskMade
  <1> HIDE DEF t
  <1>4. Quiet("write") /\ Quiet("sent") /\ Quiet("received") /\ Quiet("push")
        /\ Quiet("set_read")
    BY <1>1, <1>3 DEF Quiet
  <1>5. /\ client' \in Seq(ClientType) /\ Len(client') = Len(client)
        /\ \A d \in 1..Len(client) : Same(d)
    BY <1>1, <1>2, ToldTyped
  <1>6. ReadsRefer'
    BY <1>1, <1>2, <1>4, <1>5, ReadsReferKept, Typing
  <1>7. clients' \in [Endpoints -> Nat] /\ \A e \in Endpoints : clients'[e] \in {clients[e], 0}
    BY <1>1
  <1>8. active' \in BOOLEAN /\ (active' => active) /\ shut' \in BOOLEAN /\ accepting' \in BOOLEAN
    BY <1>1, <1>2, Typing
  <1> QED BY <1>1, <1>4, <1>5, <1>6, <1>7, <1>8, BaseKept

LEMMA ArriveBase == ASSUME Base, Arrive PROVE Base' /\ LineStays
  <1> DEFINE d == [from |-> Traffic[arrived + 1], number |-> arrived + 1]
             t == [kind |-> "received", ok |-> TRUE, data |-> d]
  <1>1. /\ arrived < Len(Traffic) /\ receiving /\ active /\ receiving' = FALSE
        /\ ep' = Traffic[arrived + 1] /\ strand' = Append(strand, t) /\ arrived' = arrived + 1
        /\ UNCHANGED <<queue, ops, active, accepted, reported,
                       accepting, shut, clients, client, heap, failures>>
    BY DEF Arrive, Received
  <1>2. ServerTyped /\ SendTyped /\ ReadsRefer /\ arrived \in Nat /\ OneReceive /\ NoneFailed
    BY Typing DEF Base, SendInv, RecvInv
  <1>3. Traffic[arrived + 1] \in Endpoints /\ arrived + 1 \in Nat /\ arrived + 1 <= Len(Traffic)
    BY <1>1, <1>2, TrafficAssumption
  <1>4. d \in Datagram /\ d.from = Traffic[arrived + 1] /\ d.number = arrived + 1
    BY <1>3 DEF Datagram
  <1> HIDE DEF d
  <1>5. t \in Task /\ t.kind = "received" /\ t.ok /\ t.data = d
    BY <1>4, TaskMade
  <1> HIDE DEF t
  <1>6. Quiet("write") /\ Quiet("sent") /\ Quiet("push") /\ Quiet("set_read")
    BY <1>1, <1>5 DEF Quiet
  <1>7. Tasks("received") = {}
    BY <1>1, <1>2 DEF OneReceive
  <1>8. \A i \in Tasks("received")' : i = Len(strand) + 1 /\ strand'[i] = t
    BY <1>1, <1>2, <1>5, <1>7, Posting DEF SendTyped
  <1>9. Len(strand) + 1 \in Tasks("received")'
    BY <1>1, <1>2, <1>5, Posting DEF SendTyped
  <1>10. RecvInv'
    <2>1. OneReceive'
      BY <1>1, <1>8 DEF OneReceive
    <2>2. InHand'
      BY <1>1, <1>4, <1>5, <1>8 DEF InHand
    <2>3. NoneFailed'
      BY <1>5, <1>8 DEF NoneFailed
    <2>4. KeepsListening'
      BY <1>9 DEF KeepsListening
    <2> QED BY <2>1, <2>2, <2>3, <2>4 DEF RecvInv
  <1>11. SendInv'
    BY <1>1, <1>6, SilentSends DEF Base, Silent
  <1>12. ServerTyped'
    BY <1>1, <1>2, <1>3 DEF ServerTyped
  <1>13. ReadsRefer'
    BY <1>1, <1>2, <1>6, ReadsReferKept, Typing
  <1>14. LineStays
    BY <1>1, <1>2, <1>6, SameClients DEF LineStays
  <1> QED BY <1>10, <1>11, <1>12, <1>13, <1>14 DEF Base

LEMMA FailBase == ASSUME Base, Fail PROVE Base' /\ LineStays
  <1> DEFINE t == [kind |-> "received", ok |-> FALSE]
  <1>1. /\ receiving /\ receiving' = FALSE /\ strand' = Append(strand, t)
        /\ active => failures < MaxFailures
        /\ failures' = IF active THEN failures + 1 ELSE failures
        /\ UNCHANGED <<queue, ops, ep, active, accepted, reported,
                       accepting, shut, clients, client, heap, arrived>>
    BY DEF Fail, ReceiveFailed
  <1>2. ServerTyped /\ SendTyped /\ ReadsRefer /\ failures \in Nat /\ OneReceive /\ NoneFailed
        /\ MaxFailures \in Nat
    BY Typing, ServerBoundsAssumption DEF Base, SendInv, RecvInv
  <1>3. t \in Task /\ t.kind = "received" /\ ~t.ok
    BY TaskMade
  <1> HIDE DEF t
  <1>4. Quiet("write") /\ Quiet("sent") /\ Quiet("push") /\ Quiet("set_read")
    BY <1>1, <1>3 DEF Quiet
  <1>5. Tasks("received") = {}
    BY <1>1, <1>2 DEF OneReceive
  <1>6. \A i \in Tasks("received")' : i = Len(strand) + 1 /\ strand'[i] = t
    BY <1>1, <1>2, <1>3, <1>5, Posting DEF SendTyped
  <1>7. Len(strand) + 1 \in Tasks("received")'
    BY <1>1, <1>2, <1>3, Posting DEF SendTyped
  <1>8. ~(active' /\ failures' = 0)
        \/ ~active
    BY <1>1, <1>2
  <1>9. RecvInv'
    <2>1. OneReceive' /\ InHand'
      BY <1>1, <1>3, <1>6 DEF OneReceive, InHand
    <2>2. NoneFailed'
      BY <1>1, <1>8 DEF NoneFailed
    <2>3. KeepsListening'
      BY <1>7 DEF KeepsListening
    <2> QED BY <2>1, <2>2, <2>3 DEF RecvInv
  <1>10. SendInv'
    BY <1>1, <1>4, SilentSends DEF Base, Silent
  <1>11. failures' \in Nat /\ failures' <= MaxFailures
    BY <1>1, <1>2 DEF ServerTyped
  <1>12. ServerTyped'
    BY <1>1, <1>2, <1>11 DEF ServerTyped
  <1>13. ReadsRefer'
    BY <1>1, <1>2, <1>4, ReadsReferKept, Typing
  <1>14. ~Arrived'
    BY <1>3, <1>6 DEF Arrived
  <1>15. LineStays
    BY <1>1, <1>2, <1>4, <1>14, SameClients DEF LineStays
  <1> QED BY <1>9, <1>10, <1>12, <1>13, <1>15 DEF Base

\* A step of the sending side that leaves the server alone.
LEMMA SendsBase ==
    ASSUME Base, SendInv', Quiet("received"), Quiet("push"), Quiet("set_read"),
           UNCHANGED <<receiving, ep, active, accepting, shut, clients, heap, arrived, failures>>,
           client' \in Seq(ClientType), Len(client') = Len(client),
           \A d \in 1..Len(client) : Same(d)
    PROVE  Base' /\ LineStays
  <1>1. ServerTyped /\ SendTyped /\ ReadsRefer
    BY DEF Base, SendInv
  <1>2. RecvInv'
    BY <1>1, RecvKept DEF Base
  <1>3. ServerTyped'
    BY <1>1 DEF ServerTyped
  <1>4. ReadsRefer'
    BY <1>1, ReadsReferKept, Typing
  <1>5. LineStays
    BY <1>1, ArrivedKept, Typing DEF LineStays
  <1> QED BY <1>2, <1>3, <1>4, <1>5 DEF Base

LEMMA SendSettlesBase == ASSUME Base, SendSettlesHere PROVE Base' /\ LineStays
  <1>1. PICK i \in 1..Len(ops), ok \in BOOLEAN : SendAnswered(i, ok)
    BY DEF SendSettlesHere, SendSettles
  <1> DEFINE t == [kind |-> "sent", msg |-> ops[i], ok |-> ok]
  <1>2. /\ strand' = Append(strand, t)
        /\ UNCHANGED <<receiving, ep, active, accepting, shut, clients, client, heap, arrived, failures>>
    BY <1>1 DEF SendAnswered, SendSettlesHere, serverVars
  <1>3. ServerTyped /\ SendTyped /\ ops[i] \in Message
    BY DEF Base, SendInv, SendTyped
  <1>4. t \in Task /\ t.kind = "sent"
    BY <1>3, TaskMade
  <1> HIDE DEF t
  <1>5. Quiet("received") /\ Quiet("push") /\ Quiet("set_read")
    BY <1>2, <1>4 DEF Quiet
  <1>6. SendInv'
    BY <1>1, AnsweredSends DEF Base
  <1> QED BY <1>2, <1>3, <1>5, <1>6, SendsBase, SameClients

LEMMA WriteToQueueBase == ASSUME Base, WriteToQueue, UNCHANGED serverVars PROVE Base' /\ LineStays
  <1>1. /\ strand # <<>> /\ Head(strand).kind = "write" /\ strand' = Tail(strand)
        /\ UNCHANGED <<receiving, ep, active, accepting, shut, clients, client, heap, arrived, failures>>
    BY DEF WriteToQueue, Runs, serverVars
  <1>2. ServerTyped /\ SendTyped
    BY DEF Base, SendInv
  <1>3. strand' = Tail(strand) \o <<>>
    BY <1>1, <1>2 DEF SendTyped
  <1>4. Quiet("received") /\ Quiet("push") /\ Quiet("set_read")
    BY <1>1, <1>3 DEF Quiet
  <1>5. SendInv'
    BY QueuedSends DEF Base
  <1> QED BY <1>1, <1>2, <1>4, <1>5, SendsBase, SameClients

LEMMA SendDoneBase == ASSUME Base, SendDone PROVE Base' /\ LineStays
  <1>1. /\ Runs("sent") /\ reported' = Append(reported, Head(queue)) /\ queue' = Tail(queue)
        /\ IF queue' # <<>> THEN AsyncWrite(Head(queue')) ELSE UNCHANGED ops
        /\ accepted' = accepted /\ strand' = Tail(strand) \o <<>>
        /\ UNCHANGED <<receiving, ep, active, accepting, shut, clients, client, heap, arrived, failures>>
    BY DEF SendDone, SendHandler, PopSent, serverVars
  <1>2. ServerTyped
    BY DEF Base
  <1>3. Quiet("received") /\ Quiet("push") /\ Quiet("set_read")
    BY <1>1 DEF Quiet, Runs
  <1>4. SendInv'
    BY <1>1, HandledSends DEF Base
  <1> QED BY <1>1, <1>2, <1>3, <1>4, SendsBase, SameClients

LEMMA SendErrorBase == ASSUME Base, SendError PROVE Base' /\ LineStays
  <1>1. ServerTyped
    BY DEF Base
  <1>2. CASE /\ ~(Known(ep) /\ Usable(clients[ep])) /\ UNCHANGED client /\ SendHandler(<<>>)
    <2>1. /\ Runs("sent") /\ reported' = Append(reported, Head(queue)) /\ queue' = Tail(queue)
          /\ IF queue' # <<>> THEN AsyncWrite(Head(queue')) ELSE UNCHANGED ops
          /\ accepted' = accepted /\ strand' = Tail(strand) \o <<>>
          /\ UNCHANGED <<receiving, ep, active, accepting, shut, clients, client, heap, arrived, failures>>
      BY <1>2 DEF SendError, SendHandler, PopSent
    <2>2. Quiet("received") /\ Quiet("push") /\ Quiet("set_read")
      BY <2>1 DEF Quiet, Runs
    <2>3. SendInv'
      BY <2>1, HandledSends DEF Base
    <2> QED BY <1>1, <2>1, <2>2, <2>3, SendsBase, SameClients
  <1>3. CASE /\ Known(ep) /\ Usable(clients[ep])
             /\ client' = [client EXCEPT ![clients[ep]].asked = @ + 1]
             /\ SendHandler(<<CloseTask(ep)>>)
    <2> DEFINE t == CloseTask(ep)
               c == clients[ep]
    <2>1. /\ Runs("sent") /\ reported' = Append(reported, Head(queue)) /\ queue' = Tail(queue)
          /\ IF queue' # <<>> THEN AsyncWrite(Head(queue')) ELSE UNCHANGED ops
          /\ accepted' = accepted /\ strand' = Tail(strand) \o <<t>>
          /\ UNCHANGED <<receiving, ep, active, accepting, shut, clients, heap, arrived, failures>>
      BY <1>3 DEF SendError, SendHandler, PopSent
    <2>2. ep \in Endpoints /\ c \in 1..Len(client)
      BY <1>1, <1>3, Typing DEF Known
    <2>3. t \in Task /\ t.kind = "client_close"
      BY <2>2, TaskMade
    <2>4. /\ client' \in Seq(ClientType) /\ Len(client') = Len(client)
          /\ \A d \in 1..Len(client) : Same(d)
      BY <1>1, <1>3, <2>2, AskedTyped
    <2> HIDE DEF t, c
    <2>5. Quiet("received") /\ Quiet("push") /\ Quiet("set_read")
      BY <2>1, <2>3 DEF Quiet, Runs
    <2>6. t.kind \notin {"write", "sent"}
      BY <2>3
    <2>7. SendInv'
      BY <2>1, <2>3, <2>6, HandledSends DEF Base
    <2> QED BY <2>1, <2>4, <2>5, <2>7, SendsBase
  <1> QED BY <1>2, <1>3 DEF SendError

LEMMA ClientCloseImplBase == ASSUME Base, ClientCloseImpl PROVE Base' /\ LineStays
  <1> DEFINE e == Head(strand).at
  <1>1. /\ strand # <<>> /\ Head(strand).kind = "client_close" /\ strand' = Tail(strand) \o <<>>
        /\ \/ Known(e)  /\ client' = Told({clients[e]}) /\ clients' = [clients EXCEPT ![e] = 0]
           \/ ~Known(e) /\ UNCHANGED <<client, clients>>
        /\ UNCHANGED <<queue, ops, receiving, ep, active, accepted, reported,
                       accepting, shut, heap, arrived, failures>>
    BY DEF ClientCloseImpl, OtherHandler, Runs
  <1>2. ServerTyped /\ SendTyped /\ ReadsRefer
    BY DEF Base, SendInv
  <1> HIDE DEF e
  <1>3. Quiet("write") /\ Quiet("sent") /\ Quiet("received") /\ Quiet("push")
        /\ Quiet("set_read")
    BY <1>1 DEF Quiet
  <1>4. /\ client' \in Seq(ClientType) /\ Len(client') = Len(client)
        /\ \A d \in 1..Len(client) : Same(d)
    BY <1>1, <1>2, ToldTyped, SameClients
  <1>5. ReadsRefer'
    BY <1>2, <1>3, <1>4, ReadsReferKept, Typing
  <1>6. clients' \in [Endpoints -> Nat] /\ \A f \in Endpoints : clients'[f] \in {clients[f], 0}
    <2>1. clients \in [Endpoints -> Nat]
      BY <1>2, Typing
    <2>2. clients' = [clients EXCEPT ![e] = 0] \/ clients' = clients
      BY <1>1
    <2> QED BY <2>1, <2>2
  <1>7. active' \in BOOLEAN /\ (active' => active) /\ shut' \in BOOLEAN /\ accepting' \in BOOLEAN
    BY <1>1, <1>2, Typing
  <1> QED BY <1>1, <1>3, <1>4, <1>5, <1>6, <1>7, BaseKept

LEMMA TransportCloseBase == ASSUME Base, TransportClose PROVE Base' /\ LineStays
  <1>1. /\ strand # <<>> /\ Head(strand).kind = "close" /\ strand' = Tail(strand)
        /\ active' = FALSE
        /\ client' = client \/ client' = Told({clients[ep]})
        /\ UNCHANGED <<queue, ops, receiving, ep, accepted, reported,
                       accepting, shut, clients, heap, arrived, failures>>
    BY DEF TransportClose, CloseImpl, Runs
  <1>2. ServerTyped /\ SendTyped /\ ReadsRefer
    BY DEF Base, SendInv
  <1>3. strand' = Tail(strand) \o <<>>
    BY <1>1, <1>2 DEF SendTyped
  <1>4. Quiet("write") /\ Quiet("sent") /\ Quiet("received") /\ Quiet("push")
        /\ Quiet("set_read")
    BY <1>1, <1>3 DEF Quiet
  <1>5. /\ client' \in Seq(ClientType) /\ Len(client') = Len(client)
        /\ \A d \in 1..Len(client) : Same(d)
    BY <1>1, <1>2, ToldTyped, SameClients
  <1>6. ReadsRefer'
    BY <1>2, <1>4, <1>5, ReadsReferKept, Typing
  <1>7. clients' \in [Endpoints -> Nat] /\ \A f \in Endpoints : clients'[f] \in {clients[f], 0}
    BY <1>1, <1>2, Typing
  <1>8. active' \in BOOLEAN /\ (active' => active) /\ shut' \in BOOLEAN /\ accepting' \in BOOLEAN
    BY <1>1, <1>2, Typing
  <1> QED BY <1>1, <1>4, <1>5, <1>6, <1>7, <1>8, BaseKept

(***************************************************************************)
(* What the clients get.  A buffer that is delivered has not been given out   *)
(* again since it was filled: that is what BufferInOnePlace is for.  The      *)
(* order of delivery is the order of coming, because a datagram comes with a  *)
(* number above all that came before (Fresh), is filed last, and overtakes    *)
(* nothing that waits: a client reads only when nothing does.                *)
(***************************************************************************)
PushesRefer == \A i \in Tasks("push") : strand[i].client \in 1..Len(client)

MapRight == \A e \in Endpoints : clients[e] # 0 => client[clients[e]].ep = e

ReadsWhenEmpty == \A c \in 1..Len(client) : client[c].read => client[c].queue = <<>>

\* Did the datagram with number n come, and before the one in hand?
Earlier(n) == n <= arrived /\ (Arrived => n < arrived)

Fresh ==
    \A c \in 1..Len(client) :
       /\ \A x \in Line(c) : Earlier(x.data.number)
       /\ \A n \in 1..Len(client[c].given) : Earlier(client[c].given[n].number)

IInv ==
    /\ Base /\ PushesRefer /\ MapRight /\ ReadsWhenEmpty
    /\ TypeOK /\ BufferInOnePlace /\ DeliveredInOrder /\ Fresh

(***************************************************************************)
(* The handlers of the receive.                                              *)
(***************************************************************************)
LEMMA HandledRecv ==
    ASSUME SendTyped, OneReceive, Runs("received"),
           \/ strand' = Tail(strand) \o <<>>
           \/ \E t \in Task : t.kind # "received" /\ strand' = Tail(strand) \o <<t>>
    PROVE  /\ strand[1] = Head(strand) /\ Head(strand) \in Task /\ 1 \in Tasks("received")
           /\ Tasks("received") = {1} /\ Tasks("received")' = {}
  <1>1. strand \in Seq(Task) /\ strand # <<>> /\ Head(strand).kind = "received"
    BY DEF SendTyped, Runs
  <1>2. 1 \in Tasks("received") /\ strand[1] = Head(strand) /\ Head(strand) \in Task
    BY <1>1, Running, RunningPosts
  <1>3. Tasks("received") = {1}
    BY <1>2 DEF OneReceive
  <1>4. ASSUME NEW i \in Tasks("received")' PROVE FALSE
    <2>1. i \in Nat /\ i > 0
      BY TaskPlaces
    <2>2. i + 1 \in Tasks("received")
      BY <1>1, Running, RunningPosts
    <2> QED BY <1>3, <2>1, <2>2
  <1> QED BY <1>2, <1>3, <1>4

LEMMA OnReadErrorBase == ASSUME Base, OnReadError PROVE Base' /\ LineStays
  <1>1. /\ Runs("received") /\ ~Head(strand).ok /\ strand' = Tail(strand) \o <<>>
        /\ UNCHANGED <<queue, ops, receiving, ep, active, accepted, reported,
                       accepting, shut, clients, client, heap, arrived, failures>>
    BY DEF OnReadError, ReadHandler, serverVars
  <1>2. ServerTyped /\ SendTyped /\ ReadsRefer /\ OneReceive /\ NoneFailed
    BY DEF Base, SendInv, RecvInv
  <1>3. /\ strand[1] = Head(strand) /\ 1 \in Tasks("received")
        /\ Tasks("received")' = {}
    BY <1>1, <1>2, HandledRecv
  <1>4. Quiet("write") /\ Quiet("sent") /\ Quiet("push") /\ Quiet("set_read")
    BY <1>1 DEF Quiet, Runs
  <1>5. SendInv'
    BY <1>1, <1>4, SilentSends DEF Base, Silent
  <1>6. RecvInv'
    <2>1. ~(active /\ failures = 0)
      BY <1>1, <1>2, <1>3 DEF NoneFailed
    <2>2. OneReceive' /\ InHand' /\ NoneFailed'
      BY <1>3 DEF OneReceive, InHand, NoneFailed
    <2>3. KeepsListening'
      BY <1>1, <2>1 DEF KeepsListening
    <2> QED BY <2>2, <2>3 DEF RecvInv
  <1>7. ServerTyped'
    BY <1>1, <1>2 DEF ServerTyped
  <1>8. ReadsRefer'
    BY <1>1, <1>2, <1>4, ReadsReferKept, Typing
  <1>9. LineStays
    BY <1>1, <1>2, <1>3, <1>4, SameClients DEF LineStays, Arrived
  <1> QED BY <1>5, <1>6, <1>7, <1>8, <1>9 DEF Base

\* on_data, whatever becomes of the datagram.
LEMMA OnDataRecv ==
    ASSUME Base, Runs("received"), Head(strand).ok, ReadFrom,
           \/ strand' = Tail(strand) \o <<>>
           \/ \E t \in Task : t.kind = "push" /\ strand' = Tail(strand) \o <<t>>,
           UNCHANGED <<queue, ops, active, accepted, reported, shut, arrived, failures>>
    PROVE  /\ SendInv' /\ RecvInv' /\ Quiet("set_read")
           /\ receiving' \in BOOLEAN /\ active' \in BOOLEAN /\ ep' \in Endpoints \cup {NoEndpoint}
           /\ shut' \in BOOLEAN /\ arrived' \in Nat /\ arrived' <= Len(Traffic)
           /\ failures' \in Nat /\ failures' <= MaxFailures
           /\ Head(strand).data \in Datagram /\ ep \in Endpoints
           /\ Head(strand).data.from = ep /\ Head(strand).data.number = arrived
           /\ Arrived /\ ~Arrived'
  <1>1. ServerTyped /\ SendTyped /\ OneReceive /\ NoneFailed /\ InHand
    BY DEF Base, SendInv, RecvInv
  <1>2. \/ strand' = Tail(strand) \o <<>>
        \/ \E t \in Task : t.kind # "received" /\ strand' = Tail(strand) \o <<t>>
    OBVIOUS
  <1>3. /\ strand[1] = Head(strand) /\ Head(strand) \in Task /\ 1 \in Tasks("received")
        /\ Tasks("received")' = {}
    BY <1>1, <1>2, HandledRecv
  <1>4. Head(strand).data \in Datagram
    BY <1>3, TaskKind DEF Runs
  <1>5. Head(strand).data.from = ep /\ Head(strand).data.number = arrived
    BY <1>1, <1>3 DEF InHand
  <1>6. ep \in Endpoints
    BY <1>4, <1>5 DEF Datagram
  <1>7. Quiet("write") /\ Quiet("sent") /\ Quiet("set_read")
    BY DEF Quiet, Runs
  <1>8. SendInv'
    BY <1>7, SilentSends DEF Base, Silent
  <1>9. RecvInv'
    BY <1>3 DEF RecvInv, OneReceive, InHand, NoneFailed, KeepsListening, ReadFrom
  <1>10. Arrived /\ ~Arrived'
    BY <1>3 DEF Arrived
  <1> QED BY <1>1, <1>4, <1>5, <1>6, <1>7, <1>8, <1>9, <1>10 DEF ReadFrom, ServerTyped

LEMMA IgnoreDataBase == ASSUME Base, OnData, IgnoreData PROVE Base' /\ LineStays
  <1>1. /\ Runs("received") /\ Head(strand).ok /\ strand' = Tail(strand) \o <<>> /\ ReadFrom
        /\ UNCHANGED <<queue, ops, active, accepted, reported,
                       accepting, shut, clients, client, heap, arrived, failures>>
    BY DEF OnData, IgnoreData, ReadHandler
  <1>2. ServerTyped /\ SendTyped /\ ReadsRefer
    BY DEF Base, SendInv
  <1>3. Quiet("push")
    BY <1>1 DEF Quiet, Runs
  <1>4. SendInv' /\ RecvInv' /\ Quiet("set_read") /\ ~Arrived'
        /\ receiving' \in BOOLEAN /\ ep' \in Endpoints \cup {NoEndpoint}
    BY <1>1, OnDataRecv
  <1>5. ServerTyped'
    BY <1>1, <1>2, <1>4 DEF ServerTyped
  <1>6. ReadsRefer'
    BY <1>1, <1>2, <1>4, ReadsReferKept, Typing
  <1>7. LineStays
    BY <1>1, <1>2, <1>3, <1>4, SameClients DEF LineStays
  <1> QED BY <1>4, <1>5, <1>6, <1>7 DEF Base

\* A task of a client's own is run.
LEMMA OwnTaskBase ==
    ASSUME Base, strand # <<>>, Head(strand).kind \in {"set_read", "push"},
           strand' = Tail(strand) \o <<>>,
           UNCHANGED <<queue, ops, receiving, ep, active, accepted, reported,
                       accepting, shut, clients, heap, arrived, failures>>,
           client' \in Seq(ClientType), Len(client') = Len(client)
    PROVE  Base' /\ (Arrived' => Arrived)
  <1>1. ServerTyped /\ SendTyped /\ ReadsRefer
    BY DEF Base, SendInv
  <1>2. Quiet("write") /\ Quiet("sent") /\ Quiet("received")
    BY DEF Quiet
  <1>3. SendInv'
    BY <1>2, SilentSends DEF Base, Silent
  <1>4. RecvInv'
    BY <1>1, <1>2, RecvKept DEF Base
  <1>5. ServerTyped'
    BY <1>1 DEF ServerTyped
  <1>6. \A i \in Tasks("set_read")' : i + 1 \in Tasks("set_read") /\ strand'[i] = strand[i + 1]
    BY <1>1, Running DEF SendTyped
  <1>7. ReadsRefer'
    BY <1>1, <1>6 DEF ReadsRefer
  <1> QED BY <1>1, <1>2, <1>3, <1>4, <1>5, <1>7, ArrivedKept DEF Base

(***************************************************************************)
(* The places of a buffer and of a datagram, one at a time.                   *)
(***************************************************************************)

\* Buffer b is in place n of stage s of client c.
At(c, s, n, b) ==
    \/ s = 0 /\ n \in 1..Len(client[c].cache) /\ b = client[c].cache[n]
    \/ s = 2 /\ n \in 1..Len(client[c].queue) /\ b = client[c].queue[n]
    \/ s = 3 /\ n \in PushesTo(c) /\ b = strand[n].buf

\* Datagram x is in place n of stage s of client c.
Has(c, s, n, x) ==
    \/ s = 1 /\ n \in 1..Len(client[c].got) /\ x = client[c].got[n]
    \/ s = 2 /\ n \in 1..Len(client[c].queue) /\ x = heap[client[c].queue[n]]
    \/ s = 3 /\ n \in PushesTo(c) /\ x = heap[strand[n].buf]

Referring == \A c \in 1..Len(client) : \A s, n, b : At(c, s, n, b) => b \in 1..Len(heap)

Disjoint ==
    \A c, d \in 1..Len(client) : \A s, n, t, m, b :
       At(c, s, n, b) /\ At(d, t, m, b) => c = d /\ s = t /\ n = m

FromPeer == \A c \in 1..Len(client) : \A s, n, x : Has(c, s, n, x) => x.from = client[c].ep

InOrder ==
    \A c \in 1..Len(client) : \A s, n, x, t, m, y :
       Has(c, s, n, x) /\ Has(c, t, m, y) /\ (s < t \/ (s = t /\ n < m)) => x.number < y.number

AllEarlier == \A c \in 1..Len(client) : \A s, n, x : Has(c, s, n, x) => Earlier(x.number)

GivenEarlier == \A c \in 1..Len(client) : \A n \in 1..Len(client[c].given) : Earlier(client[c].given[n].number)

CacheBounded == \A c \in 1..Len(client) : Len(client[c].cache) <= MaxCache

LEMMA BufferPlaces ==
    ASSUME NEW c
    PROVE  /\ \A p \in BuffersOf(c) : /\ At(c, p.stage, p.nth, p.buf)
                                      /\ p = [stage |-> p.stage, nth |-> p.nth, buf |-> p.buf]
           /\ \A s, n, b : At(c, s, n, b) => [stage |-> s, nth |-> n, buf |-> b] \in BuffersOf(c)
  <1>1. ASSUME NEW p \in Kept(c)
        PROVE  At(c, p.stage, p.nth, p.buf) /\ p = [stage |-> p.stage, nth |-> p.nth, buf |-> p.buf]
    BY DEF Kept, At
  <1>2. ASSUME NEW p \in Queued(c)
        PROVE  At(c, p.stage, p.nth, p.buf) /\ p = [stage |-> p.stage, nth |-> p.nth, buf |-> p.buf]
    BY DEF Queued, At
  <1>3. ASSUME NEW p \in Posted(c)
        PROVE  At(c, p.stage, p.nth, p.buf) /\ p = [stage |-> p.stage, nth |-> p.nth, buf |-> p.buf]
    BY DEF Posted, At
  <1>4. ASSUME NEW s, NEW n, NEW b, At(c, s, n, b)
        PROVE  [stage |-> s, nth |-> n, buf |-> b] \in BuffersOf(c)
    <2>1. CASE s = 0
      BY <1>4, <2>1 DEF At, BuffersOf, Kept
    <2>2. CASE s = 2
      BY <1>4, <2>2 DEF At, BuffersOf, Queued
    <2>3. CASE s = 3
      BY <1>4, <2>3 DEF At, BuffersOf, Posted
    <2> QED BY <1>4, <2>1, <2>2, <2>3 DEF At
  <1> QED BY <1>1, <1>2, <1>3, <1>4 DEF BuffersOf

LEMMA LinePlaces ==
    ASSUME NEW c
    PROVE  /\ \A z \in Line(c) : Has(c, z.stage, z.nth, z.data)
           /\ \A s, n, x : Has(c, s, n, x) => [stage |-> s, nth |-> n, data |-> x] \in Line(c)
  <1>1. ASSUME NEW z \in Got(c) PROVE Has(c, z.stage, z.nth, z.data)
    BY DEF Got, Has
  <1>2. ASSUME NEW p \in Queued(c) PROVE Has(c, p.stage, p.nth, heap[p.buf])
    BY DEF Queued, Has
  <1>3. ASSUME NEW p \in Posted(c) PROVE Has(c, p.stage, p.nth, heap[p.buf])
    BY DEF Posted, Has
  <1>4. ASSUME NEW z \in Line(c) PROVE Has(c, z.stage, z.nth, z.data)
    <2>1. CASE z \in Got(c)
      BY <1>1, <2>1
    <2>2. ASSUME NEW p \in Queued(c) \cup Posted(c),
                 z = [stage |-> p.stage, nth |-> p.nth, data |-> heap[p.buf]]
          PROVE  Has(c, z.stage, z.nth, z.data)
      BY <1>2, <1>3, <2>2
    <2> QED BY <2>1, <2>2 DEF Line
  <1>5. ASSUME NEW s, NEW n, NEW x, Has(c, s, n, x)
        PROVE  [stage |-> s, nth |-> n, data |-> x] \in Line(c)
    <2>1. CASE s = 1
      BY <1>5, <2>1 DEF Has, Line, Got
    <2>2. CASE s = 2
      <3> DEFINE p == [stage |-> 2, nth |-> n, buf |-> client[c].queue[n]]
      <3>1. p \in Queued(c) /\ p.stage = s /\ p.nth = n /\ heap[p.buf] = x
        BY <1>5, <2>2 DEF Has, Queued
      <3> HIDE DEF p
      <3> QED BY <3>1 DEF Line
    <2>3. CASE s = 3
      <3> DEFINE p == [stage |-> 3, nth |-> n, buf |-> strand[n].buf]
      <3>1. p \in Posted(c) /\ p.stage = s /\ p.nth = n /\ heap[p.buf] = x
        BY <1>5, <2>3 DEF Has, Posted
      <3> HIDE DEF p
      <3> QED BY <3>1 DEF Line
    <2> QED BY <1>5, <2>1, <2>2, <2>3 DEF Has
  <1> QED BY <1>4, <1>5

\* The invariants of the model, place by place.
LineInv == Referring /\ Disjoint /\ FromPeer /\ InOrder /\ AllEarlier /\ GivenEarlier /\ CacheBounded

LEMMA ByPlaces ==
    ServerTyped => (TypeOK /\ BufferInOnePlace /\ DeliveredInOrder /\ Fresh <=> LineInv)
  <1> SUFFICES ASSUME ServerTyped
               PROVE  TypeOK /\ BufferInOnePlace /\ DeliveredInOrder /\ Fresh <=> LineInv
    OBVIOUS
  <1>1. /\ DOMAIN client = 1..Len(client) /\ DOMAIN heap = 1..Len(heap)
        /\ \A c \in 1..Len(client) : client[c].ep \in Endpoints
    BY Typing, ClientFields
  <1>2. (\A c \in 1..Len(client) : \A p \in BuffersOf(c) : p.buf \in DOMAIN heap) <=> Referring
    <2>1. ASSUME \A c \in 1..Len(client) : \A p \in BuffersOf(c) : p.buf \in DOMAIN heap PROVE Referring
      <3> SUFFICES ASSUME NEW c \in 1..Len(client), NEW s, NEW n, NEW b, At(c, s, n, b)
                   PROVE  b \in 1..Len(heap)
        BY DEF Referring
      <3> DEFINE p == [stage |-> s, nth |-> n, buf |-> b]
      <3>1. p \in BuffersOf(c)
        BY BufferPlaces
      <3> QED BY <1>1, <2>1, <3>1
    <2>2. ASSUME Referring, NEW c \in 1..Len(client), NEW p \in BuffersOf(c) PROVE p.buf \in DOMAIN heap
      BY <1>1, <2>2, BufferPlaces DEF Referring
    <2> QED BY <2>1, <2>2
  <1>3. TypeOK <=> Referring /\ CacheBounded
    <2>1. /\ {accepting, shut} \subseteq BOOLEAN /\ clients \in [Endpoints -> 0..Len(client)]
          /\ arrived \in 0..Len(Traffic) /\ failures \in 0..MaxFailures
      <3>1. clients \in [Endpoints -> Nat] /\ \A e \in Endpoints : clients[e] \in 0..Len(client)
        BY Typing
      <3>2. clients \in [Endpoints -> 0..Len(client)]
        BY <3>1
      <3>3. arrived \in 0..Len(Traffic) /\ failures \in 0..MaxFailures
        BY TrafficAssumption, ServerBoundsAssumption DEF ServerTyped
      <3> QED BY <3>2, <3>3 DEF ServerTyped
    <2> QED BY <1>1, <1>2, <2>1 DEF TypeOK, CacheBounded
  <1>4. BufferInOnePlace <=> Disjoint
    <2>1. ASSUME BufferInOnePlace PROVE Disjoint
      <3> SUFFICES ASSUME NEW c \in 1..Len(client), NEW d \in 1..Len(client),
                          NEW s, NEW n, NEW t, NEW m, NEW b, At(c, s, n, b), At(d, t, m, b)
                   PROVE  c = d /\ s = t /\ n = m
        BY DEF Disjoint
      <3> DEFINE p == [stage |-> s, nth |-> n, buf |-> b]
                 q == [stage |-> t, nth |-> m, buf |-> b]
      <3>1. p \in BuffersOf(c) /\ q \in BuffersOf(d)
        BY BufferPlaces
      <3>2. /\ p.stage = s /\ p.nth = n /\ p.buf = b
            /\ q.stage = t /\ q.nth = m /\ q.buf = b
        OBVIOUS
      <3> HIDE DEF p, q
      <3>3. c = d /\ p = q
        BY <1>1, <2>1, <3>1, <3>2 DEF BufferInOnePlace
      <3> QED BY <3>2, <3>3
    <2>2. ASSUME Disjoint, NEW c \in DOMAIN client, NEW d \in DOMAIN client,
                 NEW p \in BuffersOf(c), NEW q \in BuffersOf(d), p.buf = q.buf
          PROVE  c = d /\ p = q
      <3>1. /\ At(c, p.stage, p.nth, p.buf) /\ At(d, q.stage, q.nth, q.buf)
            /\ p = [stage |-> p.stage, nth |-> p.nth, buf |-> p.buf]
            /\ q = [stage |-> q.stage, nth |-> q.nth, buf |-> q.buf]
        BY BufferPlaces
      <3>2. c = d /\ p.stage = q.stage /\ p.nth = q.nth
        BY <1>1, <2>2, <3>1 DEF Disjoint
      <3> QED BY <2>2, <3>1, <3>2
    <2> QED BY <2>1, <2>2 DEF BufferInOnePlace
  <1>5. DeliveredInOrder <=> FromPeer /\ InOrder
    <2>1. ASSUME DeliveredInOrder, NEW c \in 1..Len(client), NEW s, NEW n, NEW x, Has(c, s, n, x)
          PROVE  x.from = client[c].ep
      <3> DEFINE z == [stage |-> s, nth |-> n, data |-> x]
      <3>1. z \in Line(c) /\ z.data = x
        BY <2>1, LinePlaces
      <3> QED BY <1>1, <2>1, <3>1 DEF DeliveredInOrder
    <2>2. ASSUME DeliveredInOrder, NEW c \in 1..Len(client), NEW s, NEW n, NEW x, NEW t, NEW m, NEW y,
                 Has(c, s, n, x), Has(c, t, m, y), s < t \/ (s = t /\ n < m)
          PROVE  x.number < y.number
      <3> DEFINE z == [stage |-> s, nth |-> n, data |-> x]
                 w == [stage |-> t, nth |-> m, data |-> y]
      <3>1. z \in Line(c) /\ w \in Line(c)
        BY <2>2, LinePlaces
      <3>2. /\ z.stage = s /\ z.nth = n /\ z.data = x
            /\ w.stage = t /\ w.nth = m /\ w.data = y
        OBVIOUS
      <3> HIDE DEF z, w
      <3>3. Before(z, w)
        BY <2>2, <3>2 DEF Before
      <3> QED BY <1>1, <2>2, <3>1, <3>2, <3>3 DEF DeliveredInOrder
    <2>3. ASSUME FromPeer, InOrder, NEW c \in DOMAIN client, NEW x \in Line(c), NEW y \in Line(c)
          PROVE  x.data.from = client[c].ep /\ (Before(x, y) => x.data.number < y.data.number)
      <3>1. Has(c, x.stage, x.nth, x.data) /\ Has(c, y.stage, y.nth, y.data)
        BY LinePlaces
      <3> QED BY <1>1, <2>3, <3>1 DEF FromPeer, InOrder, Before
    <2> QED BY <2>1, <2>2, <2>3 DEF DeliveredInOrder, FromPeer, InOrder
  <1>6. Fresh <=> AllEarlier /\ GivenEarlier
    <2>1. ASSUME Fresh, NEW c \in 1..Len(client), NEW s, NEW n, NEW x, Has(c, s, n, x)
          PROVE  Earlier(x.number)
      <3> DEFINE z == [stage |-> s, nth |-> n, data |-> x]
      <3>1. z \in Line(c) /\ z.data = x
        BY <2>1, LinePlaces
      <3> QED BY <2>1, <3>1 DEF Fresh
    <2>2. ASSUME AllEarlier, NEW c \in 1..Len(client), NEW x \in Line(c)
          PROVE  Earlier(x.data.number)
      <3>1. Has(c, x.stage, x.nth, x.data)
        BY LinePlaces
      <3> QED BY <2>2, <3>1 DEF AllEarlier
    <2> QED BY <2>1, <2>2 DEF Fresh, AllEarlier, GivenEarlier
  <1> QED BY <1>3, <1>4, <1>5, <1>6 DEF LineInv

\* The datagrams in the line of client c.
Data(c) == {x.data : x \in Line(c)}

DataRight == \A d, x : x \in Data(d) <=> \E s, n : Has(d, s, n, x)

LEMMA DataIs == DataRight
  <1> SUFFICES ASSUME NEW c, NEW x PROVE x \in Data(c) <=> \E s, n : Has(c, s, n, x)
    BY DEF DataRight
  <1>1. ASSUME x \in Data(c) PROVE \E s, n : Has(c, s, n, x)
    <2>1. PICK z \in Line(c) : x = z.data
      BY <1>1 DEF Data
    <2> QED BY <2>1, LinePlaces
  <1>2. ASSUME NEW s, NEW n, Has(c, s, n, x) PROVE x \in Data(c)
    <2> DEFINE z == [stage |-> s, nth |-> n, data |-> x]
    <2>1. z \in Line(c) /\ z.data = x
      BY <1>2, LinePlaces
    <2> QED BY <2>1 DEF Data
  <1> QED BY <1>1, <1>2

MissingRight == \A d : Missing(d) = Range(client[d].given) \ Data(d)

LEMMA MissingIs == MissingRight
  BY DEF MissingRight, Missing, Data

Lines == PushesRefer /\ MapRight /\ ReadsWhenEmpty /\ LineInv

\* What a step may lose.
Losing ==
    \A c \in 1..Len(client) :
       Missing(c)' # Missing(c) => Len(client[c].queue) >= MaxCache \/ ~Alive(c)

\* Every place has been filled from one before.
Comes ==
    /\ \A c \in 1..Len(client) : \A s, n, b : At(c, s, n, b)' => \E t, m : At(c, t, m, b)
    /\ \A c \in 1..Len(client) : \A s, n, x : Has(c, s, n, x)' => \E t, m : Has(c, t, m, x)

\* No client of old changes its address, or is meant for another datagram.
SameGiven ==
    /\ Len(client') = Len(client) /\ heap' = heap
    /\ \A c \in 1..Len(client) : client'[c].ep = client[c].ep /\ client'[c].given = client[c].given
    /\ (arrived' = arrived /\ (Arrived' => Arrived)) \/ arrived' = arrived + 1

LEMMA EarlierKept ==
    ASSUME arrived \in Nat, (arrived' = arrived /\ (Arrived' => Arrived)) \/ arrived' = arrived + 1,
           NEW n \in Nat, Earlier(n)
    PROVE  Earlier(n)'
  BY DEF Earlier

\* A datagram that a client has is one.
LEMMA HasTyped ==
    ASSUME ServerTyped, Referring, NEW c \in 1..Len(client), NEW s, NEW n, NEW x, Has(c, s, n, x)
    PROVE  x \in Datagram /\ x.number \in Nat /\ x.from \in Endpoints
  <1>1. client[c].got \in Seq(Datagram) /\ \A b \in 1..Len(heap) : heap[b] \in Datagram
    BY Typing, ClientFields
  <1>2. x \in Datagram
    <2>1. CASE s = 1
      BY <1>1, <2>1 DEF Has
    <2>2. CASE s = 2
      <3>1. At(c, 2, n, client[c].queue[n]) /\ x = heap[client[c].queue[n]]
        BY <2>2 DEF Has, At
      <3> QED BY <1>1, <3>1 DEF Referring
    <2>3. CASE s = 3
      <3>1. At(c, 3, n, strand[n].buf) /\ x = heap[strand[n].buf]
        BY <2>3 DEF Has, At
      <3> QED BY <1>1, <3>1 DEF Referring
    <2> QED BY <2>1, <2>2, <2>3 DEF Has
  <1> QED BY <1>2 DEF Datagram

LEMMA LinesKept ==
    ASSUME ServerTyped, LineInv, SameGiven, Comes
    PROVE  Referring' /\ FromPeer' /\ AllEarlier' /\ GivenEarlier'
  <1>1. arrived \in Nat
    BY Typing
  <1>2. Referring'
    BY DEF LineInv, Referring, SameGiven, Comes
  <1>3. FromPeer'
    BY DEF LineInv, FromPeer, SameGiven, Comes
  <1>4. AllEarlier'
    <2> SUFFICES ASSUME NEW c \in 1..Len(client), NEW s, NEW n, NEW x, Has(c, s, n, x)'
                 PROVE  Earlier(x.number)'
      BY DEF AllEarlier, SameGiven
    <2>1. PICK t, m : Has(c, t, m, x)
      BY DEF Comes
    <2>2. x.number \in Nat
      BY <2>1, HasTyped DEF LineInv
    <2>3. Earlier(x.number)
      BY <2>1 DEF LineInv, AllEarlier
    <2> QED BY <1>1, <2>2, <2>3, EarlierKept DEF SameGiven
  <1>5. GivenEarlier'
    <2> SUFFICES ASSUME NEW c \in 1..Len(client), NEW n \in 1..Len(client[c].given)
                 PROVE  Earlier(client[c].given[n].number)'
      BY DEF GivenEarlier, SameGiven
    <2>1. client[c].given[n].number \in Nat
      <3>1. client[c].given \in Seq(Datagram)
        BY Typing, ClientFields
      <3>2. client[c].given[n] \in Datagram
        BY <3>1
      <3> QED BY <3>2 DEF Datagram
    <2>2. Earlier(client[c].given[n].number)
      BY DEF LineInv, GivenEarlier
    <2>3. client'[c].given[n].number = client[c].given[n].number
      BY DEF SameGiven
    <2> QED BY <1>1, <2>1, <2>2, <2>3, EarlierKept DEF SameGiven
  <1> QED BY <1>2, <1>3, <1>4, <1>5

\* Nothing is lost by a step after which each client has what it had.
LEMMA NothingLost ==
    ASSUME NEW c, client'[c].given = client[c].given,
           \A s, n, x : Has(c, s, n, x)' => \E t, m : Has(c, t, m, x),
           \A s, n, x : Has(c, s, n, x) => \E t, m : Has(c, t, m, x)'
    PROVE  Missing(c)' = Missing(c)
  <1>1. DataRight'
    BY DataIs, PTL
  <1>2. MissingRight'
    BY MissingIs, PTL
  <1>3. \A x : x \in Data(c)' <=> x \in Data(c)
    BY <1>1, DataIs DEF DataRight
  <1>4. Data(c)' = Data(c)
    BY <1>3
  <1>5. Missing(c)' = Range(client'[c].given) \ Data(c)'
    BY <1>2 DEF MissingRight
  <1>6. Missing(c) = Range(client[c].given) \ Data(c)
    BY MissingIs DEF MissingRight
  <1> QED BY <1>4, <1>5, <1>6

LEMMA OrderIs ==
    ASSUME InOrder, NEW c \in 1..Len(client), NEW s, NEW n, NEW x, NEW t, NEW m, NEW y,
           Has(c, s, n, x), Has(c, t, m, y), s < t \/ (s = t /\ n < m)
    PROVE  x.number < y.number
  BY DEF InOrder

(***************************************************************************)
(* A step that leaves the clients alone.                                     *)
(***************************************************************************)
LEMMA StayingTasks ==
    ASSUME SendTyped, LineStays
    PROVE  \/ \A c \in 1..Len(client) : \A n :
                 /\ n \in PushesTo(c)' => n \in PushesTo(c) /\ strand'[n] = strand[n]
                 /\ n \in PushesTo(c) => n \in PushesTo(c)' /\ strand'[n] = strand[n]
           \/ \A c \in 1..Len(client) : \A n :
                 /\ n \in PushesTo(c)' => n \in Nat /\ n + 1 \in PushesTo(c) /\ strand'[n] = strand[n + 1]
                 /\ n \in PushesTo(c) => n \in Nat /\ n - 1 \in PushesTo(c)' /\ strand'[n - 1] = strand[n]
  <1>1. Stays("push") \/ Shifts("push")
    BY QuietEffect DEF LineStays, SendTyped
  <1>2. CASE Stays("push")
    BY <1>2 DEF Stays, PushesTo
  <1>3. CASE Shifts("push")
    BY <1>3, TaskPlaces DEF Shifts, PushesTo
  <1> QED BY <1>1, <1>2, <1>3

LEMMA StayingPlaces ==
    ASSUME SendTyped, LineStays
    PROVE  \/ \A c \in 1..Len(client) : \A s, n, b : At(c, s, n, b)' => At(c, s, n, b)
           \/ \A c \in 1..Len(client) : \A s, n, b :
                 At(c, s, n, b)' => \/ s # 3 /\ At(c, s, n, b)
                                    \/ s = 3 /\ n \in Nat /\ At(c, 3, n + 1, b)
  <1>1. \A c \in 1..Len(client) : client'[c].cache = client[c].cache /\ client'[c].queue = client[c].queue
    BY DEF LineStays, Same
  <1>2. CASE \A c \in 1..Len(client) : \A n :
                n \in PushesTo(c)' => n \in PushesTo(c) /\ strand'[n] = strand[n]
    BY <1>1, <1>2 DEF At
  <1>3. CASE \A c \in 1..Len(client) : \A n :
                n \in PushesTo(c)' => n \in Nat /\ n + 1 \in PushesTo(c) /\ strand'[n] = strand[n + 1]
    BY <1>1, <1>3 DEF At
  <1> QED BY <1>2, <1>3, StayingTasks

LEMMA StayingItems ==
    ASSUME SendTyped, LineStays
    PROVE  \/ \A c \in 1..Len(client) : \A s, n, x :
                 /\ Has(c, s, n, x)' => Has(c, s, n, x)
                 /\ Has(c, s, n, x) => Has(c, s, n, x)'
           \/ \A c \in 1..Len(client) : \A s, n, x :
                 /\ Has(c, s, n, x)' => \/ s # 3 /\ Has(c, s, n, x)
                                        \/ s = 3 /\ n \in Nat /\ Has(c, 3, n + 1, x)
                 /\ Has(c, s, n, x) => \/ s # 3 /\ Has(c, s, n, x)'
                                       \/ s = 3 /\ n \in Nat /\ Has(c, 3, n - 1, x)'
  <1>1. /\ \A c \in 1..Len(client) : client'[c].got = client[c].got /\ client'[c].queue = client[c].queue
        /\ heap' = heap
    BY DEF LineStays, Same
  <1>2. CASE \A c \in 1..Len(client) : \A n :
                /\ n \in PushesTo(c)' => n \in PushesTo(c) /\ strand'[n] = strand[n]
                /\ n \in PushesTo(c) => n \in PushesTo(c)' /\ strand'[n] = strand[n]
    BY <1>1, <1>2 DEF Has
  <1>3. CASE \A c \in 1..Len(client) : \A n :
                /\ n \in PushesTo(c)' => n \in Nat /\ n + 1 \in PushesTo(c) /\ strand'[n] = strand[n + 1]
                /\ n \in PushesTo(c) => n \in Nat /\ n - 1 \in PushesTo(c)' /\ strand'[n - 1] = strand[n]
    <2> SUFFICES ASSUME NEW c \in 1..Len(client), NEW s, NEW n, NEW x
                 PROVE  /\ Has(c, s, n, x)' => \/ s # 3 /\ Has(c, s, n, x)
                                               \/ s = 3 /\ n \in Nat /\ Has(c, 3, n + 1, x)
                        /\ Has(c, s, n, x) => \/ s # 3 /\ Has(c, s, n, x)'
                                              \/ s = 3 /\ n \in Nat /\ Has(c, 3, n - 1, x)'
      OBVIOUS
    <2>1. CASE s = 3
      <3>1. /\ n \in PushesTo(c)' => n \in Nat /\ n + 1 \in PushesTo(c) /\ strand'[n] = strand[n + 1]
            /\ n \in PushesTo(c) => n \in Nat /\ n - 1 \in PushesTo(c)' /\ strand'[n - 1] = strand[n]
        BY <1>3
      <3>2. Has(c, 3, n, x)' => n \in Nat /\ Has(c, 3, n + 1, x)
        BY <1>1, <3>1 DEF Has
      <3>3. Has(c, 3, n, x) => n \in Nat /\ Has(c, 3, n - 1, x)'
        BY <1>1, <3>1 DEF Has
      <3> QED BY <2>1, <3>2, <3>3
    <2>2. CASE s # 3
      BY <1>1, <2>2 DEF Has
    <2> QED BY <2>1, <2>2
  <1> QED BY <1>2, <1>3, StayingTasks

\* A client's map, reads and posted buffers stay right.
LEMMA StayingParts ==
    ASSUME Base, Lines, LineStays
    PROVE  PushesRefer' /\ MapRight' /\ ReadsWhenEmpty' /\ CacheBounded'
  <1>1. ServerTyped /\ SendTyped /\ Len(client') = Len(client)
    BY DEF Base, SendInv, LineStays
  <1>2. \A c \in 1..Len(client) : Same(c)
    BY DEF LineStays
  <1>3. PushesRefer'
    <2>1. Stays("push") \/ Shifts("push")
      BY <1>1, QuietEffect DEF LineStays, SendTyped
    <2>2. \A i \in Tasks("push")' : \E j \in Tasks("push") : strand'[i] = strand[j]
      BY <2>1 DEF Stays, Shifts
    <2> QED BY <1>1, <2>2 DEF Lines, PushesRefer
  <1>4. MapRight'
    <2> SUFFICES ASSUME NEW e \in Endpoints, clients'[e] # 0
                 PROVE  client'[clients'[e]].ep = e
      BY DEF MapRight
    <2>1. clients'[e] = clients[e]
      BY DEF LineStays
    <2>2. clients[e] \in 1..Len(client)
      BY <1>1, <2>1, Typing
    <2> QED BY <1>2, <2>1, <2>2 DEF Lines, MapRight, Same
  <1>5. ReadsWhenEmpty'
    BY <1>1, <1>2 DEF Lines, ReadsWhenEmpty, Same
  <1>6. CacheBounded'
    BY <1>1, <1>2 DEF Lines, LineInv, CacheBounded, Same
  <1> QED BY <1>3, <1>4, <1>5, <1>6

LEMMA StayingLines ==
    ASSUME Base, Lines, LineStays
    PROVE  Lines' /\ Losing
  <1>1. ServerTyped /\ SendTyped /\ LineInv /\ Len(client') = Len(client)
    BY DEF Base, SendInv, LineStays, Lines
  <1>2. SameGiven
    BY DEF LineStays, SameGiven, Same
  <1>3. Comes
    BY <1>1, StayingPlaces, StayingItems DEF Comes
  <1>4. Referring' /\ FromPeer' /\ AllEarlier' /\ GivenEarlier'
    BY <1>1, <1>2, <1>3, LinesKept
  <1>5. Disjoint'
    <2> SUFFICES ASSUME NEW c \in 1..Len(client), NEW d \in 1..Len(client),
                        NEW s, NEW n, NEW t, NEW m, NEW b, At(c, s, n, b)', At(d, t, m, b)'
                 PROVE  c = d /\ s = t /\ n = m
      BY <1>1 DEF Disjoint
    <2>1. \/ At(c, s, n, b) /\ At(d, t, m, b)
          \/ /\ \/ s # 3 /\ At(c, s, n, b)
                \/ s = 3 /\ n \in Nat /\ At(c, 3, n + 1, b)
             /\ \/ t # 3 /\ At(d, t, m, b)
                \/ t = 3 /\ m \in Nat /\ At(d, 3, m + 1, b)
      BY <1>1, StayingPlaces
    <2> QED BY <1>1, <2>1 DEF LineInv, Disjoint
  <1>6. InOrder'
    <2> SUFFICES ASSUME NEW c \in 1..Len(client), NEW s, NEW n, NEW x, NEW t, NEW m, NEW y,
                        Has(c, s, n, x)', Has(c, t, m, y)', s < t \/ (s = t /\ n < m)
                 PROVE  x.number < y.number
      BY <1>1 DEF InOrder
    <2>1. \/ Has(c, s, n, x) /\ Has(c, t, m, y)
          \/ /\ \/ s # 3 /\ Has(c, s, n, x)
                \/ s = 3 /\ n \in Nat /\ Has(c, 3, n + 1, x)
             /\ \/ t # 3 /\ Has(c, t, m, y)
                \/ t = 3 /\ m \in Nat /\ Has(c, 3, m + 1, y)
      BY <1>1, StayingItems
    <2>2. s = t /\ n \in Nat /\ m \in Nat /\ n < m => n + 1 < m + 1
      OBVIOUS
    <2> QED BY <1>1, <2>1, <2>2, OrderIs DEF LineInv
  <1>7. PushesRefer' /\ MapRight' /\ ReadsWhenEmpty' /\ CacheBounded'
    BY StayingParts
  <1>8. Losing
    <2> SUFFICES ASSUME NEW c \in 1..Len(client) PROVE Missing(c)' = Missing(c)
      BY DEF Losing
    <2>1. /\ \A s, n, x : Has(c, s, n, x)' => \E t, m : Has(c, t, m, x)
          /\ \A s, n, x : Has(c, s, n, x) => \E t, m : Has(c, t, m, x)'
      BY <1>1, StayingItems
    <2> QED BY <1>2, <2>1, NothingLost DEF SameGiven
  <1> QED BY <1>4, <1>5, <1>6, <1>7, <1>8 DEF Lines, LineInv

(***************************************************************************)
(* A step that runs a client's own task.                                     *)
(***************************************************************************)
LEMMA CachePushes ==
    ASSUME NEW k \in Seq(Nat), NEW b \in Nat
    PROVE  LET p == CachePush(k, b, MaxCache) IN
           /\ p \in Seq(Nat) /\ (Len(k) <= MaxCache => Len(p) <= MaxCache)
           /\ \A n \in 1..Len(p) : \/ n \in 1..Len(k) /\ p[n] = k[n]
                                   \/ n = Len(k) + 1 /\ p[n] = b
  <1>1. MaxCache \in Nat
    BY ServerBoundsAssumption
  <1> DEFINE a == Append(k, b)
  <1>2. /\ a \in Seq(Nat) /\ Len(a) = Len(k) + 1 /\ Len(k) \in Nat
        /\ \A n \in 1..Len(a) : \/ n \in 1..Len(k) /\ a[n] = k[n]
                                \/ n = Len(k) + 1 /\ a[n] = b
    OBVIOUS
  <1> HIDE DEF a
  <1>3. CachePush(k, b, MaxCache) = IF MaxCache > 0 /\ Len(k) < MaxCache THEN a ELSE k
    BY DEF CachePush, a
  <1> QED BY <1>1, <1>2, <1>3

LEMMA HeadRuns ==
    ASSUME SendTyped, strand # <<>>, strand' = Tail(strand) \o <<>>
    PROVE  /\ \A d, n : n \in PushesTo(d)' =>
                 n \in Nat /\ n > 0 /\ n + 1 \in PushesTo(d) /\ strand'[n] = strand[n + 1]
           /\ \A d, n : n \in PushesTo(d) =>
                 \/ n = 1 /\ Head(strand) = strand[1] /\ Head(strand).kind = "push"
                 \/ n \in Nat /\ n > 1 /\ n - 1 \in PushesTo(d)' /\ strand'[n - 1] = strand[n]
  <1>1. strand \in Seq(Task)
    BY DEF SendTyped
  <1>2. /\ \A i \in Tasks("push") : \/ i = 1 /\ Head(strand) = strand[i] /\ Head(strand).kind = "push"
                                    \/ i > 1 /\ i - 1 \in Tasks("push")' /\ strand'[i - 1] = strand[i]
        /\ \A i \in Tasks("push")' : i + 1 \in Tasks("push") /\ strand'[i] = strand[i + 1]
    BY <1>1, Running
  <1>3. /\ \A i \in Tasks("push") : i \in Nat /\ i > 0
        /\ \A i \in Tasks("push")' : i \in Nat /\ i > 0
    BY TaskPlaces
  <1> QED BY <1>2, <1>3 DEF PushesTo

\* The task of a client changes that client only.
OwnStep(c) ==
    /\ strand # <<>> /\ strand' = Tail(strand) \o <<>>
    /\ clients' = clients /\ heap' = heap /\ arrived' = arrived /\ (Arrived' => Arrived)
    /\ Len(client') = Len(client)
    /\ \A d \in 1..Len(client) : d # c => client'[d] = client[d]
    /\ client'[c].ep = client[c].ep /\ client'[c].given = client[c].given
    /\ client'[c].read => client'[c].queue = <<>>
    /\ Len(client'[c].cache) <= MaxCache

LEMMA OwnParts ==
    ASSUME Base, Lines, NEW c \in 1..Len(client), OwnStep(c)
    PROVE  PushesRefer' /\ MapRight' /\ ReadsWhenEmpty' /\ CacheBounded' /\ SameGiven
  <1>1. ServerTyped /\ SendTyped /\ Len(client') = Len(client)
    BY DEF Base, SendInv, OwnStep
  <1>2. PushesRefer'
    <2>1. \A i \in Tasks("push")' : i + 1 \in Tasks("push") /\ strand'[i] = strand[i + 1]
      BY <1>1, Running DEF SendTyped, OwnStep
    <2> QED BY <1>1, <2>1 DEF Lines, PushesRefer
  <1>3. MapRight'
    <2> SUFFICES ASSUME NEW e \in Endpoints, clients[e] # 0 PROVE client'[clients[e]].ep = e
      BY DEF MapRight, OwnStep
    <2>1. clients[e] \in 1..Len(client)
      BY <1>1, Typing
    <2> QED BY <2>1 DEF Lines, MapRight, OwnStep
  <1>4. ReadsWhenEmpty'
    BY <1>1 DEF Lines, ReadsWhenEmpty, OwnStep
  <1>5. CacheBounded'
    BY <1>1 DEF Lines, LineInv, CacheBounded, OwnStep
  <1>6. SameGiven
    BY DEF OwnStep, SameGiven
  <1> QED BY <1>2, <1>3, <1>4, <1>5, <1>6

\* What is delivered was the first of what waited, or a datagram that found
\* nothing waiting; and its buffer is kept for reuse.
DeliveryOf(c, b, from) ==
    /\ client'[c].got = Append(client[c].got, heap[b])
    /\ client'[c].cache = CachePush(client[c].cache, b, MaxCache)
    /\ \/ /\ from = 2 /\ Head(strand).kind # "push"
          /\ client[c].queue # <<>> /\ b = Head(client[c].queue)
          /\ client'[c].queue = Tail(client[c].queue)
       \/ /\ from = 3 /\ 1 \in PushesTo(c) /\ b = strand[1].buf
          /\ client[c].queue = <<>> /\ client'[c].queue = <<>>

LEMMA DeliveryPlaces ==
    ASSUME Base, NEW c \in 1..Len(client), OwnStep(c), NEW b \in Nat, NEW from, DeliveryOf(c, b, from)
    PROVE  /\ At(c, from, 1, b) /\ from \in {2, 3}
           /\ \A d \in 1..Len(client) : \A s, n, a : At(d, s, n, a)' =>
                 \/ s = 3 /\ n \in Nat /\ n > 0 /\ At(d, 3, n + 1, a)
                 \/ s = 2 /\ d # c /\ At(d, 2, n, a)
                 \/ s = 2 /\ d = c /\ from = 2 /\ n \in Nat /\ n > 0 /\ At(d, 2, n + 1, a)
                 \/ s = 0 /\ At(d, 0, n, a)
                 \/ s = 0 /\ d = c /\ n = Len(client[c].cache) + 1 /\ a = b
  <1>1. ServerTyped /\ SendTyped
    BY DEF Base, SendInv
  <1>2. client[c].queue \in Seq(Nat) /\ client[c].cache \in Seq(Nat)
    BY <1>1, Typing, ClientFields
  <1>3. At(c, from, 1, b) /\ from \in {2, 3}
    BY <1>2 DEF DeliveryOf, At
  <1>4. ASSUME NEW d \in 1..Len(client), NEW n, NEW a, At(d, 3, n, a)'
        PROVE  n \in Nat /\ n > 0 /\ At(d, 3, n + 1, a)
    <2>1. n \in PushesTo(d)' /\ a = strand'[n].buf
      BY <1>4 DEF At
    <2>2. n \in Nat /\ n > 0 /\ n + 1 \in PushesTo(d) /\ strand'[n] = strand[n + 1]
      BY <1>1, <2>1, HeadRuns DEF OwnStep
    <2> QED BY <2>1, <2>2 DEF At
  <1>5. ASSUME NEW n, NEW a, At(c, 2, n, a)'
        PROVE  from = 2 /\ n \in Nat /\ n > 0 /\ At(c, 2, n + 1, a)
    <2>1. n \in 1..Len(client'[c].queue) /\ a = client'[c].queue[n]
      BY <1>5 DEF At
    <2>2. from = 2 /\ client[c].queue # <<>> /\ client'[c].queue = Tail(client[c].queue)
      BY <2>1 DEF DeliveryOf
    <2>3. n \in Nat /\ n > 0 /\ n + 1 \in 1..Len(client[c].queue) /\ a = client[c].queue[n + 1]
      BY <1>2, <2>1, <2>2
    <2> QED BY <2>2, <2>3 DEF At
  <1>6. ASSUME NEW n, NEW a, At(c, 0, n, a)'
        PROVE  At(c, 0, n, a) \/ (n = Len(client[c].cache) + 1 /\ a = b)
    <2>1. /\ n \in 1..Len(client'[c].cache) /\ a = client'[c].cache[n]
          /\ client'[c].cache = CachePush(client[c].cache, b, MaxCache)
      BY <1>6 DEF At, DeliveryOf
    <2>2. \/ n \in 1..Len(client[c].cache) /\ a = client[c].cache[n]
          \/ n = Len(client[c].cache) + 1 /\ a = b
      BY <1>2, <2>1, CachePushes
    <2> QED BY <2>2 DEF At
  <1>7. ASSUME NEW d \in 1..Len(client), d # c, NEW s, NEW n, NEW a, At(d, s, n, a)', s # 3
        PROVE  (s = 0 \/ s = 2) /\ At(d, s, n, a)
    BY <1>7 DEF At, OwnStep
  <1>8. \A d \in 1..Len(client) : \A s, n, a : At(d, s, n, a)' => s = 0 \/ s = 2 \/ s = 3
    BY DEF At
  <1> QED BY <1>3, <1>4, <1>5, <1>6, <1>7, <1>8

LEMMA DeliveryItems ==
    ASSUME Base, NEW c \in 1..Len(client), OwnStep(c), NEW b \in Nat, NEW from, DeliveryOf(c, b, from)
    PROVE  /\ Has(c, from, 1, heap[b]) /\ Len(client[c].got) \in Nat
           /\ \A d \in 1..Len(client) : \A s, n, x : Has(d, s, n, x)' =>
                 \/ s = 3 /\ n \in Nat /\ n > 0 /\ Has(d, 3, n + 1, x)
                 \/ s = 2 /\ d # c /\ Has(d, 2, n, x)
                 \/ s = 2 /\ d = c /\ from = 2 /\ n \in Nat /\ n > 0 /\ Has(d, 2, n + 1, x)
                 \/ s = 1 /\ d # c /\ Has(d, 1, n, x)
                 \/ s = 1 /\ d = c /\ n \in Nat /\ n <= Len(client[c].got) /\ Has(d, 1, n, x)
                 \/ s = 1 /\ d = c /\ n = Len(client[c].got) + 1 /\ x = heap[b]
           /\ \A d \in 1..Len(client) : \A s, n, x : Has(d, s, n, x) => \E t, m : Has(d, t, m, x)'
  <1>1. ServerTyped /\ SendTyped /\ heap' = heap
    BY DEF Base, SendInv, OwnStep
  <1>2. client[c].queue \in Seq(Nat) /\ client[c].got \in Seq(Datagram)
    BY <1>1, Typing, ClientFields
  <1>3. Has(c, from, 1, heap[b]) /\ Len(client[c].got) \in Nat
    BY <1>2 DEF DeliveryOf, Has
  <1>4. /\ client'[c].got = Append(client[c].got, heap[b])
        /\ Len(client'[c].got) = Len(client[c].got) + 1
        /\ client'[c].got[Len(client[c].got) + 1] = heap[b]
        /\ \A n \in 1..Len(client[c].got) : client'[c].got[n] = client[c].got[n]
    BY <1>2 DEF DeliveryOf
  <1>5. ASSUME NEW d \in 1..Len(client), NEW n, NEW x, Has(d, 3, n, x)'
        PROVE  n \in Nat /\ n > 0 /\ Has(d, 3, n + 1, x)
    <2>1. n \in PushesTo(d)' /\ x = heap[strand'[n].buf]
      BY <1>1, <1>5 DEF Has
    <2>2. n \in Nat /\ n > 0 /\ n + 1 \in PushesTo(d) /\ strand'[n] = strand[n + 1]
      BY <1>1, <2>1, HeadRuns DEF OwnStep
    <2> QED BY <2>1, <2>2 DEF Has
  <1>6. ASSUME NEW n, NEW x, Has(c, 2, n, x)'
        PROVE  from = 2 /\ n \in Nat /\ n > 0 /\ Has(c, 2, n + 1, x)
    <2>1. n \in 1..Len(client'[c].queue) /\ x = heap[client'[c].queue[n]]
      BY <1>1, <1>6 DEF Has
    <2>2. from = 2 /\ client[c].queue # <<>> /\ client'[c].queue = Tail(client[c].queue)
      BY <2>1 DEF DeliveryOf
    <2>3. /\ n \in Nat /\ n > 0 /\ n + 1 \in 1..Len(client[c].queue)
          /\ client'[c].queue[n] = client[c].queue[n + 1]
      BY <1>2, <2>1, <2>2
    <2> QED BY <2>1, <2>2, <2>3 DEF Has
  <1>7. ASSUME NEW n, NEW x, Has(c, 1, n, x)'
        PROVE  \/ n \in Nat /\ n <= Len(client[c].got) /\ Has(c, 1, n, x)
               \/ n = Len(client[c].got) + 1 /\ x = heap[b]
    <2>1. n \in 1..Len(client'[c].got) /\ x = client'[c].got[n]
      BY <1>7 DEF Has
    <2>2. \/ n \in 1..Len(client[c].got) /\ x = client[c].got[n]
          \/ n = Len(client[c].got) + 1 /\ x = heap[b]
      BY <1>3, <1>4, <2>1
    <2> QED BY <1>3, <2>2 DEF Has
  <1>8. ASSUME NEW d \in 1..Len(client), d # c, NEW s, NEW n, NEW x, Has(d, s, n, x)', s # 3
        PROVE  (s = 1 \/ s = 2) /\ Has(d, s, n, x)
    BY <1>1, <1>8 DEF Has, OwnStep
  <1>9. \A d \in 1..Len(client) : \A s, n, x : Has(d, s, n, x)' => s = 1 \/ s = 2 \/ s = 3
    BY DEF Has
  <1>10. ASSUME NEW d \in 1..Len(client), NEW s, NEW n, NEW x, Has(d, s, n, x)
         PROVE  \E t, m : Has(d, t, m, x)'
    <2>0. ASSUME x = heap[b] PROVE \E t, m : Has(c, t, m, x)'
      <3>1. PICK g \in Nat : g = Len(client[c].got) + 1
        BY <1>3
      <3>2. g \in 1..Len(client'[c].got) /\ x = client'[c].got[g]
        BY <1>3, <1>4, <2>0, <3>1
      <3>3. Has(c, 1, g, x)'
        BY <3>2 DEF Has
      <3> QED BY <3>3
    <2>1. CASE s = 1
      <3>1. n \in 1..Len(client[d].got) /\ x = client[d].got[n]
        BY <1>10, <2>1 DEF Has
      <3>2. n \in 1..Len(client'[d].got) /\ x = client'[d].got[n]
        BY <1>3, <1>4, <3>1 DEF OwnStep
      <3>3. Has(d, 1, n, x)'
        BY <3>2 DEF Has
      <3> QED BY <3>3
    <2>2. CASE s = 2
      <3>1. n \in 1..Len(client[d].queue) /\ x = heap[client[d].queue[n]]
        BY <1>10, <2>2 DEF Has
      <3>2. CASE d # c
        <4>1. Has(d, 2, n, x)'
          BY <1>1, <3>1, <3>2 DEF Has, OwnStep
        <4> QED BY <4>1
      <3>3. CASE d = c /\ n = 1
        <4>1. x = heap[b]
          BY <1>2, <3>1, <3>3 DEF DeliveryOf
        <4> QED BY <2>0, <3>3, <4>1
      <3>4. CASE d = c /\ n # 1
        <4>1. client[c].queue # <<>> /\ client'[c].queue = Tail(client[c].queue)
          BY <1>2, <3>1, <3>4 DEF DeliveryOf
        <4>2. /\ n - 1 \in 1..Len(client'[c].queue)
              /\ client'[c].queue[n - 1] = client[c].queue[n]
          BY <1>2, <3>1, <3>4, <4>1
        <4>3. Has(c, 2, n - 1, x)'
          BY <1>1, <3>1, <3>4, <4>2 DEF Has
        <4> QED BY <3>4, <4>3
      <3> QED BY <3>2, <3>3, <3>4
    <2>3. CASE s = 3
      <3>1. n \in PushesTo(d) /\ x = heap[strand[n].buf]
        BY <1>10, <2>3 DEF Has
      <3>2. \/ n = 1 /\ Head(strand) = strand[1] /\ Head(strand).kind = "push"
            \/ n \in Nat /\ n > 1 /\ n - 1 \in PushesTo(d)' /\ strand'[n - 1] = strand[n]
        BY <1>1, <3>1, HeadRuns DEF OwnStep
      <3>3. CASE n = 1 /\ Head(strand).kind = "push"
        <4>1. from = 3 /\ 1 \in PushesTo(c) /\ b = strand[1].buf
          BY <3>3 DEF DeliveryOf
        <4>2. d = c
          BY <3>1, <3>3, <4>1 DEF PushesTo
        <4> QED BY <2>0, <3>1, <3>3, <4>1, <4>2
      <3>4. CASE n - 1 \in PushesTo(d)' /\ strand'[n - 1] = strand[n]
        <4>1. Has(d, 3, n - 1, x)'
          BY <1>1, <3>1, <3>4 DEF Has
        <4> QED BY <4>1
      <3> QED BY <3>2, <3>3, <3>4
    <2> QED BY <1>10, <2>1, <2>2, <2>3 DEF Has
  <1>11. \A d \in 1..Len(client) : \A s, n, x : Has(d, s, n, x)' =>
            \/ s = 3 /\ n \in Nat /\ n > 0 /\ Has(d, 3, n + 1, x)
            \/ s = 2 /\ d # c /\ Has(d, 2, n, x)
            \/ s = 2 /\ d = c /\ from = 2 /\ n \in Nat /\ n > 0 /\ Has(d, 2, n + 1, x)
            \/ s = 1 /\ d # c /\ Has(d, 1, n, x)
            \/ s = 1 /\ d = c /\ n \in Nat /\ n <= Len(client[c].got) /\ Has(d, 1, n, x)
            \/ s = 1 /\ d = c /\ n = Len(client[c].got) + 1 /\ x = heap[b]
    BY <1>5, <1>6, <1>7, <1>8, <1>9
  <1> QED BY <1>3, <1>10, <1>11

LEMMA DeliveryLines ==
    ASSUME Base, Lines, NEW c \in 1..Len(client), OwnStep(c), NEW b \in Nat, NEW from, DeliveryOf(c, b, from)
    PROVE  Lines' /\ Losing
  <1>1. ServerTyped /\ LineInv /\ Len(client') = Len(client)
    BY DEF Base, Lines, OwnStep
  <1>2. PushesRefer' /\ MapRight' /\ ReadsWhenEmpty' /\ CacheBounded' /\ SameGiven
    BY OwnParts
  <1>3. At(c, from, 1, b) /\ Has(c, from, 1, heap[b]) /\ from \in {2, 3}
    BY DeliveryPlaces, DeliveryItems
  <1>4. Comes
    <2>1. ASSUME NEW d \in 1..Len(client), NEW s, NEW n, NEW a, At(d, s, n, a)'
          PROVE  \E t, m : At(d, t, m, a)
      BY <1>3, <2>1, DeliveryPlaces
    <2>2. ASSUME NEW d \in 1..Len(client), NEW s, NEW n, NEW x, Has(d, s, n, x)'
          PROVE  \E t, m : Has(d, t, m, x)
      BY <1>3, <2>2, DeliveryItems
    <2> QED BY <2>1, <2>2 DEF Comes
  <1>5. Referring' /\ FromPeer' /\ AllEarlier' /\ GivenEarlier'
    BY <1>1, <1>2, <1>4, LinesKept
  <1>6. Disjoint'
    <2> SUFFICES ASSUME NEW d \in 1..Len(client), NEW e \in 1..Len(client),
                        NEW s, NEW n, NEW t, NEW m, NEW a, At(d, s, n, a)', At(e, t, m, a)'
                 PROVE  d = e /\ s = t /\ n = m
      BY <1>1 DEF Disjoint
    <2>1. \/ s = 3 /\ n \in Nat /\ n > 0 /\ At(d, 3, n + 1, a)
          \/ s = 2 /\ d # c /\ At(d, 2, n, a)
          \/ s = 2 /\ d = c /\ from = 2 /\ n \in Nat /\ n > 0 /\ At(d, 2, n + 1, a)
          \/ s = 0 /\ At(d, 0, n, a)
          \/ s = 0 /\ d = c /\ n = Len(client[c].cache) + 1 /\ a = b
      BY DeliveryPlaces
    <2>2. \/ t = 3 /\ m \in Nat /\ m > 0 /\ At(e, 3, m + 1, a)
          \/ t = 2 /\ e # c /\ At(e, 2, m, a)
          \/ t = 2 /\ e = c /\ from = 2 /\ m \in Nat /\ m > 0 /\ At(e, 2, m + 1, a)
          \/ t = 0 /\ At(e, 0, m, a)
          \/ t = 0 /\ e = c /\ m = Len(client[c].cache) + 1 /\ a = b
      BY DeliveryPlaces
    <2>3. \A f, g \in 1..Len(client) : \A i, j, k, l, z :
             At(f, i, j, z) /\ At(g, k, l, z) => f = g /\ i = k /\ j = l
      BY <1>1 DEF LineInv, Disjoint
    <2> QED BY <1>3, <2>1, <2>2, <2>3
  <1>7. InOrder'
    <2> SUFFICES ASSUME NEW d \in 1..Len(client), NEW s, NEW n, NEW x, NEW t, NEW m, NEW y,
                        Has(d, s, n, x)', Has(d, t, m, y)', s < t \/ (s = t /\ n < m)
                 PROVE  x.number < y.number
      BY <1>1 DEF InOrder
    <2>1. \/ s = 3 /\ n \in Nat /\ n > 0 /\ Has(d, 3, n + 1, x)
          \/ s = 2 /\ d # c /\ Has(d, 2, n, x)
          \/ s = 2 /\ d = c /\ from = 2 /\ n \in Nat /\ n > 0 /\ Has(d, 2, n + 1, x)
          \/ s = 1 /\ d # c /\ Has(d, 1, n, x)
          \/ s = 1 /\ d = c /\ n \in Nat /\ n <= Len(client[c].got) /\ Has(d, 1, n, x)
          \/ s = 1 /\ d = c /\ n = Len(client[c].got) + 1 /\ x = heap[b]
      BY DeliveryItems
    <2>2. \/ t = 3 /\ m \in Nat /\ m > 0 /\ Has(d, 3, m + 1, y)
          \/ t = 2 /\ d # c /\ Has(d, 2, m, y)
          \/ t = 2 /\ d = c /\ from = 2 /\ m \in Nat /\ m > 0 /\ Has(d, 2, m + 1, y)
          \/ t = 1 /\ d # c /\ Has(d, 1, m, y)
          \/ t = 1 /\ d = c /\ m \in Nat /\ m <= Len(client[c].got) /\ Has(d, 1, m, y)
          \/ t = 1 /\ d = c /\ m = Len(client[c].got) + 1 /\ y = heap[b]
      BY DeliveryItems
    <2>3. Len(client[c].got) \in Nat
      BY DeliveryItems
    <2>4. \A i, j, k, l, v, w : Has(d, i, j, v) /\ Has(d, k, l, w) /\ (i < k \/ (i = k /\ j < l))
                                => v.number < w.number
      BY <1>1 DEF LineInv, InOrder
    <2>5. n \in Nat /\ m \in Nat /\ n < m => n + 1 < m + 1
      OBVIOUS
    <2>6. CASE s = 3
      BY <2>1, <2>2, <2>4, <2>5, <2>6
    <2>7. CASE s = 2
      BY <2>1, <2>2, <2>4, <2>5, <2>7
    <2>8. CASE s = 1 /\ t = 1
      BY <1>3, <2>1, <2>2, <2>3, <2>4, <2>8
    <2>9. CASE s = 1 /\ t # 1
      BY <1>3, <2>1, <2>2, <2>4, <2>9
    <2> QED BY <2>1, <2>6, <2>7, <2>8, <2>9
  <1>8. Losing
    <2> SUFFICES ASSUME NEW d \in 1..Len(client) PROVE Missing(d)' = Missing(d)
      BY DEF Losing
    <2>1. /\ \A s, n, x : Has(d, s, n, x)' => \E t, m : Has(d, t, m, x)
          /\ \A s, n, x : Has(d, s, n, x) => \E t, m : Has(d, t, m, x)'
      BY <1>4, DeliveryItems DEF Comes
    <2> QED BY <1>2, <2>1, NothingLost DEF SameGiven
  <1> QED BY <1>2, <1>5, <1>6, <1>7, <1>8 DEF Lines, LineInv

\* What is posted is kept behind what waits.
KeepingOf(c, b) ==
    /\ 1 \in PushesTo(c) /\ b = strand[1].buf
    /\ client'[c].queue = Append(client[c].queue, b)
    /\ client'[c].cache = client[c].cache /\ client'[c].got = client[c].got

\* What is posted is dropped.
DroppingOf(c, b) ==
    /\ 1 \in PushesTo(c) /\ b = strand[1].buf
    /\ client'[c].queue = client[c].queue /\ client'[c].got = client[c].got
    /\ client'[c].cache = client[c].cache \/ client'[c].cache = CachePush(client[c].cache, b, MaxCache)
    /\ Len(client[c].queue) >= MaxCache \/ ~Alive(c)

\* Wherever the posted buffer and its datagram go, all else stays or shifts.
LEMMA OtherPlaces ==
    ASSUME Base, NEW c \in 1..Len(client), OwnStep(c)
    PROVE  /\ \A d \in 1..Len(client) : \A n, a :
                 At(d, 3, n, a)' => n \in Nat /\ n > 0 /\ At(d, 3, n + 1, a)
           /\ \A d \in 1..Len(client) : \A s, n, a :
                 d # c /\ s # 3 /\ At(d, s, n, a)' => (s = 0 \/ s = 2) /\ At(d, s, n, a)
           /\ \A d \in 1..Len(client) : \A s, n, a : At(d, s, n, a)' => s = 0 \/ s = 2 \/ s = 3
  <1>1. SendTyped
    BY DEF Base, SendInv
  <1>2. ASSUME NEW d \in 1..Len(client), NEW n, NEW a, At(d, 3, n, a)'
        PROVE  n \in Nat /\ n > 0 /\ At(d, 3, n + 1, a)
    <2>1. n \in PushesTo(d)' /\ a = strand'[n].buf
      BY <1>2 DEF At
    <2>2. n \in Nat /\ n > 0 /\ n + 1 \in PushesTo(d) /\ strand'[n] = strand[n + 1]
      BY <1>1, <2>1, HeadRuns DEF OwnStep
    <2> QED BY <2>1, <2>2 DEF At
  <1>3. ASSUME NEW d \in 1..Len(client), d # c, NEW s, NEW n, NEW a, At(d, s, n, a)', s # 3
        PROVE  (s = 0 \/ s = 2) /\ At(d, s, n, a)
    BY <1>3 DEF At, OwnStep
  <1>4. \A d \in 1..Len(client) : \A s, n, a : At(d, s, n, a)' => s = 0 \/ s = 2 \/ s = 3
    BY DEF At
  <1> QED BY <1>2, <1>3, <1>4

LEMMA OtherItems ==
    ASSUME Base, NEW c \in 1..Len(client), OwnStep(c)
    PROVE  /\ \A d \in 1..Len(client) : \A n, x :
                 Has(d, 3, n, x)' => n \in Nat /\ n > 0 /\ Has(d, 3, n + 1, x)
           /\ \A d \in 1..Len(client) : \A n, x :
                 Has(d, 3, n, x) => \/ n = 1 /\ Head(strand) = strand[1] /\ 1 \in PushesTo(d)
                                    \/ n \in Nat /\ Has(d, 3, n - 1, x)'
           /\ \A d \in 1..Len(client) : \A s, n, x :
                 d # c /\ s # 3 /\ Has(d, s, n, x)' => (s = 1 \/ s = 2) /\ Has(d, s, n, x)
           /\ \A d \in 1..Len(client) : \A s, n, x :
                 d # c /\ s # 3 /\ Has(d, s, n, x) => Has(d, s, n, x)'
           /\ \A d \in 1..Len(client) : \A s, n, x : Has(d, s, n, x)' => s = 1 \/ s = 2 \/ s = 3
           /\ \A d \in 1..Len(client) : \A s, n, x : Has(d, s, n, x) => s = 1 \/ s = 2 \/ s = 3
  <1>1. SendTyped /\ heap' = heap
    BY DEF Base, SendInv, OwnStep
  <1>2. ASSUME NEW d \in 1..Len(client), NEW n, NEW x, Has(d, 3, n, x)'
        PROVE  n \in Nat /\ n > 0 /\ Has(d, 3, n + 1, x)
    <2>1. n \in PushesTo(d)' /\ x = heap[strand'[n].buf]
      BY <1>1, <1>2 DEF Has
    <2>2. n \in Nat /\ n > 0 /\ n + 1 \in PushesTo(d) /\ strand'[n] = strand[n + 1]
      BY <1>1, <2>1, HeadRuns DEF OwnStep
    <2> QED BY <2>1, <2>2 DEF Has
  <1>3. ASSUME NEW d \in 1..Len(client), NEW n, NEW x, Has(d, 3, n, x)
        PROVE  \/ n = 1 /\ Head(strand) = strand[1] /\ 1 \in PushesTo(d)
               \/ n \in Nat /\ Has(d, 3, n - 1, x)'
    <2>1. n \in PushesTo(d) /\ x = heap[strand[n].buf]
      BY <1>3 DEF Has
    <2>2. \/ n = 1 /\ Head(strand) = strand[1]
          \/ n \in Nat /\ n - 1 \in PushesTo(d)' /\ strand'[n - 1] = strand[n]
      BY <1>1, <2>1, HeadRuns DEF OwnStep
    <2> QED BY <1>1, <2>1, <2>2 DEF Has
  <1>4. ASSUME NEW d \in 1..Len(client), d # c, NEW s, NEW n, NEW x, s # 3
        PROVE  /\ Has(d, s, n, x)' => (s = 1 \/ s = 2) /\ Has(d, s, n, x)
               /\ Has(d, s, n, x) => Has(d, s, n, x)'
    BY <1>1, <1>4 DEF Has, OwnStep
  <1>5. \A d \in 1..Len(client) : \A s, n, x :
           (Has(d, s, n, x) \/ Has(d, s, n, x)') => s = 1 \/ s = 2 \/ s = 3
    BY DEF Has
  <1> QED BY <1>2, <1>3, <1>4, <1>5

LEMMA KeepingPlaces ==
    ASSUME Base, NEW c \in 1..Len(client), OwnStep(c), NEW b \in Nat, KeepingOf(c, b)
    PROVE  /\ At(c, 3, 1, b) /\ Has(c, 3, 1, heap[b]) /\ Len(client[c].queue) \in Nat
           /\ \A n, a : At(c, 0, n, a)' => At(c, 0, n, a)
           /\ \A n, a : At(c, 2, n, a)' => \/ n \in Nat /\ n <= Len(client[c].queue) /\ At(c, 2, n, a)
                                           \/ n = Len(client[c].queue) + 1 /\ a = b
           /\ \A n, x : Has(c, 1, n, x)' <=> Has(c, 1, n, x)
           /\ \A n, x : Has(c, 2, n, x)' => \/ n \in Nat /\ n <= Len(client[c].queue) /\ Has(c, 2, n, x)
                                            \/ n = Len(client[c].queue) + 1 /\ x = heap[b]
           /\ \A n, x : Has(c, 2, n, x) => Has(c, 2, n, x)'
           /\ \A x : x = heap[b] => \E n : Has(c, 2, n, x)'
  <1>1. ServerTyped /\ heap' = heap
    BY DEF Base, OwnStep
  <1>2. client[c].queue \in Seq(Nat) /\ Len(client[c].queue) \in Nat
    BY <1>1, Typing, ClientFields
  <1>3. At(c, 3, 1, b) /\ Has(c, 3, 1, heap[b])
    BY DEF KeepingOf, At, Has
  <1>4. /\ Len(client'[c].queue) = Len(client[c].queue) + 1
        /\ client'[c].queue[Len(client[c].queue) + 1] = b
        /\ \A n \in 1..Len(client[c].queue) : client'[c].queue[n] = client[c].queue[n]
    BY <1>2 DEF KeepingOf
  <1>5. ASSUME NEW n, n \in 1..Len(client'[c].queue)
        PROVE  \/ n \in 1..Len(client[c].queue) /\ client'[c].queue[n] = client[c].queue[n]
               \/ n = Len(client[c].queue) + 1 /\ client'[c].queue[n] = b
    BY <1>2, <1>4, <1>5
  <1>6. \A n, a : At(c, 0, n, a)' => At(c, 0, n, a)
    BY DEF At, KeepingOf
  <1>7. ASSUME NEW n, NEW a, At(c, 2, n, a)'
        PROVE  \/ n \in Nat /\ n <= Len(client[c].queue) /\ At(c, 2, n, a)
               \/ n = Len(client[c].queue) + 1 /\ a = b
    <2>1. n \in 1..Len(client'[c].queue) /\ a = client'[c].queue[n]
      BY <1>7 DEF At
    <2> QED BY <1>2, <1>5, <2>1 DEF At
  <1>8. \A n, x : Has(c, 1, n, x)' <=> Has(c, 1, n, x)
    BY DEF Has, KeepingOf
  <1>9. ASSUME NEW n, NEW x, Has(c, 2, n, x)'
        PROVE  \/ n \in Nat /\ n <= Len(client[c].queue) /\ Has(c, 2, n, x)
               \/ n = Len(client[c].queue) + 1 /\ x = heap[b]
    <2>1. n \in 1..Len(client'[c].queue) /\ x = heap[client'[c].queue[n]]
      BY <1>1, <1>9 DEF Has
    <2>2. CASE n = Len(client[c].queue) + 1 /\ client'[c].queue[n] = b
      BY <2>1, <2>2
    <2>3. CASE n \in 1..Len(client[c].queue) /\ client'[c].queue[n] = client[c].queue[n]
      BY <1>2, <2>1, <2>3 DEF Has
    <2> QED BY <1>5, <2>1, <2>2, <2>3
  <1>10. ASSUME NEW n, NEW x, Has(c, 2, n, x) PROVE Has(c, 2, n, x)'
    <2>1. n \in 1..Len(client[c].queue) /\ x = heap[client[c].queue[n]]
      BY <1>10 DEF Has
    <2>2. n \in 1..(Len(client[c].queue) + 1)
      BY <1>2, <2>1
    <2>3. client'[c].queue[n] = client[c].queue[n]
      BY <1>4, <2>1
    <2>4. n \in 1..Len(client'[c].queue) /\ x = heap[client'[c].queue[n]]
      BY <1>4, <2>1, <2>2, <2>3
    <2> QED BY <1>1, <2>4 DEF Has
  <1>11. ASSUME NEW x, x = heap[b] PROVE \E n : Has(c, 2, n, x)'
    <2>1. PICK n \in Nat : n = Len(client[c].queue) + 1
      BY <1>2
    <2>2. n \in 1..Len(client'[c].queue) /\ x = heap[client'[c].queue[n]]
      BY <1>2, <1>4, <1>11, <2>1
    <2>3. Has(c, 2, n, x)'
      BY <1>1, <2>2 DEF Has
    <2> QED BY <2>3
  <1> QED BY <1>2, <1>3, <1>6, <1>7, <1>8, <1>9, <1>10, <1>11

LEMMA DroppingPlaces ==
    ASSUME Base, NEW c \in 1..Len(client), OwnStep(c), NEW b \in Nat, DroppingOf(c, b)
    PROVE  /\ At(c, 3, 1, b)
           /\ \A n, a : At(c, 0, n, a)' => \/ At(c, 0, n, a)
                                           \/ n = Len(client[c].cache) + 1 /\ a = b
           /\ \A n, a : At(c, 2, n, a)' => At(c, 2, n, a)
           /\ \A s, n, x : s # 3 => (Has(c, s, n, x)' <=> Has(c, s, n, x))
  <1>1. ServerTyped /\ heap' = heap
    BY DEF Base, OwnStep
  <1>2. client[c].cache \in Seq(Nat)
    BY <1>1, Typing, ClientFields
  <1>3. At(c, 3, 1, b)
    BY DEF DroppingOf, At
  <1>4. ASSUME NEW n, NEW a, At(c, 0, n, a)'
        PROVE  At(c, 0, n, a) \/ (n = Len(client[c].cache) + 1 /\ a = b)
    <2>1. n \in 1..Len(client'[c].cache) /\ a = client'[c].cache[n]
      BY <1>4 DEF At
    <2>2. CASE client'[c].cache = client[c].cache
      BY <2>1, <2>2 DEF At
    <2>3. CASE client'[c].cache = CachePush(client[c].cache, b, MaxCache)
      <3>1. \/ n \in 1..Len(client[c].cache) /\ a = client[c].cache[n]
            \/ n = Len(client[c].cache) + 1 /\ a = b
        BY <1>2, <2>1, <2>3, CachePushes
      <3> QED BY <3>1 DEF At
    <2> QED BY <2>2, <2>3 DEF DroppingOf
  <1>5. \A n, a : At(c, 2, n, a)' => At(c, 2, n, a)
    BY DEF At, DroppingOf
  <1>6. \A s, n, x : s # 3 => (Has(c, s, n, x)' <=> Has(c, s, n, x))
    BY <1>1 DEF Has, DroppingOf
  <1> QED BY <1>3, <1>4, <1>5, <1>6

LEMMA KeepingLines ==
    ASSUME Base, Lines, NEW c \in 1..Len(client), OwnStep(c), NEW b \in Nat, KeepingOf(c, b)
    PROVE  Lines' /\ Losing
  <1>1. ServerTyped /\ LineInv /\ Len(client') = Len(client)
    BY DEF Base, Lines, OwnStep
  <1>2. PushesRefer' /\ MapRight' /\ ReadsWhenEmpty' /\ CacheBounded' /\ SameGiven
    BY OwnParts
  <1> DEFINE q == Len(client[c].queue)
  <1>3. At(c, 3, 1, b) /\ Has(c, 3, 1, heap[b]) /\ q \in Nat
    BY KeepingPlaces
  <1>4. \A d \in 1..Len(client) : \A s, n, a : At(d, s, n, a)' =>
           \/ s = 3 /\ n \in Nat /\ n > 0 /\ At(d, 3, n + 1, a)
           \/ s # 3 /\ d # c /\ At(d, s, n, a)
           \/ s = 0 /\ d = c /\ At(c, 0, n, a)
           \/ s = 2 /\ d = c /\ n \in Nat /\ n <= q /\ At(c, 2, n, a)
           \/ s = 2 /\ d = c /\ n = q + 1 /\ a = b
    BY KeepingPlaces, OtherPlaces
  <1>5. \A d \in 1..Len(client) : \A s, n, x : Has(d, s, n, x)' =>
           \/ s = 3 /\ n \in Nat /\ n > 0 /\ Has(d, 3, n + 1, x)
           \/ s # 3 /\ d # c /\ Has(d, s, n, x)
           \/ s = 1 /\ d = c /\ Has(c, 1, n, x)
           \/ s = 2 /\ d = c /\ n \in Nat /\ n <= q /\ Has(c, 2, n, x)
           \/ s = 2 /\ d = c /\ n = q + 1 /\ x = heap[b]
    BY KeepingPlaces, OtherItems
  <1> HIDE DEF q
  <1>6. Comes
    BY <1>3, <1>4, <1>5 DEF Comes
  <1>7. Referring' /\ FromPeer' /\ AllEarlier' /\ GivenEarlier'
    BY <1>1, <1>2, <1>6, LinesKept
  <1>8. Disjoint'
    <2> SUFFICES ASSUME NEW d \in 1..Len(client), NEW e \in 1..Len(client),
                        NEW s, NEW n, NEW t, NEW m, NEW a, At(d, s, n, a)', At(e, t, m, a)'
                 PROVE  d = e /\ s = t /\ n = m
      BY <1>1 DEF Disjoint
    <2>1. \/ s = 3 /\ n \in Nat /\ n > 0 /\ At(d, 3, n + 1, a)
          \/ s # 3 /\ d # c /\ At(d, s, n, a)
          \/ s = 0 /\ d = c /\ At(c, 0, n, a)
          \/ s = 2 /\ d = c /\ n \in Nat /\ n <= q /\ At(c, 2, n, a)
          \/ s = 2 /\ d = c /\ n = q + 1 /\ a = b
      BY <1>4
    <2>2. \/ t = 3 /\ m \in Nat /\ m > 0 /\ At(e, 3, m + 1, a)
          \/ t # 3 /\ e # c /\ At(e, t, m, a)
          \/ t = 0 /\ e = c /\ At(c, 0, m, a)
          \/ t = 2 /\ e = c /\ m \in Nat /\ m <= q /\ At(c, 2, m, a)
          \/ t = 2 /\ e = c /\ m = q + 1 /\ a = b
      BY <1>4
    <2>3. \A f, g \in 1..Len(client) : \A i, j, k, l, z :
             At(f, i, j, z) /\ At(g, k, l, z) => f = g /\ i = k /\ j = l
      BY <1>1 DEF LineInv, Disjoint
    <2> QED BY <1>3, <2>1, <2>2, <2>3
  <1>9. InOrder'
    <2> SUFFICES ASSUME NEW d \in 1..Len(client), NEW s, NEW n, NEW x, NEW t, NEW m, NEW y,
                        Has(d, s, n, x)', Has(d, t, m, y)', s < t \/ (s = t /\ n < m)
                 PROVE  x.number < y.number
      BY <1>1 DEF InOrder
    <2>1. \/ s = 3 /\ n \in Nat /\ n > 0 /\ Has(d, 3, n + 1, x)
          \/ s # 3 /\ d # c /\ Has(d, s, n, x)
          \/ s = 1 /\ d = c /\ Has(c, 1, n, x)
          \/ s = 2 /\ d = c /\ n \in Nat /\ n <= q /\ Has(c, 2, n, x)
          \/ s = 2 /\ d = c /\ n = q + 1 /\ x = heap[b]
      BY <1>5
    <2>2. \/ t = 3 /\ m \in Nat /\ m > 0 /\ Has(d, 3, m + 1, y)
          \/ t # 3 /\ d # c /\ Has(d, t, m, y)
          \/ t = 1 /\ d = c /\ Has(c, 1, m, y)
          \/ t = 2 /\ d = c /\ m \in Nat /\ m <= q /\ Has(c, 2, m, y)
          \/ t = 2 /\ d = c /\ m = q + 1 /\ y = heap[b]
      BY <1>5
    <2>3. \A i, j, k, l, v, w : Has(d, i, j, v) /\ Has(d, k, l, w) /\ (i < k \/ (i = k /\ j < l))
                                => v.number < w.number
      BY <1>1 DEF LineInv, InOrder
    <2>4. n \in Nat /\ m \in Nat /\ n < m => n + 1 < m + 1
      OBVIOUS
    <2>5. (s = 1 \/ s = 2 \/ s = 3) /\ (t = 1 \/ t = 2 \/ t = 3)
      BY OtherItems
    <2> QED BY <1>3, <2>1, <2>2, <2>3, <2>4, <2>5
  <1>10. Losing
    <2> SUFFICES ASSUME NEW d \in 1..Len(client) PROVE Missing(d)' = Missing(d)
      BY DEF Losing
    <2>1. \A s, n, x : Has(d, s, n, x)' => \E t, m : Has(d, t, m, x)
      BY <1>6 DEF Comes
    <2>2. ASSUME NEW s, NEW n, NEW x, Has(d, s, n, x) PROVE \E t, m : Has(d, t, m, x)'
      <3>1. s = 1 \/ s = 2 \/ s = 3
        BY <2>2, OtherItems
      <3>2. CASE s # 3 /\ d # c
        BY <2>2, <3>2, OtherItems
      <3>3. CASE s # 3 /\ d = c
        BY <2>2, <3>1, <3>3, KeepingPlaces
      <3>4. CASE s = 3
        <4>1. \/ n = 1 /\ Head(strand) = strand[1] /\ 1 \in PushesTo(d)
              \/ n \in Nat /\ Has(d, 3, n - 1, x)'
          BY <2>2, <3>4, OtherItems
        <4>2. CASE n = 1 /\ 1 \in PushesTo(d)
          <5>1. d = c
            BY <4>2 DEF KeepingOf, PushesTo
          <5>2. x = heap[b]
            BY <2>2, <3>4, <4>2, <5>1 DEF Has, KeepingOf
          <5> QED BY <5>1, <5>2, KeepingPlaces
        <4> QED BY <4>1, <4>2
      <3> QED BY <3>2, <3>3, <3>4
    <2> QED BY <1>2, <2>1, <2>2, NothingLost DEF SameGiven
  <1> QED BY <1>2, <1>7, <1>8, <1>9, <1>10 DEF Lines, LineInv

LEMMA DroppingLines ==
    ASSUME Base, Lines, NEW c \in 1..Len(client), OwnStep(c), NEW b \in Nat, DroppingOf(c, b)
    PROVE  Lines' /\ Losing
  <1>1. ServerTyped /\ LineInv /\ Len(client') = Len(client)
    BY DEF Base, Lines, OwnStep
  <1>2. PushesRefer' /\ MapRight' /\ ReadsWhenEmpty' /\ CacheBounded' /\ SameGiven
    BY OwnParts
  <1> DEFINE k == Len(client[c].cache)
  <1>3. At(c, 3, 1, b)
    BY DroppingPlaces
  <1>4. \A d \in 1..Len(client) : \A s, n, a : At(d, s, n, a)' =>
           \/ s = 3 /\ n \in Nat /\ n > 0 /\ At(d, 3, n + 1, a)
           \/ s # 3 /\ At(d, s, n, a)
           \/ s = 0 /\ d = c /\ n = k + 1 /\ a = b
    BY DroppingPlaces, OtherPlaces
  <1>5. \A d \in 1..Len(client) : \A s, n, x : Has(d, s, n, x)' =>
           \/ s = 3 /\ n \in Nat /\ n > 0 /\ Has(d, 3, n + 1, x)
           \/ s # 3 /\ Has(d, s, n, x)
    BY DroppingPlaces, OtherItems
  <1> HIDE DEF k
  <1>6. Comes
    BY <1>3, <1>4, <1>5 DEF Comes
  <1>7. Referring' /\ FromPeer' /\ AllEarlier' /\ GivenEarlier'
    BY <1>1, <1>2, <1>6, LinesKept
  <1>8. Disjoint'
    <2> SUFFICES ASSUME NEW d \in 1..Len(client), NEW e \in 1..Len(client),
                        NEW s, NEW n, NEW t, NEW m, NEW a, At(d, s, n, a)', At(e, t, m, a)'
                 PROVE  d = e /\ s = t /\ n = m
      BY <1>1 DEF Disjoint
    <2>1. \/ s = 3 /\ n \in Nat /\ n > 0 /\ At(d, 3, n + 1, a)
          \/ s # 3 /\ At(d, s, n, a)
          \/ s = 0 /\ d = c /\ n = k + 1 /\ a = b
      BY <1>4
    <2>2. \/ t = 3 /\ m \in Nat /\ m > 0 /\ At(e, 3, m + 1, a)
          \/ t # 3 /\ At(e, t, m, a)
          \/ t = 0 /\ e = c /\ m = k + 1 /\ a = b
      BY <1>4
    <2>3. \A f, g \in 1..Len(client) : \A i, j, h, l, z :
             At(f, i, j, z) /\ At(g, h, l, z) => f = g /\ i = h /\ j = l
      BY <1>1 DEF LineInv, Disjoint
    <2> QED BY <1>3, <2>1, <2>2, <2>3
  <1>9. InOrder'
    <2> SUFFICES ASSUME NEW d \in 1..Len(client), NEW s, NEW n, NEW x, NEW t, NEW m, NEW y,
                        Has(d, s, n, x)', Has(d, t, m, y)', s < t \/ (s = t /\ n < m)
                 PROVE  x.number < y.number
      BY <1>1 DEF InOrder
    <2>1. \/ s = 3 /\ n \in Nat /\ n > 0 /\ Has(d, 3, n + 1, x)
          \/ s # 3 /\ Has(d, s, n, x)
      BY <1>5
    <2>2. \/ t = 3 /\ m \in Nat /\ m > 0 /\ Has(d, 3, m + 1, y)
          \/ t # 3 /\ Has(d, t, m, y)
      BY <1>5
    <2>3. \A i, j, h, l, v, w : Has(d, i, j, v) /\ Has(d, h, l, w) /\ (i < h \/ (i = h /\ j < l))
                                => v.number < w.number
      BY <1>1 DEF LineInv, InOrder
    <2>4. n \in Nat /\ m \in Nat /\ n < m => n + 1 < m + 1
      OBVIOUS
    <2> QED BY <2>1, <2>2, <2>3, <2>4
  <1>10. Losing
    <2> SUFFICES ASSUME NEW d \in 1..Len(client), d # c PROVE Missing(d)' = Missing(d)
      BY DEF Losing, DroppingOf
    <2>1. \A s, n, x : Has(d, s, n, x)' => \E t, m : Has(d, t, m, x)
      BY <1>6 DEF Comes
    <2>2. ASSUME NEW s, NEW n, NEW x, Has(d, s, n, x) PROVE \E t, m : Has(d, t, m, x)'
      <3>1. CASE s # 3
        BY <2>2, <3>1, OtherItems
      <3>2. CASE s = 3
        <4>1. \/ n = 1 /\ Head(strand) = strand[1] /\ 1 \in PushesTo(d)
              \/ n \in Nat /\ Has(d, 3, n - 1, x)'
          BY <2>2, <3>2, OtherItems
        <4>2. ~(1 \in PushesTo(d))
          BY DEF DroppingOf, PushesTo
        <4> QED BY <4>1, <4>2
      <3> QED BY <3>1, <3>2
    <2> QED BY <1>2, <2>1, <2>2, NothingLost DEF SameGiven
  <1> QED BY <1>2, <1>7, <1>8, <1>9, <1>10 DEF Lines, LineInv

LEMMA DeliveredClient ==
    ASSUME ServerTyped, NEW c \in 1..Len(client), NEW b \in 1..Len(heap), NEW r \in BOOLEAN,
           NEW rest \in Seq(Nat), client' = Delivered(c, b, r, rest)
    PROVE  /\ client' \in Seq(ClientType) /\ Len(client') = Len(client)
           /\ \A d \in 1..Len(client) : d # c => client'[d] = client[d]
           /\ client'[c].ep = client[c].ep /\ client'[c].given = client[c].given
           /\ client'[c].got = Append(client[c].got, heap[b]) /\ client'[c].read = r
           /\ client'[c].queue = rest /\ client'[c].cache = CachePush(client[c].cache, b, MaxCache)
           /\ client'[c].asked = client[c].asked /\ client'[c].closed = client[c].closed
  <1> DEFINE g == Append(client[c].got, heap[b])
             k == CachePush(client[c].cache, b, MaxCache)
             o == client[c]
             x == AfterDelivery(o, g, r, rest, k)
  <1>1. client[c] \in ClientType /\ heap[b] \in Datagram /\ b \in Nat
    BY Typing
  <1>2. client[c].got \in Seq(Datagram) /\ client[c].cache \in Seq(Nat)
    BY <1>1, ClientFields
  <1>3. g \in Seq(Datagram)
    BY <1>1, <1>2
  <1>4. k \in Seq(Nat)
    BY <1>1, <1>2, CachePushes
  <1>5. client' = [client EXCEPT ![c] = x]
    BY DEF Delivered, AfterDelivery
  <1>0. o \in ClientType
    BY <1>1
  <1> HIDE DEF g, k, o
  <1>6. /\ x \in ClientType
        /\ x.ep = o.ep /\ x.read = r /\ x.queue = rest /\ x.cache = k
        /\ x.asked = o.asked /\ x.closed = o.closed /\ x.given = o.given /\ x.got = g
    BY <1>0, <1>3, <1>4, DeliveredAssigned
  <1> HIDE DEF x
  <1>7. /\ client' \in Seq(ClientType) /\ Len(client') = Len(client) /\ client'[c] = x
        /\ \A d \in 1..Len(client) : d # c => client'[d] = client[d]
    BY <1>5, <1>6, OneChanges
  <1> QED BY <1>6, <1>7 DEF g, k, o

LEMMA SetReadImplInv == ASSUME Base, Lines, SetReadImpl PROVE Base' /\ Lines' /\ Losing
  <1> DEFINE c == Head(strand).client
  <1>1. /\ strand # <<>> /\ Head(strand).kind = "set_read" /\ strand' = Tail(strand) \o <<>>
        /\ UNCHANGED <<queue, ops, receiving, ep, active, accepted, reported,
                       accepting, shut, clients, heap, arrived, failures>>
    BY DEF SetReadImpl, OtherHandler, Runs
  <1>2. /\ \/ client' = Delivered(c, NextBuffer(c), FALSE, AfterRead(c)) /\ client[c].queue # <<>>
           \/ client' = [client EXCEPT ![c].read = TRUE] /\ client[c].queue = <<>>
           \/ client' = client
    BY DEF SetReadImpl
  <1>3. ServerTyped /\ SendTyped /\ LineInv /\ CacheBounded
    BY DEF Base, SendInv, Lines, LineInv
  <1>4. c \in 1..Len(client)
    <2>1. 1 \in Tasks("set_read") /\ strand[1] = Head(strand)
      BY <1>1, <1>3, Running DEF SendTyped
    <2> QED BY <2>1 DEF Base, ReadsRefer
  <1> HIDE DEF c
  <1>5. /\ client[c] \in ClientType /\ client[c].queue \in Seq(Nat) /\ client[c].cache \in Seq(Nat)
    BY <1>3, <1>4, Typing, ClientFields
  <1>6. CASE client' = Delivered(c, NextBuffer(c), FALSE, AfterRead(c)) /\ client[c].queue # <<>>
    <2> DEFINE b == Head(client[c].queue)
               rest == Tail(client[c].queue)
    <2>1. b \in 1..Len(heap) /\ b \in Nat
      <3>1. At(c, 2, 1, b)
        BY <1>5, <1>6 DEF At
      <3>2. b \in 1..Len(heap)
        BY <1>3, <1>4, <3>1 DEF LineInv, Referring
      <3> QED BY <3>2
    <2>2. rest \in Seq(Nat)
      BY <1>5, <1>6
    <2>3. client' = Delivered(c, b, FALSE, rest)
      BY <1>6 DEF NextBuffer, AfterRead
    <2> HIDE DEF b, rest
    <2>4. /\ client' \in Seq(ClientType) /\ Len(client') = Len(client)
          /\ \A d \in 1..Len(client) : d # c => client'[d] = client[d]
          /\ client'[c].ep = client[c].ep /\ client'[c].given = client[c].given
          /\ client'[c].got = Append(client[c].got, heap[b]) /\ client'[c].read = FALSE
          /\ client'[c].queue = rest /\ client'[c].cache = CachePush(client[c].cache, b, MaxCache)
      BY <1>3, <1>4, <2>1, <2>2, <2>3, DeliveredClient
    <2>5. Base' /\ (Arrived' => Arrived)
      BY <1>1, <2>4, OwnTaskBase
    <2>6. Len(client'[c].cache) <= MaxCache
      BY <1>3, <1>4, <1>5, <2>1, <2>4, CachePushes DEF CacheBounded
    <2>7. OwnStep(c)
      BY <1>1, <2>4, <2>5, <2>6 DEF OwnStep
    <2>8. DeliveryOf(c, b, 2)
      BY <1>1, <1>6, <2>4 DEF DeliveryOf, b, rest
    <2> QED BY <1>4, <2>1, <2>5, <2>7, <2>8, DeliveryLines
  <1>7. CASE client' = [client EXCEPT ![c].read = TRUE] /\ client[c].queue = <<>>
    <2> DEFINE x == [client[c] EXCEPT !.read = TRUE]
    <2>1. /\ x \in ClientType /\ x.ep = client[c].ep /\ x.queue = client[c].queue
          /\ x.cache = client[c].cache /\ x.given = client[c].given /\ x.got = client[c].got
      BY <1>5, ReadAssigned
    <2>2. client' = [client EXCEPT ![c] = x]
      BY <1>7
    <2> HIDE DEF x
    <2>3. /\ client' \in Seq(ClientType) /\ Len(client') = Len(client) /\ client'[c] = x
          /\ \A d \in 1..Len(client) : d # c => client'[d] = client[d]
      BY <1>3, <1>4, <2>1, <2>2, OneChanges
    <2>4. Base' /\ (Arrived' => Arrived)
      BY <1>1, <2>3, OwnTaskBase
    <2>5. \A d \in 1..Len(client) : Same(d)
      BY <1>7, <2>1, <2>3 DEF Same
    <2>6. Quiet("push")
      BY <1>1 DEF Quiet
    <2>7. LineStays
      BY <1>1, <2>3, <2>4, <2>5, <2>6 DEF LineStays
    <2> QED BY <2>4, <2>7, StayingLines
  <1>8. CASE client' = client
    <2>1. client' \in Seq(ClientType) /\ Len(client') = Len(client) /\ \A d \in 1..Len(client) : Same(d)
      BY <1>3, <1>8, Typing DEF Same
    <2>2. Base' /\ (Arrived' => Arrived)
      BY <1>1, <2>1, OwnTaskBase
    <2>3. Quiet("push")
      BY <1>1 DEF Quiet
    <2>4. LineStays
      BY <1>1, <2>1, <2>2, <2>3 DEF LineStays
    <2> QED BY <2>2, <2>4, StayingLines
  <1> QED BY <1>2, <1>6, <1>7, <1>8

LEMMA PushDataImplInv == ASSUME Base, Lines, PushDataImpl PROVE Base' /\ Lines' /\ Losing
  <1> DEFINE c == Head(strand).client
             b == Head(strand).buf
  <1>1. /\ strand # <<>> /\ Head(strand).kind = "push" /\ strand' = Tail(strand) \o <<>>
        /\ UNCHANGED <<queue, ops, receiving, ep, active, accepted, reported,
                       accepting, shut, clients, heap, arrived, failures>>
    BY DEF PushDataImpl, OtherHandler, Runs
  <1>2. /\ \/ client' = Delivered(c, b, TRUE, client[c].queue) /\ client[c].read
           \/ client' = [client EXCEPT ![c].queue = Append(@, b)] /\ ~client[c].read
           \/ client' = [client EXCEPT ![c].cache = CachePush(@, b, MaxCache)] /\ ~HasRoom(c)
           \/ client' = client /\ ~Alive(c)
    BY DEF PushDataImpl
  <1>3. ServerTyped /\ SendTyped /\ LineInv /\ CacheBounded /\ ReadsWhenEmpty
    BY DEF Base, SendInv, Lines, LineInv
  <1>4. 1 \in Tasks("push") /\ strand[1] = Head(strand)
    BY <1>1, <1>3, Running DEF SendTyped
  <1>5. c \in 1..Len(client) /\ 1 \in PushesTo(c) /\ b = strand[1].buf
    BY <1>4 DEF Lines, PushesRefer, PushesTo
  <1> HIDE DEF c, b
  <1>6. /\ client[c] \in ClientType /\ client[c].queue \in Seq(Nat) /\ client[c].cache \in Seq(Nat)
        /\ Len(client[c].queue) \in Nat /\ MaxCache \in Nat
    BY <1>3, <1>5, Typing, ClientFields, ServerBoundsAssumption
  <1>7. b \in 1..Len(heap) /\ b \in Nat
    <2>1. At(c, 3, 1, b)
      BY <1>5 DEF At
    <2>2. b \in 1..Len(heap)
      BY <1>3, <1>5, <2>1 DEF LineInv, Referring
    <2> QED BY <2>2
  <1>8. Len(CachePush(client[c].cache, b, MaxCache)) <= MaxCache
        /\ CachePush(client[c].cache, b, MaxCache) \in Seq(Nat)
    BY <1>3, <1>5, <1>6, <1>7, CachePushes DEF CacheBounded
  <1>9. CASE client' = Delivered(c, b, TRUE, client[c].queue) /\ client[c].read
    <2>1. client[c].queue = <<>>
      BY <1>3, <1>5, <1>9 DEF ReadsWhenEmpty
    <2>2. /\ client' \in Seq(ClientType) /\ Len(client') = Len(client)
          /\ \A d \in 1..Len(client) : d # c => client'[d] = client[d]
          /\ client'[c].ep = client[c].ep /\ client'[c].given = client[c].given
          /\ client'[c].got = Append(client[c].got, heap[b])
          /\ client'[c].queue = client[c].queue
          /\ client'[c].cache = CachePush(client[c].cache, b, MaxCache)
      BY <1>3, <1>5, <1>6, <1>7, <1>9, DeliveredClient
    <2>3. Base' /\ (Arrived' => Arrived)
      BY <1>1, <2>2, OwnTaskBase
    <2>4. OwnStep(c)
      BY <1>1, <1>8, <2>1, <2>2, <2>3 DEF OwnStep
    <2>5. DeliveryOf(c, b, 3)
      BY <1>5, <2>1, <2>2 DEF DeliveryOf
    <2> QED BY <1>5, <1>7, <2>3, <2>4, <2>5, DeliveryLines
  <1>10. CASE client' = [client EXCEPT ![c].queue = Append(@, b)] /\ ~client[c].read
    <2> DEFINE q == Append(client[c].queue, b)
               x == [client[c] EXCEPT !.queue = q]
    <2>1. q \in Seq(Nat)
      BY <1>6, <1>7
    <2>2. client' = [client EXCEPT ![c] = x]
      BY <1>10
    <2> HIDE DEF q
    <2>3. /\ x \in ClientType /\ x.ep = client[c].ep /\ x.queue = q /\ x.read = client[c].read
          /\ x.cache = client[c].cache /\ x.given = client[c].given /\ x.got = client[c].got
      BY <1>6, <2>1, QueueAssigned
    <2> HIDE DEF x
    <2>4. /\ client' \in Seq(ClientType) /\ Len(client') = Len(client) /\ client'[c] = x
          /\ \A d \in 1..Len(client) : d # c => client'[d] = client[d]
      BY <1>3, <1>5, <2>2, <2>3, OneChanges
    <2>5. Base' /\ (Arrived' => Arrived)
      BY <1>1, <2>4, OwnTaskBase
    <2>6. ~client'[c].read /\ Len(client'[c].cache) <= MaxCache
      BY <1>3, <1>5, <1>10, <2>3, <2>4 DEF CacheBounded
    <2>7. OwnStep(c)
      BY <1>1, <2>3, <2>4, <2>5, <2>6 DEF OwnStep
    <2>8. KeepingOf(c, b)
      BY <1>5, <2>3, <2>4 DEF KeepingOf, q
    <2> QED BY <1>5, <1>7, <2>5, <2>7, <2>8, KeepingLines
  <1>11. CASE client' = [client EXCEPT ![c].cache = CachePush(@, b, MaxCache)] /\ ~HasRoom(c)
    <2> DEFINE k == CachePush(client[c].cache, b, MaxCache)
               x == [client[c] EXCEPT !.cache = k]
    <2>1. k \in Seq(Nat) /\ Len(k) <= MaxCache
      BY <1>8
    <2>2. client' = [client EXCEPT ![c] = x]
      BY <1>11
    <2> HIDE DEF k
    <2>3. /\ x \in ClientType /\ x.ep = client[c].ep /\ x.queue = client[c].queue
          /\ x.read = client[c].read
          /\ x.cache = k /\ x.given = client[c].given /\ x.got = client[c].got
      BY <1>6, <2>1, CacheAssigned
    <2> HIDE DEF x
    <2>4. /\ client' \in Seq(ClientType) /\ Len(client') = Len(client) /\ client'[c] = x
          /\ \A d \in 1..Len(client) : d # c => client'[d] = client[d]
      BY <1>3, <1>5, <2>2, <2>3, OneChanges
    <2>5. Base' /\ (Arrived' => Arrived)
      BY <1>1, <2>4, OwnTaskBase
    <2>6. (client'[c].read => client'[c].queue = <<>>) /\ Len(client'[c].cache) <= MaxCache
      BY <1>3, <1>5, <2>1, <2>3, <2>4 DEF ReadsWhenEmpty
    <2>7. OwnStep(c)
      BY <1>1, <2>3, <2>4, <2>5, <2>6 DEF OwnStep
    <2>8. Len(client[c].queue) >= MaxCache
      BY <1>6, <1>11 DEF HasRoom
    <2>9. DroppingOf(c, b)
      BY <1>5, <2>3, <2>4, <2>8 DEF DroppingOf, k
    <2> QED BY <1>5, <1>7, <2>5, <2>7, <2>9, DroppingLines
  <1>12. CASE client' = client /\ ~Alive(c)
    <2>1. client' \in Seq(ClientType) /\ Len(client') = Len(client)
      BY <1>3, <1>12, Typing
    <2>2. Base' /\ (Arrived' => Arrived)
      BY <1>1, <2>1, OwnTaskBase
    <2>3. OwnStep(c)
      BY <1>1, <1>3, <1>5, <1>12, <2>2 DEF OwnStep, ReadsWhenEmpty, CacheBounded
    <2>4. DroppingOf(c, b)
      BY <1>5, <1>12 DEF DroppingOf
    <2> QED BY <1>5, <1>7, <2>2, <2>3, <2>4, DroppingLines
  <1> QED BY <1>2, <1>9, <1>10, <1>11, <1>12

(***************************************************************************)
(* A datagram comes: it is filed behind all that came before, in a buffer     *)
(* where nothing is that somebody waits for.                                 *)
(***************************************************************************)
LEMMA AssignedHeap ==
    ASSUME heap \in Seq(Datagram), NEW b \in 1..(Len(heap) + 1), NEW d \in Datagram,
           heap' = Assigned(heap, b, d)
    PROVE  /\ heap' \in Seq(Datagram) /\ Len(heap') \in Nat /\ Len(heap') >= Len(heap)
           /\ b \in 1..Len(heap') /\ heap'[b] = d
           /\ \A a \in 1..Len(heap) : a \in 1..Len(heap') /\ (a # b => heap'[a] = heap[a])
  <1>1. Len(heap) \in Nat /\ b \in Nat
    OBVIOUS
  <1>2. CASE b > Len(heap)
    <2>1. heap' = Append(heap, d) /\ b = Len(heap) + 1
      BY <1>1, <1>2 DEF Assigned
    <2> QED BY <1>1, <2>1
  <1>3. CASE ~(b > Len(heap))
    <2>1. heap' = [heap EXCEPT ![b] = d] /\ b \in 1..Len(heap)
      BY <1>1, <1>3 DEF Assigned
    <2> QED BY <1>1, <2>1
  <1> QED BY <1>2, <1>3

\* The tasks after on_data has posted one for client c; l is its place.
PostsPush(c, b, l) ==
    /\ l = Len(strand) /\ l \in Nat
    /\ \A e, n : n \in PushesTo(e)' =>
          \/ n \in Nat /\ n > 0 /\ n < l /\ n + 1 \in PushesTo(e) /\ strand'[n] = strand[n + 1]
          \/ n = l /\ e = c /\ strand'[n].buf = b
    /\ \A e, n : n \in PushesTo(e) => n \in Nat /\ n - 1 \in PushesTo(e)' /\ strand'[n - 1] = strand[n]
    /\ l \in PushesTo(c)' /\ strand'[l].buf = b
    /\ \A i \in Tasks("push")' : \/ strand'[i].client = c
                                 \/ \E j \in Tasks("push") : strand'[i] = strand[j]

LEMMA PushPosted ==
    ASSUME SendTyped, strand # <<>>, Head(strand).kind = "received", NEW c \in Nat, NEW b \in Nat,
           strand' = Tail(strand) \o <<PushTask(c, b)>>
    PROVE  PostsPush(c, b, Len(strand))
  <1> DEFINE t == PushTask(c, b)
  <1>1. t \in Task /\ t.kind = "push" /\ t.client = c /\ t.buf = b
    BY TaskMade
  <1>2. strand \in Seq(Task) /\ Len(strand) \in Nat
    BY DEF SendTyped
  <1>3. strand' = Tail(strand) \o <<t>>
    OBVIOUS
  <1> HIDE DEF t
  <1>4. /\ \A i \in Tasks("push") : i > 1 /\ i - 1 \in Tasks("push")' /\ strand'[i - 1] = strand[i]
        /\ \A i \in Tasks("push")' :
              \/ i + 1 \in Tasks("push") /\ strand'[i] = strand[i + 1] /\ i < Len(strand)
              \/ i = Len(strand) /\ strand'[i] = t
        /\ Len(strand) \in Tasks("push")' /\ strand'[Len(strand)] = t
    BY <1>1, <1>2, <1>3, RunningPosts
  <1>5. /\ \A i \in Tasks("push") : i \in Nat /\ i > 0
        /\ \A i \in Tasks("push")' : i \in Nat /\ i > 0
    BY TaskPlaces
  <1> HIDE <1>3
  <1>6. \A e, n : n \in PushesTo(e)' =>
          \/ n \in Nat /\ n > 0 /\ n < Len(strand) /\ n + 1 \in PushesTo(e) /\ strand'[n] = strand[n + 1]
          \/ n = Len(strand) /\ e = c /\ strand'[n].buf = b
    BY <1>1, <1>4, <1>5 DEF PushesTo
  <1>7. \A e, n : n \in PushesTo(e) => n \in Nat /\ n - 1 \in PushesTo(e)' /\ strand'[n - 1] = strand[n]
    BY <1>4, <1>5 DEF PushesTo
  <1>8. ASSUME NEW l, l = Len(strand) PROVE l \in PushesTo(c)' /\ strand'[l].buf = b
    BY <1>1, <1>4, <1>8 DEF PushesTo
  <1>9. \A i \in Tasks("push")' : \/ strand'[i].client = c
                                  \/ \E j \in Tasks("push") : strand'[i] = strand[j]
    BY <1>1, <1>4
  <1> QED BY <1>2, <1>6, <1>7, <1>8, <1>9 DEF PostsPush

\* Datagram d is filed for client c in buffer b, the oldest it keeps or a new one.
FiledStep(c, b, d) ==
    /\ Len(client') = Len(client) /\ client' \in Seq(ClientType)
    /\ \A e \in 1..Len(client) : e # c => client'[e] = client[e]
    /\ client'[c].ep = client[c].ep /\ client'[c].read = client[c].read
    /\ client'[c].queue = client[c].queue /\ client'[c].got = client[c].got
    /\ client'[c].given = Append(client[c].given, d)
    /\ \/ client[c].cache = <<>> /\ client'[c].cache = <<>> /\ b = Len(heap) + 1
       \/ /\ client[c].cache # <<>> /\ client'[c].cache = Tail(client[c].cache)
          /\ b = client[c].cache[1]
    /\ heap' = Assigned(heap, b, d)
    /\ clients' = clients /\ arrived' = arrived
    /\ Arrived /\ ~Arrived' /\ d \in Datagram /\ d.number = arrived /\ d.from = client[c].ep

LEMMA FiledPlaces ==
    ASSUME Base, LineInv, NEW c \in 1..Len(client), NEW b, NEW d, NEW l,
           FiledStep(c, b, d), PostsPush(c, b, l)
    PROVE  /\ heap' \in Seq(Datagram) /\ b \in 1..Len(heap') /\ heap'[b] = d
           /\ \A e \in 1..Len(client) : \A s, n, a :
                 At(e, s, n, a) /\ ~(e = c /\ s = 0 /\ n = 1) =>
                    a # b /\ a \in 1..Len(heap') /\ heap'[a] = heap[a]
           /\ \A e \in 1..Len(client) : \A s, n, a : At(e, s, n, a)' =>
                 \/ s = 3 /\ n \in Nat /\ n > 0 /\ n < l /\ At(e, 3, n + 1, a)
                 \/ s = 3 /\ e = c /\ n = l /\ a = b
                 \/ s = 2 /\ At(e, 2, n, a)
                 \/ s = 0 /\ e # c /\ At(e, 0, n, a)
                 \/ s = 0 /\ e = c /\ n \in Nat /\ n > 0 /\ At(c, 0, n + 1, a)
  <1>1. ServerTyped
    BY DEF Base
  <1>2. /\ heap \in Seq(Datagram) /\ Len(heap) \in Nat /\ client[c].cache \in Seq(Nat)
    BY <1>1, Typing, ClientFields
  <1>3. client[c].cache # <<>> => At(c, 0, 1, client[c].cache[1])
    BY <1>2 DEF At
  <1>4. \/ b = Len(heap) + 1
        \/ At(c, 0, 1, b) /\ b \in 1..Len(heap)
    BY <1>3 DEF FiledStep, LineInv, Referring
  <1>5. /\ heap' \in Seq(Datagram) /\ Len(heap') \in Nat /\ Len(heap') >= Len(heap)
        /\ b \in 1..Len(heap') /\ heap'[b] = d
        /\ \A a \in 1..Len(heap) : a \in 1..Len(heap') /\ (a # b => heap'[a] = heap[a])
    <2>1. b \in 1..(Len(heap) + 1)
      BY <1>2, <1>4
    <2> QED BY <1>2, <2>1, AssignedHeap DEF FiledStep
  <1>6. ASSUME NEW e \in 1..Len(client), NEW s, NEW n, NEW a, At(e, s, n, a), ~(e = c /\ s = 0 /\ n = 1)
        PROVE  a # b /\ a \in 1..Len(heap') /\ heap'[a] = heap[a]
    <2>1. a \in 1..Len(heap)
      BY <1>6 DEF LineInv, Referring
    <2>2. a # b
      BY <1>2, <1>4, <1>6, <2>1 DEF LineInv, Disjoint
    <2> QED BY <1>5, <2>1, <2>2
  <1>7. ASSUME NEW e \in 1..Len(client), NEW n, NEW a, At(e, 3, n, a)'
        PROVE  \/ n \in Nat /\ n > 0 /\ n < l /\ At(e, 3, n + 1, a)
               \/ e = c /\ n = l /\ a = b
    <2>1. n \in PushesTo(e)' /\ a = strand'[n].buf
      BY <1>7 DEF At
    <2>2. \/ n \in Nat /\ n > 0 /\ n < l /\ n + 1 \in PushesTo(e) /\ strand'[n] = strand[n + 1]
          \/ n = l /\ e = c /\ strand'[n].buf = b
      BY <2>1 DEF PostsPush
    <2> QED BY <2>1, <2>2 DEF At
  <1>8. ASSUME NEW n, NEW a, At(c, 0, n, a)' PROVE n \in Nat /\ n > 0 /\ At(c, 0, n + 1, a)
    <2>1. n \in 1..Len(client'[c].cache) /\ a = client'[c].cache[n]
      BY <1>8 DEF At
    <2>2. client[c].cache # <<>> /\ client'[c].cache = Tail(client[c].cache)
      BY <2>1 DEF FiledStep
    <2>3. n \in Nat /\ n > 0 /\ n + 1 \in 1..Len(client[c].cache) /\ a = client[c].cache[n + 1]
      BY <1>2, <2>1, <2>2
    <2> QED BY <2>3 DEF At
  <1>9. ASSUME NEW e \in 1..Len(client), NEW n, NEW a, At(e, 2, n, a)' PROVE At(e, 2, n, a)
    BY <1>9 DEF At, FiledStep
  <1>10. ASSUME NEW e \in 1..Len(client), e # c, NEW n, NEW a, At(e, 0, n, a)' PROVE At(e, 0, n, a)
    BY <1>10 DEF At, FiledStep
  <1>11. \A e \in 1..Len(client) : \A s, n, a : At(e, s, n, a)' => s = 0 \/ s = 2 \/ s = 3
    BY DEF At
  <1>12. \A e \in 1..Len(client) : \A s, n, a : At(e, s, n, a)' =>
            \/ s = 3 /\ n \in Nat /\ n > 0 /\ n < l /\ At(e, 3, n + 1, a)
            \/ s = 3 /\ e = c /\ n = l /\ a = b
            \/ s = 2 /\ At(e, 2, n, a)
            \/ s = 0 /\ e # c /\ At(e, 0, n, a)
            \/ s = 0 /\ e = c /\ n \in Nat /\ n > 0 /\ At(c, 0, n + 1, a)
    BY <1>7, <1>8, <1>9, <1>10, <1>11
  <1> QED BY <1>5, <1>6, <1>12

LEMMA FiledItems ==
    ASSUME Base, LineInv, NEW c \in 1..Len(client), NEW b, NEW d, NEW l,
           FiledStep(c, b, d), PostsPush(c, b, l)
    PROVE  /\ \A e \in 1..Len(client) : \A s, n, x : Has(e, s, n, x)' =>
                 \/ s = 3 /\ n \in Nat /\ n > 0 /\ n < l /\ Has(e, 3, n + 1, x)
                 \/ s = 3 /\ e = c /\ n = l /\ x = d
                 \/ s = 2 /\ Has(e, 2, n, x)
                 \/ s = 1 /\ Has(e, 1, n, x)
           /\ \A e \in 1..Len(client) : \A s, n, x :
                 Has(e, s, n, x) => (s # 3 /\ Has(e, s, n, x)') \/ Has(e, 3, n - 1, x)'
           /\ Has(c, 3, l, d)'
  <1>1. heap'[b] = d
    BY FiledPlaces
  <1>2. \A e \in 1..Len(client) : \A s, n, a : At(e, s, n, a) /\ s # 0 => heap'[a] = heap[a]
    BY FiledPlaces
  <1>3. ASSUME NEW e \in 1..Len(client), NEW n, NEW x, Has(e, 3, n, x)'
        PROVE  \/ n \in Nat /\ n > 0 /\ n < l /\ Has(e, 3, n + 1, x)
               \/ e = c /\ n = l /\ x = d
    <2>1. n \in PushesTo(e)' /\ x = heap'[strand'[n].buf]
      BY <1>3 DEF Has
    <2>2. CASE n \in Nat /\ n > 0 /\ n < l /\ n + 1 \in PushesTo(e) /\ strand'[n] = strand[n + 1]
      <3>1. At(e, 3, n + 1, strand[n + 1].buf)
        BY <2>2 DEF At
      <3>2. x = heap[strand[n + 1].buf]
        BY <1>2, <2>1, <2>2, <3>1
      <3> QED BY <2>2, <3>2 DEF Has
    <2>3. CASE n = l /\ e = c /\ strand'[n].buf = b
      BY <1>1, <2>1, <2>3
    <2> QED BY <2>1, <2>2, <2>3 DEF PostsPush
  <1>4. ASSUME NEW e \in 1..Len(client), NEW n, NEW x, n \in 1..Len(client[e].queue)
        PROVE  heap'[client[e].queue[n]] = heap[client[e].queue[n]]
    <2>1. At(e, 2, n, client[e].queue[n])
      BY <1>4 DEF At
    <2> QED BY <1>2, <2>1
  <1>5. \A e \in 1..Len(client) : client'[e].queue = client[e].queue /\ client'[e].got = client[e].got
    BY DEF FiledStep
  <1>6. ASSUME NEW e \in 1..Len(client), NEW n, NEW x
        PROVE  (Has(e, 2, n, x)' <=> Has(e, 2, n, x)) /\ (Has(e, 1, n, x)' <=> Has(e, 1, n, x))
    BY <1>4, <1>5 DEF Has
  <1>7. ASSUME NEW e \in 1..Len(client), NEW n, NEW x, Has(e, 3, n, x) PROVE Has(e, 3, n - 1, x)'
    <2>1. n \in PushesTo(e) /\ x = heap[strand[n].buf]
      BY <1>7 DEF Has
    <2>2. At(e, 3, n, strand[n].buf)
      BY <2>1 DEF At
    <2>3. n - 1 \in PushesTo(e)' /\ strand'[n - 1] = strand[n]
      BY <2>1 DEF PostsPush
    <2>4. x = heap'[strand'[n - 1].buf]
      BY <1>2, <2>1, <2>2, <2>3
    <2> QED BY <2>3, <2>4 DEF Has
  <1>8. Has(c, 3, l, d)'
    BY <1>1 DEF Has, PostsPush
  <1>9. \A e \in 1..Len(client) : \A s, n, x :
           (Has(e, s, n, x) \/ Has(e, s, n, x)') => s = 1 \/ s = 2 \/ s = 3
    BY DEF Has
  <1>10. \A e \in 1..Len(client) : \A s, n, x : Has(e, s, n, x)' =>
            \/ s = 3 /\ n \in Nat /\ n > 0 /\ n < l /\ Has(e, 3, n + 1, x)
            \/ s = 3 /\ e = c /\ n = l /\ x = d
            \/ s = 2 /\ Has(e, 2, n, x)
            \/ s = 1 /\ Has(e, 1, n, x)
    BY <1>3, <1>6, <1>9
  <1>11. \A e \in 1..Len(client) : \A s, n, x :
            Has(e, s, n, x) => (s # 3 /\ Has(e, s, n, x)') \/ Has(e, 3, n - 1, x)'
    BY <1>6, <1>7, <1>9
  <1> QED BY <1>8, <1>10, <1>11

\* What is earlier than the datagram in hand is earlier once that one is filed.
LEMMA EarlierFiled ==
    ASSUME arrived \in Nat, arrived' = arrived, Arrived, ~Arrived', NEW n \in Nat
    PROVE  /\ Earlier(n) => n < arrived
           /\ n <= arrived => Earlier(n)'
  BY DEF Earlier

LEMMA FiledGiven ==
    ASSUME Base, LineInv, NEW c \in 1..Len(client), NEW b, NEW d, NEW l,
           FiledStep(c, b, d), PostsPush(c, b, l)
    PROVE  GivenEarlier' /\ Losing
  <1>1. ServerTyped /\ arrived \in Nat /\ Len(client') = Len(client)
    BY Typing DEF Base, FiledStep
  <1>2. \A e \in 1..Len(client) : \A n \in 1..Len(client[e].given) :
           client[e].given[n].number \in Nat /\ client[e].given[n].number < arrived
    <2> SUFFICES ASSUME NEW e \in 1..Len(client), NEW n \in 1..Len(client[e].given)
                 PROVE  client[e].given[n].number \in Nat /\ client[e].given[n].number < arrived
      OBVIOUS
    <2>1. client[e].given \in Seq(Datagram)
      BY <1>1, Typing, ClientFields
    <2>2. client[e].given[n] \in Datagram
      BY <2>1
    <2>3. client[e].given[n].number \in Nat
      BY <2>2 DEF Datagram
    <2>4. Earlier(client[e].given[n].number)
      BY DEF LineInv, GivenEarlier
    <2> QED BY <1>1, <2>3, <2>4, EarlierFiled DEF FiledStep
  <1>3. /\ client[c].given \in Seq(Datagram) /\ d \in Datagram /\ d.number = arrived
        /\ client'[c].given = Append(client[c].given, d)
    BY <1>1, Typing, ClientFields DEF FiledStep
  <1>4. GivenEarlier'
    <2> SUFFICES ASSUME NEW e \in 1..Len(client), NEW n \in 1..Len(client'[e].given)
                 PROVE  Earlier(client[e].given[n].number)'
      BY <1>1 DEF GivenEarlier
    <2> DEFINE k == client'[e].given[n].number
    <2>1. CASE e # c
      <3>1. k \in Nat /\ k <= arrived
        BY <1>1, <1>2, <2>1 DEF FiledStep
      <3> QED BY <1>1, <3>1, EarlierFiled DEF FiledStep
    <2>2. CASE e = c
      <3>1. \/ n \in 1..Len(client[c].given) /\ client'[c].given[n] = client[c].given[n]
            \/ client'[c].given[n] = d
        BY <1>3, <2>2
      <3>2. CASE n \in 1..Len(client[c].given) /\ client'[c].given[n] = client[c].given[n]
        <4>1. client[c].given[n].number \in Nat /\ client[c].given[n].number < arrived
          BY <1>2, <3>2
        <4>2. k \in Nat /\ k <= arrived
          BY <1>1, <2>2, <3>2, <4>1
        <4> QED BY <1>1, <4>2, EarlierFiled DEF FiledStep
      <3>3. CASE client'[c].given[n] = d
        <4>0. k = arrived
          BY <1>3, <2>2, <3>3
        <4> HIDE DEF k
        <4>1. k \in Nat /\ k <= arrived
          BY <1>1, <4>0
        <4> USE DEF k
        <4> QED BY <1>1, <4>1, EarlierFiled DEF FiledStep
      <3> QED BY <3>1, <3>2, <3>3
    <2> QED BY <2>1, <2>2
  <1>5. DataRight /\ MissingRight /\ DataRight' /\ MissingRight'
    BY DataIs, MissingIs, PTL
  <1>6. ASSUME NEW e \in 1..Len(client), e # c PROVE Missing(e)' = Missing(e)
    <2>1. /\ \A s, n, x : Has(e, s, n, x)' => \E t, m : Has(e, t, m, x)
          /\ \A s, n, x : Has(e, s, n, x) => \E t, m : Has(e, t, m, x)'
      BY <1>6, FiledItems
    <2> QED BY <1>6, <2>1, NothingLost DEF FiledStep
  <1>7. Missing(c)' = Missing(c)
    <2>1. \A x : x \in Data(c)' <=> x \in Data(c) \/ x = d
      <3>1. ASSUME NEW x, x \in Data(c)' PROVE x \in Data(c) \/ x = d
        <4>1. PICK s, n : Has(c, s, n, x)'
          BY <1>5, <3>1 DEF DataRight
        <4>2. x = d \/ \E t, m : Has(c, t, m, x)
          BY <4>1, FiledItems
        <4> QED BY <1>5, <4>2 DEF DataRight
      <3>2. ASSUME NEW x, x \in Data(c) PROVE x \in Data(c)'
        <4>1. PICK s, n : Has(c, s, n, x)
          BY <1>5, <3>2 DEF DataRight
        <4>2. \E t, m : Has(c, t, m, x)'
          BY <4>1, FiledItems
        <4> QED BY <1>5, <4>2 DEF DataRight
      <3>3. d \in Data(c)'
        BY <1>5, FiledItems DEF DataRight
      <3> QED BY <3>1, <3>2, <3>3
    <2>2. Range(client'[c].given) = Range(client[c].given) \cup {d}
      <3> DEFINE g == client[c].given
      <3>1. g \in Seq(Datagram) /\ client'[c].given = Append(g, d)
        BY <1>3
      <3> HIDE DEF g
      <3>2. /\ Len(g) \in Nat /\ DOMAIN g = 1..Len(g)
            /\ DOMAIN Append(g, d) = 1..(Len(g) + 1) /\ Append(g, d)[Len(g) + 1] = d
            /\ \A n \in 1..Len(g) : Append(g, d)[n] = g[n]
        BY <1>3, <3>1
      <3>3. Range(Append(g, d)) = Range(g) \cup {d}
        BY <3>2 DEF Range
      <3> QED BY <3>1, <3>3 DEF g
    <2>3. d \notin Range(client[c].given)
      <3>1. ASSUME NEW n \in 1..Len(client[c].given) PROVE client[c].given[n] # d
        <4>1. client[c].given[n].number \in Nat /\ client[c].given[n].number < arrived
          BY <1>2
        <4> QED BY <1>1, <1>3, <4>1
      <3>2. DOMAIN client[c].given = 1..Len(client[c].given)
        BY <1>3
      <3> QED BY <3>1, <3>2 DEF Range
    <2>4. Missing(c)' = Range(client'[c].given) \ Data(c)'
      BY <1>5 DEF MissingRight
    <2>5. Missing(c) = Range(client[c].given) \ Data(c)
      BY <1>5 DEF MissingRight
    <2> QED BY <2>1, <2>2, <2>3, <2>4, <2>5
  <1>8. Losing
    BY <1>6, <1>7 DEF Losing
  <1> QED BY <1>4, <1>8

LEMMA TailBounded ==
    ASSUME NEW k \in Seq(Nat), k # <<>>, NEW m \in Nat, Len(k) <= m
    PROVE  Len(Tail(k)) <= m
  <1>1. Len(Tail(k)) = Len(k) - 1 /\ Len(k) \in Nat
    OBVIOUS
  <1> QED BY <1>1

LEMMA FiledLines ==
    ASSUME Base, Lines, NEW c \in 1..Len(client), NEW b, NEW d, NEW l,
           FiledStep(c, b, d), PostsPush(c, b, l)
    PROVE  Lines' /\ Losing
  <1>1. ServerTyped /\ LineInv /\ Len(client') = Len(client) /\ arrived \in Nat
    BY Typing DEF Base, Lines, FiledStep
  <1>2. \A e \in 1..Len(client) : \A s, n, a : At(e, s, n, a)' =>
           \/ s = 3 /\ n \in Nat /\ n > 0 /\ n < l /\ At(e, 3, n + 1, a) /\ a # b
           \/ s = 3 /\ e = c /\ n = l /\ a = b
           \/ s = 2 /\ At(e, 2, n, a) /\ a # b
           \/ s = 0 /\ e # c /\ At(e, 0, n, a) /\ a # b
           \/ s = 0 /\ e = c /\ n \in Nat /\ n > 0 /\ At(c, 0, n + 1, a) /\ a # b
    <2> SUFFICES ASSUME NEW e \in 1..Len(client), NEW s, NEW n, NEW a, At(e, s, n, a)'
                 PROVE  \/ s = 3 /\ n \in Nat /\ n > 0 /\ n < l /\ At(e, 3, n + 1, a) /\ a # b
                        \/ s = 3 /\ e = c /\ n = l /\ a = b
                        \/ s = 2 /\ At(e, 2, n, a) /\ a # b
                        \/ s = 0 /\ e # c /\ At(e, 0, n, a) /\ a # b
                        \/ s = 0 /\ e = c /\ n \in Nat /\ n > 0 /\ At(c, 0, n + 1, a) /\ a # b
      OBVIOUS
    <2>1. \/ s = 3 /\ n \in Nat /\ n > 0 /\ n < l /\ At(e, 3, n + 1, a)
          \/ s = 3 /\ e = c /\ n = l /\ a = b
          \/ s = 2 /\ At(e, 2, n, a)
          \/ s = 0 /\ e # c /\ At(e, 0, n, a)
          \/ s = 0 /\ e = c /\ n \in Nat /\ n > 0 /\ At(c, 0, n + 1, a)
      BY <1>1, FiledPlaces
    <2>2. \A t, m : At(e, t, m, a) /\ ~(e = c /\ t = 0 /\ m = 1) => a # b
      BY <1>1, FiledPlaces
    <2> QED BY <2>1, <2>2
  <1>3. Referring'
    <2> SUFFICES ASSUME NEW e \in 1..Len(client), NEW s, NEW n, NEW a, At(e, s, n, a)'
                 PROVE  a \in 1..Len(heap')
      BY <1>1 DEF Referring
    <2>1. b \in 1..Len(heap')
      BY <1>1, FiledPlaces
    <2>2. a = b \/ \E t, m : At(e, t, m, a) /\ ~(e = c /\ t = 0 /\ m = 1)
      BY <1>2
    <2> QED BY <1>1, <2>1, <2>2, FiledPlaces
  <1>4. Disjoint'
    <2> SUFFICES ASSUME NEW e \in 1..Len(client), NEW f \in 1..Len(client),
                        NEW s, NEW n, NEW t, NEW m, NEW a, At(e, s, n, a)', At(f, t, m, a)'
                 PROVE  e = f /\ s = t /\ n = m
      BY <1>1 DEF Disjoint
    <2>1. \/ s = 3 /\ n \in Nat /\ n > 0 /\ n < l /\ At(e, 3, n + 1, a) /\ a # b
          \/ s = 3 /\ e = c /\ n = l /\ a = b
          \/ s = 2 /\ At(e, 2, n, a) /\ a # b
          \/ s = 0 /\ e # c /\ At(e, 0, n, a) /\ a # b
          \/ s = 0 /\ e = c /\ n \in Nat /\ n > 0 /\ At(c, 0, n + 1, a) /\ a # b
      BY <1>2
    <2>2. \/ t = 3 /\ m \in Nat /\ m > 0 /\ m < l /\ At(f, 3, m + 1, a) /\ a # b
          \/ t = 3 /\ f = c /\ m = l /\ a = b
          \/ t = 2 /\ At(f, 2, m, a) /\ a # b
          \/ t = 0 /\ f # c /\ At(f, 0, m, a) /\ a # b
          \/ t = 0 /\ f = c /\ m \in Nat /\ m > 0 /\ At(c, 0, m + 1, a) /\ a # b
      BY <1>2
    <2>3. \A g, h \in 1..Len(client) : \A i, j, k, o, z :
             At(g, i, j, z) /\ At(h, k, o, z) => g = h /\ i = k /\ j = o
      BY <1>1 DEF LineInv, Disjoint
    <2> QED BY <2>1, <2>2, <2>3
  <1>5. d.number = arrived /\ d.from = client[c].ep /\ l \in Nat
        /\ \A e \in 1..Len(client) : client'[e].ep = client[e].ep
    BY DEF FiledStep, PostsPush
  <1>6. ASSUME NEW e \in 1..Len(client), NEW s, NEW n, NEW x, Has(e, s, n, x)
        PROVE  x.number \in Nat /\ x.number < arrived /\ x.from = client[e].ep
    <2>1. x.number \in Nat
      BY <1>1, <1>6, HasTyped DEF LineInv
    <2>2. Earlier(x.number) /\ x.from = client[e].ep
      BY <1>1, <1>6 DEF LineInv, AllEarlier, FromPeer
    <2> QED BY <1>1, <2>1, <2>2, EarlierFiled DEF FiledStep
  <1>7. FromPeer'
    <2> SUFFICES ASSUME NEW e \in 1..Len(client), NEW s, NEW n, NEW x, Has(e, s, n, x)'
                 PROVE  x.from = client'[e].ep
      BY <1>1 DEF FromPeer
    <2>1. (e = c /\ x = d) \/ \E t, m : Has(e, t, m, x)
      BY <1>1, FiledItems
    <2> QED BY <1>5, <1>6, <2>1
  <1>8. AllEarlier'
    <2> SUFFICES ASSUME NEW e \in 1..Len(client), NEW s, NEW n, NEW x, Has(e, s, n, x)'
                 PROVE  Earlier(x.number)'
      BY <1>1 DEF AllEarlier
    <2>1. x = d \/ \E t, m : Has(e, t, m, x)
      BY <1>1, FiledItems
    <2>2. x.number \in Nat /\ x.number <= arrived
      BY <1>1, <1>5, <1>6, <2>1
    <2> QED BY <1>1, <2>2, EarlierFiled DEF FiledStep
  <1>9. InOrder'
    <2> SUFFICES ASSUME NEW e \in 1..Len(client), NEW s, NEW n, NEW x, NEW t, NEW m, NEW y,
                        Has(e, s, n, x)', Has(e, t, m, y)', s < t \/ (s = t /\ n < m)
                 PROVE  x.number < y.number
      BY <1>1 DEF InOrder
    <2>1. \/ s = 3 /\ n \in Nat /\ n > 0 /\ n < l /\ Has(e, 3, n + 1, x)
          \/ s = 3 /\ e = c /\ n = l /\ x = d
          \/ s = 2 /\ Has(e, 2, n, x)
          \/ s = 1 /\ Has(e, 1, n, x)
      BY <1>1, FiledItems
    <2>2. \/ t = 3 /\ m \in Nat /\ m > 0 /\ m < l /\ Has(e, 3, m + 1, y)
          \/ t = 3 /\ e = c /\ m = l /\ y = d
          \/ t = 2 /\ Has(e, 2, m, y)
          \/ t = 1 /\ Has(e, 1, m, y)
      BY <1>1, FiledItems
    <2>3. \A i, j, k, o, v, w : Has(e, i, j, v) /\ Has(e, k, o, w) /\ (i < k \/ (i = k /\ j < o))
                                => v.number < w.number
      BY <1>1 DEF LineInv, InOrder
    <2>4. n \in Nat /\ m \in Nat /\ n < m => n + 1 < m + 1
      OBVIOUS
    <2>5. CASE y = d /\ t = 3 /\ m = l
      <3>1. s = 3 => n < l
        BY <2>5
      <3>2. \E i, j : Has(e, i, j, x)
        BY <1>5, <2>1, <2>5, <3>1
      <3> QED BY <1>5, <1>6, <2>5, <3>2
    <2>6. CASE t = 3 /\ m \in Nat /\ m > 0 /\ m < l /\ Has(e, 3, m + 1, y)
      BY <1>5, <2>1, <2>3, <2>4, <2>6
    <2>7. CASE (t = 2 \/ t = 1) /\ Has(e, t, m, y)
      <3>1. (s = 2 \/ s = 1) /\ Has(e, s, n, x)
        BY <2>1, <2>7
      <3> QED BY <2>3, <2>7, <3>1
    <2> QED BY <2>2, <2>5, <2>6, <2>7
  <1>10. GivenEarlier' /\ Losing
    BY <1>1, FiledGiven
  <1>11. PushesRefer'
    BY <1>1 DEF Lines, PushesRefer, PostsPush
  <1>12. MapRight'
    <2> SUFFICES ASSUME NEW e \in Endpoints, clients[e] # 0 PROVE client'[clients[e]].ep = e
      BY DEF MapRight, FiledStep
    <2>1. clients[e] \in 1..Len(client)
      BY <1>1, Typing
    <2> QED BY <1>5, <2>1 DEF Lines, MapRight
  <1>13. ReadsWhenEmpty'
    BY <1>1 DEF Lines, ReadsWhenEmpty, FiledStep
  <1>14. CacheBounded'
    <2>1. client[c].cache \in Seq(Nat) /\ MaxCache \in Nat
      BY <1>1, Typing, ClientFields, ServerBoundsAssumption
    <2>2. Len(client[c].cache) <= MaxCache
      BY <1>1 DEF LineInv, CacheBounded
    <2>3. \/ client'[c].cache = <<>>
          \/ client[c].cache # <<>> /\ client'[c].cache = Tail(client[c].cache)
      BY DEF FiledStep
    <2>4. client[c].cache # <<>> => Len(Tail(client[c].cache)) <= MaxCache
      BY <2>1, <2>2, TailBounded
    <2>5. Len(<<>>) <= MaxCache
      BY <2>1
    <2>6. Len(client'[c].cache) <= MaxCache
      BY <2>1, <2>2, <2>3, <2>4, <2>5
    <2> QED BY <1>1, <2>6 DEF LineInv, CacheBounded, FiledStep
  <1> QED BY <1>3, <1>4, <1>7, <1>8, <1>9, <1>10, <1>11, <1>12, <1>13, <1>14 DEF Lines, LineInv

LEMMA CacheRests == ASSUME NEW k \in Seq(Nat) PROVE CacheRest(k) \in Seq(Nat)
  <1>1. k # <<>> => Tail(k) \in Seq(Nat)
    OBVIOUS
  <1> QED BY <1>1 DEF CacheRest

LEMMA PushDataInv ==
    ASSUME Base, Lines, OnData, Known(ep), PushData(clients[ep], Head(strand).data)
    PROVE  Base' /\ Lines' /\ Losing
  <1> DEFINE c == clients[ep]
             d == Head(strand).data
             b == CacheGet(client[c].cache, heap)
             t == PushTask(c, b)
  <1>1. /\ Runs("received") /\ Head(strand).ok /\ strand' = Tail(strand) \o <<t>> /\ ReadFrom
        /\ client' = [client EXCEPT ![c].cache = CacheRest(@), ![c].given = Append(@, d)]
        /\ heap' = Assigned(heap, b, d)
        /\ UNCHANGED <<queue, ops, active, accepted, reported, accepting, shut, clients, arrived, failures>>
    BY DEF OnData, PushData, ReadHandler
  <1>2. ServerTyped /\ SendTyped /\ ReadsRefer /\ LineInv
    BY DEF Base, SendInv, Lines
  <1>3. c \in 1..Len(client) /\ c \in Nat /\ client[c].ep = ep
    BY <1>2, Typing DEF Known, Lines, MapRight
  <1>4. /\ client[c] \in ClientType /\ client[c].cache \in Seq(Nat)
        /\ client[c].given \in Seq(Datagram) /\ Len(heap) \in Nat /\ heap \in Seq(Datagram)
    BY <1>2, <1>3, Typing, ClientFields
  <1>5. /\ b \in Nat
        /\ \/ client[c].cache = <<>> /\ CacheRest(client[c].cache) = <<>> /\ b = Len(heap) + 1
           \/ /\ client[c].cache # <<>> /\ CacheRest(client[c].cache) = Tail(client[c].cache)
              /\ b = client[c].cache[1]
    BY <1>4 DEF CacheGet, CacheRest, CacheCreate
  <1>6. t \in Task /\ t.kind = "push"
    BY <1>3, <1>5, TaskMade
  <1>7. CacheRest(client[c].cache) \in Seq(Nat)
    BY <1>4, CacheRests
  <1>8. PostsPush(c, b, Len(strand))
    BY <1>1, <1>2, <1>3, <1>5, PushPosted DEF Runs
  <1> HIDE DEF t, b, c, d
  <1>9. /\ SendInv' /\ RecvInv' /\ Quiet("set_read")
        /\ receiving' \in BOOLEAN /\ active' \in BOOLEAN /\ ep' \in Endpoints \cup {NoEndpoint}
        /\ d \in Datagram /\ d.from = ep /\ d.number = arrived
        /\ Arrived /\ ~Arrived'
    BY <1>1, <1>6, OnDataRecv DEF d
  <1> DEFINE k == CacheRest(client[c].cache)
             g == Append(client[c].given, d)
             x == AfterFiling(client[c], k, g)
  <1>10. k \in Seq(Nat) /\ g \in Seq(Datagram)
    BY <1>4, <1>7, <1>9
  <1>11. client' = [client EXCEPT ![c] = x]
    BY <1>1, <1>2, <1>3, Typing DEF AfterFiling
  <1> HIDE DEF k, g
  <1>12. /\ x \in ClientType /\ x.ep = client[c].ep /\ x.read = client[c].read
         /\ x.queue = client[c].queue /\ x.cache = k /\ x.given = g /\ x.got = client[c].got
    <2>1. IsFiled(x, client[c], k, g)
      BY <1>4, <1>10, GivenAssigned
    <2> QED BY <2>1 DEF IsFiled
  <1> HIDE DEF x
  <1>13. /\ client' \in Seq(ClientType) /\ Len(client') = Len(client) /\ client'[c] = x
         /\ \A e \in 1..Len(client) : e # c => client'[e] = client[e]
    BY <1>2, <1>3, <1>11, <1>12, OneChanges
  <1>14. FiledStep(c, b, d)
    BY <1>1, <1>3, <1>5, <1>9, <1>12, <1>13 DEF FiledStep, k, g
  <1>15. Lines' /\ Losing
    BY <1>3, <1>8, <1>14, FiledLines
  <1>16. heap' \in Seq(Datagram)
    BY <1>2, <1>3, <1>8, <1>14, FiledPlaces
  <1>17. ServerTyped'
    BY <1>1, <1>2, <1>9, <1>13, <1>16 DEF ServerTyped
  <1>18. ReadsRefer'
    BY <1>2, <1>9, <1>13, ReadsReferKept, Typing
  <1> QED BY <1>9, <1>15, <1>17, <1>18 DEF Base

\* A client is made for datagram d, with the datagram waiting.
MadeStep(c, b, d, e) ==
    /\ c = Len(client) + 1 /\ c \in Nat /\ b = Len(heap) + 1
    /\ client' \in Seq(ClientType) /\ Len(client') = c
    /\ \A f \in 1..Len(client) : client'[f] = client[f] /\ f # c
    /\ client'[c] = NewClient(e, b, d)
    /\ heap' \in Seq(Datagram) /\ Len(heap') = b /\ b \in Nat /\ heap'[b] = d
    /\ \A a \in 1..Len(heap) : heap'[a] = heap[a] /\ a # b /\ a \in 1..b
    /\ strand # <<>> /\ Head(strand).kind = "received" /\ strand' = Tail(strand) \o <<>>
    /\ clients' = [clients EXCEPT ![e] = c] /\ e \in Endpoints
    /\ arrived' = arrived /\ Arrived /\ ~Arrived'
    /\ d \in Datagram /\ d.number = arrived /\ d.from = e

IsNew(y, e, b, d) ==
    /\ y \in ClientType /\ y.ep = e /\ y.read = FALSE /\ y.queue = <<b>> /\ y.cache = <<>>
    /\ y.given = <<d>> /\ y.got = <<>> /\ y.asked = 0 /\ y.closed = 0

LEMMA NewClientIs ==
    ASSUME NEW e \in Endpoints, NEW b \in Nat, NEW d \in Datagram
    PROVE  IsNew(NewClient(e, b, d), e, b, d)
  <1>1. <<b>> \in Seq(Nat) /\ <<>> \in Seq(Nat) /\ <<d>> \in Seq(Datagram) /\ <<>> \in Seq(Datagram)
    OBVIOUS
  <1> DEFINE Q == Seq(Nat)
             D == Seq(Datagram)
             T == [ep : Endpoints, read : BOOLEAN, queue : Q, cache : Q,
                   asked : Nat, closed : Nat, given : D, got : D]
             q == <<b>>
             g == <<d>>
             z == [ep |-> e, read |-> FALSE, queue |-> q, cache |-> <<>>,
                   asked |-> 0, closed |-> 0, given |-> g, got |-> <<>>]
  <1>2. q \in Q /\ <<>> \in Q /\ g \in D /\ <<>> \in D
    BY <1>1
  <1> HIDE DEF Q, D, q, g
  <1>3. z \in T
    BY <1>2
  <1>4. /\ z.ep = e /\ z.read = FALSE /\ z.queue = q /\ z.cache = <<>>
        /\ z.given = g /\ z.got = <<>> /\ z.asked = 0 /\ z.closed = 0
    OBVIOUS
  <1> HIDE DEF z
  <1>5. NewClient(e, b, d) = z
    BY Zenon DEF NewClient, z, q, g
  <1>6. IsNew(z, e, b, d)
    BY <1>3, <1>4, Zenon DEF IsNew, T, Q, D, ClientType, q, g
  <1> QED BY <1>5, <1>6

LEMMA MadePlaces ==
    ASSUME Base, Lines, NEW c, NEW b, NEW d, NEW e, MadeStep(c, b, d, e)
    PROVE  /\ \A f \in 1..c : \A s, n, a : At(f, s, n, a)' =>
                 \/ f \in 1..Len(client) /\ s = 3 /\ n \in Nat /\ n > 0 /\ At(f, 3, n + 1, a)
                 \/ f \in 1..Len(client) /\ s # 3 /\ At(f, s, n, a)
                 \/ f = c /\ s = 2 /\ n = 1 /\ a = b
           /\ \A f \in 1..c : \A s, n, x : Has(f, s, n, x)' =>
                 \/ f \in 1..Len(client) /\ s = 3 /\ n \in Nat /\ n > 0 /\ Has(f, 3, n + 1, x)
                 \/ f \in 1..Len(client) /\ s # 3 /\ Has(f, s, n, x)
                 \/ f = c /\ s = 2 /\ n = 1 /\ x = d
           /\ \A f \in 1..Len(client) : \A s, n, x :
                 Has(f, s, n, x) => (s # 3 /\ Has(f, s, n, x)') \/ Has(f, 3, n - 1, x)'
  <1>1. ServerTyped /\ SendTyped /\ LineInv /\ PushesRefer /\ Len(client) \in Nat /\ c = Len(client) + 1
    BY Typing DEF Base, SendInv, Lines, MadeStep
  <1>2. /\ \A f, n : n \in PushesTo(f)' =>
              n \in Nat /\ n > 0 /\ n + 1 \in PushesTo(f) /\ strand'[n] = strand[n + 1]
        /\ \A f, n : n \in PushesTo(f) => n \in Nat /\ n - 1 \in PushesTo(f)' /\ strand'[n - 1] = strand[n]
    BY <1>1, HeadRuns DEF MadeStep
  <1>3. \A f, n : n \in PushesTo(f) => f \in 1..Len(client)
    BY <1>1 DEF PushesRefer, PushesTo
  <1>4. \A f \in 1..Len(client) : \A s, n, a : At(f, s, n, a) => heap'[a] = heap[a]
    BY <1>1 DEF LineInv, Referring, MadeStep
  <1>5. /\ client'[c].queue = <<b>> /\ client'[c].cache = <<>> /\ client'[c].got = <<>>
        /\ heap'[b] = d /\ \A f \in 1..Len(client) : client'[f] = client[f]
    <2>1. b \in Nat /\ e \in Endpoints /\ d \in Datagram /\ client'[c] = NewClient(e, b, d)
      BY DEF MadeStep
    <2>2. client'[c].queue = <<b>> /\ client'[c].cache = <<>> /\ client'[c].got = <<>>
      <3>1. IsNew(client'[c], e, b, d)
        BY <2>1, NewClientIs
      <3> QED BY <3>1 DEF IsNew
    <2>3. heap'[b] = d /\ \A f \in 1..Len(client) : client'[f] = client[f]
      BY Zenon DEF MadeStep
    <2> QED BY <2>2, <2>3
  <1>6. ASSUME NEW f \in 1..c, NEW n, NEW a, At(f, 3, n, a)'
        PROVE  f \in 1..Len(client) /\ n \in Nat /\ n > 0 /\ At(f, 3, n + 1, a)
    <2>1. n \in PushesTo(f)' /\ a = strand'[n].buf
      BY <1>6 DEF At
    <2>2. n \in Nat /\ n > 0 /\ n + 1 \in PushesTo(f) /\ strand'[n] = strand[n + 1]
      BY <1>2, <2>1
    <2> QED BY <1>3, <2>1, <2>2 DEF At
  <1>7. ASSUME NEW f \in 1..Len(client), NEW s, NEW n, NEW a, s # 3, At(f, s, n, a)'
        PROVE  At(f, s, n, a)
    BY <1>5, <1>7 DEF At
  <1>8. ASSUME NEW s, NEW n, NEW a, s # 3, At(c, s, n, a)' PROVE s = 2 /\ n = 1 /\ a = b
    BY <1>5, <1>8 DEF At
  <1>9. ASSUME NEW f \in 1..c, NEW n, NEW x, Has(f, 3, n, x)'
        PROVE  f \in 1..Len(client) /\ n \in Nat /\ n > 0 /\ Has(f, 3, n + 1, x)
    <2>1. n \in PushesTo(f)' /\ x = heap'[strand'[n].buf]
      BY <1>9 DEF Has
    <2>2. n \in Nat /\ n > 0 /\ n + 1 \in PushesTo(f) /\ strand'[n] = strand[n + 1] /\ f \in 1..Len(client)
      BY <1>2, <1>3, <2>1
    <2>3. At(f, 3, n + 1, strand[n + 1].buf)
      BY <2>2 DEF At
    <2>4. x = heap[strand[n + 1].buf]
      BY <1>4, <2>1, <2>2, <2>3
    <2> QED BY <2>2, <2>4 DEF Has
  <1>10. ASSUME NEW f \in 1..Len(client), NEW n, n \in 1..Len(client[f].queue)
         PROVE  heap'[client[f].queue[n]] = heap[client[f].queue[n]]
    <2>1. At(f, 2, n, client[f].queue[n])
      BY <1>10 DEF At
    <2> QED BY <1>4, <2>1
  <1>11. ASSUME NEW f \in 1..Len(client), NEW s, NEW n, NEW x, s # 3
         PROVE  Has(f, s, n, x)' <=> Has(f, s, n, x)
    <2>1. client'[f] = client[f]
      BY <1>5
    <2> QED BY <1>10, <1>11, <2>1 DEF Has
  <1>12. ASSUME NEW s, NEW n, NEW x, s # 3, Has(c, s, n, x)' PROVE s = 2 /\ n = 1 /\ x = d
    BY <1>5, <1>12 DEF Has
  <1>13. ASSUME NEW f \in 1..Len(client), NEW n, NEW x, Has(f, 3, n, x) PROVE Has(f, 3, n - 1, x)'
    <2>1. n \in PushesTo(f) /\ x = heap[strand[n].buf]
      BY <1>13 DEF Has
    <2>2. At(f, 3, n, strand[n].buf)
      BY <2>1 DEF At
    <2>3. n - 1 \in PushesTo(f)' /\ strand'[n - 1] = strand[n]
      BY <1>2, <2>1
    <2>4. x = heap'[strand'[n - 1].buf]
      BY <1>4, <2>1, <2>2, <2>3
    <2> QED BY <2>3, <2>4 DEF Has
  <1>14. \A f \in 1..c : f \in 1..Len(client) \/ f = c
    BY <1>1
  <1>15. \A f \in 1..c : \A s, n, a : At(f, s, n, a)' =>
            \/ f \in 1..Len(client) /\ s = 3 /\ n \in Nat /\ n > 0 /\ At(f, 3, n + 1, a)
            \/ f \in 1..Len(client) /\ s # 3 /\ At(f, s, n, a)
            \/ f = c /\ s = 2 /\ n = 1 /\ a = b
    BY <1>6, <1>7, <1>8, <1>14
  <1>16. \A f \in 1..c : \A s, n, x : Has(f, s, n, x)' =>
            \/ f \in 1..Len(client) /\ s = 3 /\ n \in Nat /\ n > 0 /\ Has(f, 3, n + 1, x)
            \/ f \in 1..Len(client) /\ s # 3 /\ Has(f, s, n, x)
            \/ f = c /\ s = 2 /\ n = 1 /\ x = d
    BY <1>9, <1>11, <1>12, <1>14
  <1>17. \A f \in 1..Len(client) : \A s, n, x :
            Has(f, s, n, x) => (s # 3 /\ Has(f, s, n, x)') \/ Has(f, 3, n - 1, x)'
    BY <1>11, <1>13
  <1> QED BY <1>15, <1>16, <1>17

LEMMA MadeLines ==
    ASSUME Base, Lines, NEW c, NEW b, NEW d, NEW e, MadeStep(c, b, d, e)
    PROVE  Lines' /\ Losing
  <1>1. /\ ServerTyped /\ SendTyped /\ LineInv /\ Len(client') = c /\ Len(client) \in Nat
        /\ c = Len(client) + 1 /\ arrived \in Nat /\ c \in 1..c
        /\ \A f \in 1..c : f \in 1..Len(client) \/ f = c
        /\ \A f \in 1..Len(client) : f \in 1..c /\ f # c /\ client'[f] = client[f]
    BY Typing DEF Base, SendInv, Lines, MadeStep
  <1>2. /\ client'[c].ep = e /\ ~client'[c].read /\ client'[c].cache = <<>> /\ client'[c].given = <<d>>
        /\ d.number = arrived /\ d.from = e /\ e \in Endpoints /\ clients' = [clients EXCEPT ![e] = c]
    <2>1. b \in Nat /\ e \in Endpoints /\ d \in Datagram /\ client'[c] = NewClient(e, b, d)
      BY DEF MadeStep
    <2>2. /\ client'[c].ep = e /\ client'[c].read = FALSE /\ client'[c].cache = <<>>
          /\ client'[c].given = <<d>>
      <3>1. IsNew(client'[c], e, b, d)
        BY <2>1, NewClientIs
      <3> QED BY <3>1 DEF IsNew
    <2>3. d.number = arrived /\ d.from = e /\ clients' = [clients EXCEPT ![e] = c]
      BY Zenon DEF MadeStep
    <2> QED BY <2>1, <2>2, <2>3
  <1>3. \A f \in 1..c : \A s, n, a : At(f, s, n, a)' =>
            \/ f \in 1..Len(client) /\ s = 3 /\ n \in Nat /\ n > 0 /\ At(f, 3, n + 1, a)
            \/ f \in 1..Len(client) /\ s # 3 /\ At(f, s, n, a)
            \/ f = c /\ s = 2 /\ n = 1 /\ a = b
    BY MadePlaces
  <1>4. \A f \in 1..c : \A s, n, x : Has(f, s, n, x)' =>
            \/ f \in 1..Len(client) /\ s = 3 /\ n \in Nat /\ n > 0 /\ Has(f, 3, n + 1, x)
            \/ f \in 1..Len(client) /\ s # 3 /\ Has(f, s, n, x)
            \/ f = c /\ s = 2 /\ n = 1 /\ x = d
    BY MadePlaces
  <1>5. ASSUME NEW f \in 1..Len(client), NEW s, NEW n, NEW a, At(f, s, n, a)
        PROVE  a \in 1..Len(heap') /\ a # b
    BY <1>1, <1>5 DEF LineInv, Referring, MadeStep
  <1>6. Referring'
    <2> SUFFICES ASSUME NEW f \in 1..c, NEW s, NEW n, NEW a, At(f, s, n, a)'
                 PROVE  a \in 1..Len(heap')
      BY <1>1 DEF Referring
    <2>1. b \in 1..Len(heap')
      BY Typing, <1>1 DEF MadeStep
    <2> QED BY <1>3, <1>5, <2>1
  <1>7. Disjoint'
    <2> SUFFICES ASSUME NEW f \in 1..c, NEW g \in 1..c, NEW s, NEW n, NEW t, NEW m, NEW a,
                        At(f, s, n, a)', At(g, t, m, a)'
                 PROVE  f = g /\ s = t /\ n = m
      BY <1>1 DEF Disjoint
    <2>1. \/ /\ f \in 1..Len(client) /\ a # b
             /\ (s = 3 /\ n \in Nat /\ n > 0 /\ At(f, 3, n + 1, a)) \/ (s # 3 /\ At(f, s, n, a))
          \/ f = c /\ s = 2 /\ n = 1 /\ a = b
      BY <1>3, <1>5
    <2>2. \/ /\ g \in 1..Len(client) /\ a # b
             /\ (t = 3 /\ m \in Nat /\ m > 0 /\ At(g, 3, m + 1, a)) \/ (t # 3 /\ At(g, t, m, a))
          \/ g = c /\ t = 2 /\ m = 1 /\ a = b
      BY <1>3, <1>5
    <2>3. \A h, i \in 1..Len(client) : \A j, k, l, o, z :
             At(h, j, k, z) /\ At(i, l, o, z) => h = i /\ j = l /\ k = o
      BY <1>1 DEF LineInv, Disjoint
    <2> QED BY <2>1, <2>2, <2>3
  <1>8. ASSUME NEW f \in 1..Len(client), NEW s, NEW n, NEW x, Has(f, s, n, x)
        PROVE  x.number \in Nat /\ x.number < arrived /\ x.from = client[f].ep
    <2>1. x.number \in Nat
      BY <1>1, <1>8, HasTyped DEF LineInv
    <2>2. Earlier(x.number) /\ x.from = client[f].ep
      BY <1>1, <1>8 DEF LineInv, AllEarlier, FromPeer
    <2> QED BY <1>1, <2>1, <2>2, EarlierFiled DEF MadeStep
  <1>9. FromPeer'
    <2> SUFFICES ASSUME NEW f \in 1..c, NEW s, NEW n, NEW x, Has(f, s, n, x)'
                 PROVE  x.from = client'[f].ep
      BY <1>1 DEF FromPeer
    <2>1. (f = c /\ x = d) \/ (f \in 1..Len(client) /\ \E t, m : Has(f, t, m, x))
      BY <1>4
    <2> QED BY <1>1, <1>2, <1>8, <2>1
  <1>10. AllEarlier'
    <2> SUFFICES ASSUME NEW f \in 1..c, NEW s, NEW n, NEW x, Has(f, s, n, x)'
                 PROVE  Earlier(x.number)'
      BY <1>1 DEF AllEarlier
    <2>1. x = d \/ (f \in 1..Len(client) /\ \E t, m : Has(f, t, m, x))
      BY <1>4
    <2>2. x.number \in Nat /\ x.number <= arrived
      BY <1>1, <1>2, <1>8, <2>1
    <2> QED BY <1>1, <2>2, EarlierFiled DEF MadeStep
  <1>11. InOrder'
    <2> SUFFICES ASSUME NEW f \in 1..c, NEW s, NEW n, NEW x, NEW t, NEW m, NEW y,
                        Has(f, s, n, x)', Has(f, t, m, y)', s < t \/ (s = t /\ n < m)
                 PROVE  x.number < y.number
      BY <1>1 DEF InOrder
    <2>1. \/ /\ f \in 1..Len(client)
             /\ (s = 3 /\ n \in Nat /\ n > 0 /\ Has(f, 3, n + 1, x)) \/ (s # 3 /\ Has(f, s, n, x))
          \/ f = c /\ s = 2 /\ n = 1
      BY <1>4
    <2>2. \/ /\ f \in 1..Len(client)
             /\ (t = 3 /\ m \in Nat /\ m > 0 /\ Has(f, 3, m + 1, y)) \/ (t # 3 /\ Has(f, t, m, y))
          \/ f = c /\ t = 2 /\ m = 1
      BY <1>4
    <2>3. f \in 1..Len(client)
      BY <1>1, <2>1, <2>2
    <2>4. \A j, k, l, o, v, w : Has(f, j, k, v) /\ Has(f, l, o, w) /\ (j < l \/ (j = l /\ k < o))
                                => v.number < w.number
      BY <1>1, <2>3 DEF LineInv, InOrder
    <2>5. n \in Nat /\ m \in Nat /\ n < m => n + 1 < m + 1
      OBVIOUS
    <2> QED BY <1>1, <2>1, <2>2, <2>3, <2>4, <2>5
  <1>12. GivenEarlier'
    <2> SUFFICES ASSUME NEW f \in 1..c, NEW n \in 1..Len(client'[f].given)
                 PROVE  Earlier(client[f].given[n].number)'
      BY <1>1 DEF GivenEarlier
    <2>1. CASE f = c
      <3>1. client'[f].given[n].number \in Nat /\ client'[f].given[n].number <= arrived
        BY <1>1, <1>2, <2>1
      <3> QED BY <1>1, <3>1, EarlierFiled DEF MadeStep
    <2>2. CASE f \in 1..Len(client)
      <3>1. client'[f].given = client[f].given /\ client[f].given \in Seq(Datagram)
        BY <1>1, <2>2, Typing, ClientFields
      <3>2. client[f].given[n].number \in Nat
        <4>1. client[f].given[n] \in Datagram
          BY <3>1
        <4> QED BY <4>1 DEF Datagram
      <3>3. Earlier(client[f].given[n].number)
        BY <1>1, <2>2, <3>1 DEF LineInv, GivenEarlier
      <3>4. client[f].given[n].number < arrived
        BY <1>1, <3>2, <3>3, EarlierFiled DEF MadeStep
      <3>5. client'[f].given[n].number \in Nat /\ client'[f].given[n].number <= arrived
        BY <1>1, <3>1, <3>2, <3>4
      <3> QED BY <1>1, <3>5, EarlierFiled DEF MadeStep
    <2> QED BY <1>1, <2>1, <2>2
  <1>13. CacheBounded'
    <2>1. Len(client'[c].cache) <= MaxCache
      BY <1>2, ServerBoundsAssumption
    <2> QED BY <1>1, <2>1 DEF LineInv, CacheBounded
  <1>14. PushesRefer'
    <2>1. \A i \in Tasks("push")' : i + 1 \in Tasks("push") /\ strand'[i] = strand[i + 1]
      BY <1>1, Running DEF SendTyped, MadeStep
    <2> QED BY <1>1, <2>1 DEF Lines, PushesRefer
  <1>15. MapRight'
    <2> SUFFICES ASSUME NEW f \in Endpoints, clients'[f] # 0 PROVE client'[clients'[f]].ep = f
      BY DEF MapRight
    <2>1. CASE f = e
      BY <1>1, <1>2, <2>1, Typing
    <2>2. CASE f # e
      <3>1. clients'[f] = clients[f] /\ clients[f] \in 1..Len(client)
        BY <1>1, <1>2, <2>2, Typing
      <3> QED BY <1>1, <3>1 DEF Lines, MapRight
    <2> QED BY <2>1, <2>2
  <1>16. ReadsWhenEmpty'
    BY <1>1, <1>2 DEF Lines, ReadsWhenEmpty
  <1>17. Losing
    <2> SUFFICES ASSUME NEW f \in 1..Len(client) PROVE Missing(f)' = Missing(f)
      BY DEF Losing
    <2>1. /\ \A s, n, x : Has(f, s, n, x)' => \E t, m : Has(f, t, m, x)
          /\ \A s, n, x : Has(f, s, n, x) => \E t, m : Has(f, t, m, x)'
      BY <1>1, <1>4, MadePlaces
    <2> QED BY <1>1, <2>1, NothingLost
  <1> QED BY <1>6, <1>7, <1>9, <1>10, <1>11, <1>12, <1>13, <1>14, <1>15, <1>16, <1>17 DEF Lines, LineInv

LEMMA AcceptClientInv ==
    ASSUME Base, Lines, OnData, ~Known(ep), AcceptClient(Head(strand).data)
    PROVE  Base' /\ Lines' /\ Losing
  <1> DEFINE c == Len(client) + 1
             d == Head(strand).data
             b == Len(heap) + 1
  <1>1. /\ Runs("received") /\ Head(strand).ok /\ strand' = Tail(strand) \o <<>> /\ ReadFrom
        /\ client' = Append(client, NewClient(ep, b, d)) /\ accepting' = TRUE
        /\ clients' = [clients EXCEPT ![ep] = c]
        /\ heap' = Assigned(heap, b, d)
        /\ UNCHANGED <<queue, ops, active, accepted, reported, shut, arrived, failures>>
    BY DEF OnData, AcceptClient, ReadHandler, CacheCreate
  <1>2. ServerTyped /\ SendTyped /\ ReadsRefer
    BY DEF Base, SendInv
  <1>3. /\ c \in Nat /\ b \in Nat /\ Len(client) \in Nat /\ Len(heap) \in Nat
        /\ client \in Seq(ClientType) /\ heap \in Seq(Datagram)
        /\ clients \in [Endpoints -> Nat] /\ \A e \in Endpoints : clients[e] <= Len(client)
    BY <1>2, Typing
  <1> HIDE DEF d
  <1>4. /\ SendInv' /\ RecvInv' /\ Quiet("set_read")
        /\ receiving' \in BOOLEAN /\ active' \in BOOLEAN /\ ep' \in Endpoints \cup {NoEndpoint}
        /\ shut' \in BOOLEAN /\ arrived' \in Nat /\ arrived' <= Len(Traffic)
        /\ failures' \in Nat /\ failures' <= MaxFailures
        /\ d \in Datagram /\ ep \in Endpoints /\ d.from = ep /\ d.number = arrived
        /\ Arrived /\ ~Arrived'
    BY <1>1, OnDataRecv DEF d
  <1>5. /\ heap' \in Seq(Datagram) /\ Len(heap') = b /\ heap'[b] = d
        /\ \A a \in 1..Len(heap) : heap'[a] = heap[a] /\ a # b /\ a \in 1..b
    <2>1. heap' = Append(heap, d)
      BY <1>1, <1>3 DEF Assigned
    <2> QED BY <1>3, <1>4, <2>1
  <1> DEFINE y == NewClient(ep, b, d)
  <1>6. y \in ClientType
    <2>1. IsNew(y, ep, b, d)
      BY <1>3, <1>4, NewClientIs
    <2> QED BY <2>1 DEF IsNew
  <1> HIDE DEF y
  <1>7. /\ client' \in Seq(ClientType) /\ Len(client') = c /\ client'[c] = y
        /\ \A f \in 1..Len(client) : client'[f] = client[f] /\ f # c
    <2>1. client' = Append(client, y)
      BY <1>1 DEF y
    <2> QED BY <1>3, <1>6, <2>1
  <1>8. clients' \in [Endpoints -> Nat] /\ \A e \in Endpoints : clients'[e] <= Len(client')
    <2> SUFFICES ASSUME NEW e \in Endpoints PROVE clients'[e] <= c
      BY <1>1, <1>3, <1>7
    <2>1. clients'[e] = c \/ clients'[e] = clients[e]
      BY <1>1, <1>3
    <2>2. clients[e] \in Nat /\ clients[e] <= Len(client)
      BY <1>3
    <2> QED BY <1>3, <2>1, <2>2
  <1>9. ServerTyped'
    BY <1>1, <1>4, <1>5, <1>7, <1>8 DEF ServerTyped
  <1>10. ReadsRefer'
    BY <1>2, <1>3, <1>4, <1>7, ReadsReferKept
  <1>11. strand # <<>> /\ Head(strand).kind = "received" /\ arrived' = arrived
    BY <1>1 DEF Runs
  <1>12. client'[c] = NewClient(ep, b, d)
    BY <1>7 DEF y
  <1>13. MadeStep(c, b, d, ep)
    <2> HIDE DEF c, b
    <2>1. c = Len(client) + 1 /\ b = Len(heap) + 1
      BY DEF c, b
    <2> QED BY <1>1, <1>3, <1>4, <1>5, <1>7, <1>11, <1>12, <2>1, Zenon DEF MadeStep
  <1>14. Lines' /\ Losing
    BY <1>13, MadeLines
  <1> QED BY <1>4, <1>9, <1>10, <1>14 DEF Base

(***************************************************************************)
(* Sums of sequences of numbers.  A number that every place up to n has to be *)
(* counted by is reached from below: Climb stands for the induction.         *)
(***************************************************************************)
\* A set that has 0, and the successor of what it has below n, has all up to n.
LEMMA Climb ==
    ASSUME NEW n \in Nat, NEW S,
           0 \in S, \A i \in 0..n : i \in S /\ i < n => i + 1 \in S
    PROVE  0..n \subseteq S
  <1> DEFINE T == (0..n) \ S
             R == OpToRel(<, Nat)
  <1> SUFFICES ASSUME T # {} PROVE FALSE
    OBVIOUS
  <1>1. T \in SUBSET Nat
    OBVIOUS
  <1>2. IsWellFoundedOn(R, Nat)
    BY NatLessThanWellFounded
  <1>3. \A x, y \in Nat : x < y => <<x, y>> \in R
    BY DEF OpToRel
  <1> HIDE DEF R
  <1>4. \E k \in T : \A m \in T : <<m, k>> \notin R
    <2> HIDE DEF T
    <2> QED BY <1>1, <1>2, WFMin
  <1>5. PICK k \in T : \A m \in T : <<m, k>> \notin R
    BY <1>4
  <1>6. k \in 0..n /\ k # 0 /\ k \notin S
    BY <1>5
  <1>7. k - 1 \in 0..n /\ k - 1 < n /\ k - 1 < k /\ k - 1 \in Nat /\ k \in Nat /\ (k - 1) + 1 = k
    BY <1>6
  <1>8. k - 1 \notin T
    BY <1>3, <1>5, <1>7, Zenon
  <1>9. k - 1 \in S
    BY <1>7, <1>8
  <1> QED BY <1>6, <1>7, <1>9

\* f sums s up, place by place.
Sums(f, s) ==
    /\ f \in [0..Len(s) -> Nat]
    /\ f[0] = 0 /\ \A n \in 1..Len(s) : f[n] = f[n - 1] + s[n]

IsSum(f, s) == f = [n \in 0..Len(s) |-> IF n = 0 THEN 0 ELSE f[n - 1] + s[n]]

LEMMA TotalBy ==
    ASSUME NEW s \in Seq(Nat), NEW f, Sums(f, s)
    PROVE  Total(s) = f[Len(s)]
  <1> DEFINE g == CHOOSE h : IsSum(h, s)
             L == Len(s)
  <1>0. L \in Nat /\ L \in 0..L
    OBVIOUS
  <1>1. IsSum(f, s)
    <2> DEFINE h == [n \in 0..L |-> IF n = 0 THEN 0 ELSE f[n - 1] + s[n]]
    <2>1. ASSUME NEW n \in 0..L PROVE f[n] = h[n]
      <3>1. CASE n = 0
        BY <3>1 DEF Sums
      <3>2. CASE n # 0
        <4>1. n \in 1..L
          BY <1>0, <3>2
        <4> QED BY <3>2, <4>1 DEF Sums
      <3> QED BY <3>1, <3>2
    <2>2. f = [n \in 0..L |-> f[n]]
      BY DEF Sums
    <2>3. h = [n \in 0..L |-> h[n]]
      OBVIOUS
    <2>4. f = h
      <3> HIDE DEF h, L
      <3> QED BY <2>1, <2>2, <2>3
    <2> QED BY <2>4 DEF IsSum
  <1>2. IsSum(g, s)
    BY <1>1
  <1>3. Total(s) = g[L]
    BY DEF Total, IsSum
  <1> HIDE DEF g
  <1> DEFINE S == {n \in 0..L : g[n] = f[n]}
  <1>4. 0 \in S
    <2>1. g[0] = 0
      BY <1>0, <1>2 DEF IsSum
    <2> QED BY <1>0, <2>1 DEF Sums
  <1>5. ASSUME NEW n \in 0..L, n \in S, n < L PROVE n + 1 \in S
    <2>1. n + 1 \in 0..L /\ n + 1 \in 1..L /\ n + 1 # 0 /\ (n + 1) - 1 = n
      BY <1>0, <1>5
    <2>2. g[n + 1] = g[n] + s[n + 1]
      BY <1>2, <2>1 DEF IsSum
    <2>3. f[n + 1] = f[n] + s[n + 1]
      BY <2>1 DEF Sums
    <2> QED BY <1>5, <2>1, <2>2, <2>3
  <1>6. 0..L \subseteq S
    <2> HIDE DEF S, L
    <2> QED BY <1>0, <1>4, <1>5, Climb
  <1> QED BY <1>0, <1>3, <1>6

LEMMA TotalSums ==
    ASSUME NEW s \in Seq(Nat)
    PROVE  \E f : Sums(f, s) /\ Total(s) = f[Len(s)]
  <1> DEFINE L == Len(s)
             Upto(k) == \E f \in [0..k -> Nat] : f[0] = 0 /\ \A n \in 1..k : f[n] = f[n - 1] + s[n]
             S == {k \in 0..L : Upto(k)}
  <1>0. L \in Nat /\ L \in 0..L /\ 0 \in 0..L
    OBVIOUS
  <1>1. 0 \in S
    <2> DEFINE f == [n \in 0..0 |-> 0]
    <2>1. f \in [0..0 -> Nat] /\ f[0] = 0 /\ \A n \in 1..0 : f[n] = f[n - 1] + s[n]
      OBVIOUS
    <2>2. Upto(0)
      <3> HIDE DEF f
      <3> QED BY <2>1
    <2> QED BY <1>0, <2>2
  <1>2. ASSUME NEW k \in 0..L, k \in S, k < L PROVE k + 1 \in S
    <2>1. PICK f \in [0..k -> Nat] : f[0] = 0 /\ \A n \in 1..k : f[n] = f[n - 1] + s[n]
      BY <1>2
    <2>2. k \in Nat /\ k + 1 \in 0..L /\ k + 1 \in 1..L /\ s[k + 1] \in Nat /\ f[k] \in Nat
      BY <1>0, <1>2
    <2> DEFINE g == [n \in 0..(k + 1) |-> IF n = k + 1 THEN f[k] + s[k + 1] ELSE f[n]]
    <2>3. g \in [0..(k + 1) -> Nat]
      <3>1. ASSUME NEW n \in 0..(k + 1) PROVE (IF n = k + 1 THEN f[k] + s[k + 1] ELSE f[n]) \in Nat
        <4>1. CASE n = k + 1
          BY <2>2, <4>1
        <4>2. CASE n # k + 1
          <5>1. n \in 0..k
            BY <2>2, <4>2
          <5> QED BY <4>2, <5>1
        <4> QED BY <4>1, <4>2
      <3> QED BY <3>1
    <2>4. g[0] = 0
      BY <2>1, <2>2
    <2>5. ASSUME NEW n \in 1..(k + 1) PROVE g[n] = g[n - 1] + s[n]
      <3>1. n - 1 \in 0..(k + 1) /\ n - 1 # k + 1 /\ n \in 0..(k + 1)
        BY <2>2
      <3>2. g[n - 1] = f[n - 1]
        BY <3>1
      <3>3. CASE n = k + 1
        <4>1. g[n] = f[k] + s[k + 1] /\ n - 1 = k
          BY <2>2, <3>1, <3>3
        <4> QED BY <3>2, <3>3, <4>1
      <3>4. CASE n # k + 1
        <4>1. n \in 1..k /\ g[n] = f[n]
          BY <2>2, <3>1, <3>4
        <4> QED BY <2>1, <3>2, <4>1
      <3> QED BY <3>3, <3>4
    <2>6. Upto(k + 1)
      <3> HIDE DEF g
      <3> QED BY <2>3, <2>4, <2>5
    <2> QED BY <2>2, <2>6
  <1>3. 0..L \subseteq S
    <2> HIDE DEF S, L
    <2> QED BY <1>0, <1>1, <1>2, Climb
  <1>4. Upto(L)
    BY <1>0, <1>3
  <1>5. PICK f : Sums(f, s)
    BY <1>4 DEF Sums
  <1> QED BY <1>5, TotalBy

LEMMA TotalNat == ASSUME NEW s \in Seq(Nat) PROVE Total(s) \in Nat
  <1>1. PICK f : Sums(f, s) /\ Total(s) = f[Len(s)]
    BY TotalSums
  <1>2. Len(s) \in 0..Len(s)
    OBVIOUS
  <1> QED BY <1>1, <1>2 DEF Sums

LEMMA TotalEmpty == Total(<<>>) = 0
  <1>1. <<>> \in Seq(Nat) /\ Len(<<>>) = 0
    OBVIOUS
  <1>2. PICK f : Sums(f, <<>>) /\ Total(<<>>) = f[Len(<<>>)]
    BY <1>1, TotalSums
  <1> QED BY <1>1, <1>2 DEF Sums

LEMMA TotalAppend ==
    ASSUME NEW s \in Seq(Nat), NEW t \in Seq(Nat), Len(t) = Len(s) + 1,
           \A n \in 1..Len(s) : t[n] = s[n]
    PROVE  Total(t) = Total(s) + t[Len(t)]
  <1> DEFINE L == Len(s)
  <1>0. L \in Nat /\ Len(t) = L + 1
    OBVIOUS
  <1>1. PICK f : Sums(f, s) /\ Total(s) = f[L]
    BY TotalSums
  <1>2. PICK g : Sums(g, t) /\ Total(t) = g[L + 1]
    BY <1>0, TotalSums
  <1> DEFINE S == {n \in 0..L : g[n] = f[n]}
  <1>3. 0 \in S
    BY <1>0, <1>1, <1>2 DEF Sums
  <1>4. ASSUME NEW n \in 0..L, n \in S, n < L PROVE n + 1 \in S
    <2>1. n + 1 \in 0..L /\ n + 1 \in 1..L /\ n + 1 \in 1..(L + 1) /\ (n + 1) - 1 = n
      BY <1>0, <1>4
    <2>2. g[n + 1] = g[n] + t[n + 1] /\ f[n + 1] = f[n] + s[n + 1]
      BY <1>0, <1>1, <1>2, <2>1 DEF Sums
    <2> QED BY <1>4, <2>1, <2>2
  <1>5. 0..L \subseteq S
    <2> HIDE DEF S, L
    <2> QED BY <1>0, <1>3, <1>4, Climb
  <1>6. g[L] = f[L]
    BY <1>0, <1>5
  <1>7. g[L + 1] = g[L] + t[L + 1]
    <2>1. L + 1 \in 1..(L + 1) /\ (L + 1) - 1 = L
      BY <1>0
    <2> QED BY <1>0, <1>2, <2>1 DEF Sums
  <1> QED BY <1>0, <1>1, <1>2, <1>6, <1>7

\* One number changes.
LEMMA TotalChange ==
    ASSUME NEW s \in Seq(Nat), NEW t \in Seq(Nat), Len(t) = Len(s), NEW i \in 1..Len(s),
           \A n \in 1..Len(s) : n # i => t[n] = s[n]
    PROVE  Total(t) + s[i] = Total(s) + t[i]
  <1> DEFINE L == Len(s)
  <1>0. L \in Nat /\ Len(t) = L /\ L \in 0..L /\ 0 \in 0..L /\ s[i] \in Nat /\ t[i] \in Nat /\ i \in 1..L
    OBVIOUS
  <1>1. PICK f : Sums(f, s) /\ Total(s) = f[L]
    BY TotalSums
  <1>2. PICK g : Sums(g, t) /\ Total(t) = g[L]
    BY <1>0, TotalSums
  <1> DEFINE S == {n \in 0..L : IF n < i THEN g[n] = f[n] ELSE g[n] + s[i] = f[n] + t[i]}
  <1>3. 0 \in S
    BY <1>0, <1>1, <1>2 DEF Sums
  <1>4. ASSUME NEW n \in 0..L, n \in S, n < L PROVE n + 1 \in S
    <2>1. n + 1 \in 0..L /\ n + 1 \in 1..L /\ (n + 1) - 1 = n /\ n \in Nat
      BY <1>0, <1>4
    <2>2. g[n + 1] = g[n] + t[n + 1] /\ f[n + 1] = f[n] + s[n + 1]
      BY <1>0, <1>1, <1>2, <2>1 DEF Sums
    <2>a. g[n] \in Nat /\ f[n] \in Nat
      BY <1>0, <1>1, <1>2 DEF Sums
    <2>b. s[n + 1] \in Nat /\ t[n + 1] \in Nat
      BY <1>0, <2>1
    <2>3. g[n] \in Nat /\ f[n] \in Nat /\ s[n + 1] \in Nat /\ t[n + 1] \in Nat
      BY <2>a, <2>b
    <2>4. CASE n + 1 < i
      <3>1. t[n + 1] = s[n + 1] /\ n < i
        BY <1>0, <2>1, <2>4
      <3>2. g[n] = f[n]
        BY <1>4, <3>1
      <3> QED BY <2>1, <2>2, <2>4, <3>1, <3>2
    <2>5. CASE n + 1 = i
      <3>1. g[n] = f[n]
        BY <1>4, <2>1, <2>5
      <3>2. g[n + 1] + s[i] = f[n + 1] + t[i] /\ ~(n + 1 < i)
        BY <2>1, <2>2, <2>3, <2>5, <3>1
      <3> QED BY <2>1, <3>2
    <2>6. CASE n + 1 > i
      <3>1. t[n + 1] = s[n + 1] /\ ~(n < i) /\ ~(n + 1 < i)
        BY <1>0, <2>1, <2>6
      <3>2. g[n] + s[i] = f[n] + t[i]
        BY <1>4, <3>1
      <3>3. /\ g[n + 1] = g[n] + s[n + 1] /\ f[n + 1] = f[n] + s[n + 1]
            /\ g[n] \in Nat /\ f[n] \in Nat /\ s[n + 1] \in Nat
        BY <2>2, <2>3, <3>1, Zenon
      <3>4. s[i] \in Nat /\ t[i] \in Nat
        BY <1>0
      <3>5. (g[n] + s[n + 1]) + s[i] = (f[n] + s[n + 1]) + t[i]
        <4> DEFINE u == g[n]
                   v == f[n]
                   x == s[n + 1]
                   p == s[i]
                   q == t[i]
        <4>1. u \in Nat
          BY <3>3, Zenon
        <4>2. v \in Nat
          BY <3>3, Zenon
        <4>3. x \in Nat
          BY <3>3, Zenon
        <4>4. p \in Nat
          BY <3>4, Zenon
        <4>5. q \in Nat
          BY <3>4, Zenon
        <4>6. u + p = v + q
          BY <3>2, Zenon
        <4> HIDE DEF u, v, x, p, q
        <4>7. (u + x) + p = (v + x) + q
          BY ONLY <4>1, <4>2, <4>3, <4>4, <4>5, <4>6
        <4> QED BY <4>7 DEF u, v, x, p, q
      <3>6. g[n + 1] + s[i] = f[n + 1] + t[i]
        BY <3>3, <3>5, Zenon
      <3> QED BY <2>1, <3>1, <3>6
    <2> QED BY <1>0, <2>1, <2>4, <2>5, <2>6
  <1>5. 0..L \subseteq S
    <2> HIDE DEF S, L
    <2> QED BY <1>0, <1>3, <1>4, Climb
  <1>6. g[L] + s[i] = f[L] + t[i]
    BY <1>0, <1>5
  <1> QED BY <1>1, <1>2, <1>6

\* The first number is taken off.
LEMMA TotalTail ==
    ASSUME NEW s \in Seq(Nat), NEW t \in Seq(Nat), Len(s) = Len(t) + 1,
           \A n \in 1..Len(t) : t[n] = s[n + 1]
    PROVE  Total(s) = s[1] + Total(t)
  <1> DEFINE L == Len(t)
  <1>0. L \in Nat /\ Len(s) = L + 1 /\ L \in 0..L /\ 0 \in 0..L /\ s[1] \in Nat
    OBVIOUS
  <1>1. PICK f : Sums(f, s) /\ Total(s) = f[L + 1]
    BY <1>0, TotalSums
  <1>2. PICK g : Sums(g, t) /\ Total(t) = g[L]
    BY TotalSums
  <1> DEFINE S == {n \in 0..L : f[n + 1] = s[1] + g[n]}
  <1>3. 0 \in S
    <2>1. 1 \in 1..(L + 1) /\ 1 - 1 = 0 /\ 0 + 1 = 1
      BY <1>0
    <2>2. f[1] = f[0] + s[1] /\ f[0] = 0 /\ g[0] = 0
      BY <1>0, <1>1, <1>2, <2>1 DEF Sums
    <2> QED BY <1>0, <2>1, <2>2
  <1>4. ASSUME NEW n \in 0..L, n \in S, n < L PROVE n + 1 \in S
    <2>1. /\ n + 1 \in 0..L /\ n + 1 \in 1..L /\ (n + 1) - 1 = n /\ n \in Nat
          /\ (n + 1) + 1 \in 1..(L + 1) /\ ((n + 1) + 1) - 1 = n + 1
      BY <1>0, <1>4
    <2>2. g[n + 1] = g[n] + t[n + 1] /\ f[(n + 1) + 1] = f[n + 1] + s[(n + 1) + 1]
      BY <1>0, <1>1, <1>2, <2>1 DEF Sums
    <2>a. g[n] \in Nat
      BY <1>0, <1>2 DEF Sums
    <2>b. t[n + 1] \in Nat
      BY <1>0, <2>1
    <2>c. t[n + 1] = s[(n + 1) + 1]
      BY <1>0, <2>1
    <2>3. g[n] \in Nat /\ t[n + 1] \in Nat /\ t[n + 1] = s[(n + 1) + 1]
      BY <2>a, <2>b, <2>c
    <2>4. f[n + 1] = s[1] + g[n]
      BY <1>4
    <2>5. f[(n + 1) + 1] = s[1] + g[n + 1]
      BY <1>0, <2>2, <2>3, <2>4
    <2> QED BY <2>1, <2>5
  <1>5. 0..L \subseteq S
    <2> HIDE DEF S, L
    <2> QED BY <1>0, <1>3, <1>4, Climb
  <1>6. f[L + 1] = s[1] + g[L]
    BY <1>0, <1>5
  <1> QED BY <1>1, <1>2, <1>6

(***************************************************************************)
(* The closes.  An answered close needs a close that was asked for at the     *)
(* same address: the task that was posted for it is counted with the answers  *)
(* until it runs.  Nobody in the map has been told, so no client is told      *)
(* twice; and the transport is not closed before the acceptor.               *)
(***************************************************************************)
AskedOf(q, e) == [c \in DOMAIN q |-> IF q[c].ep = e THEN q[c].asked ELSE 0]
ToldOf(q, e)  == [c \in DOMAIN q |-> IF q[c].ep = e THEN q[c].closed ELSE 0]

Weight(t, e)   == IF t.kind = "client_close" /\ t.at = e THEN 1 ELSE 0
PostedOf(q, e) == [i \in DOMAIN q |-> Weight(q[i], e)]

NoClose == Tasks("close") = {}

ToldOnce == \A c \in 1..Len(client) : client[c].closed <= 1 /\ (InMap(c) => client[c].closed = 0)

Balanced(e) == Total(ToldOf(client, e)) + Total(PostedOf(strand, e)) <= Total(AskedOf(client, e))

Accounted == ~shut => NoClose /\ ToldOnce /\ \A e \in Endpoints : Balanced(e)

LEMMA CountsTyped ==
    ASSUME NEW q \in Seq(ClientType), NEW e
    PROVE  /\ AskedOf(q, e) \in Seq(Nat) /\ Len(AskedOf(q, e)) = Len(q)
           /\ ToldOf(q, e) \in Seq(Nat) /\ Len(ToldOf(q, e)) = Len(q)
           /\ \A c \in 1..Len(q) :
                 /\ AskedOf(q, e)[c] = IF q[c].ep = e THEN q[c].asked ELSE 0
                 /\ ToldOf(q, e)[c] = IF q[c].ep = e THEN q[c].closed ELSE 0
  <1>1. DOMAIN q = 1..Len(q) /\ Len(q) \in Nat /\ \A c \in 1..Len(q) : q[c] \in ClientType
    OBVIOUS
  <1>2. \A c \in 1..Len(q) : q[c].asked \in Nat /\ q[c].closed \in Nat
    BY <1>1, ClientFields
  <1>3. AskedOf(q, e) \in [1..Len(q) -> Nat]
    BY <1>1, <1>2 DEF AskedOf
  <1>4. ToldOf(q, e) \in [1..Len(q) -> Nat]
    BY <1>1, <1>2 DEF ToldOf
  <1>5. /\ AskedOf(q, e) \in Seq(Nat) /\ Len(AskedOf(q, e)) = Len(q)
        /\ ToldOf(q, e) \in Seq(Nat) /\ Len(ToldOf(q, e)) = Len(q)
    BY <1>1, <1>3, <1>4, FunctionIsSeq
  <1>6. \A c \in 1..Len(q) :
           /\ AskedOf(q, e)[c] = IF q[c].ep = e THEN q[c].asked ELSE 0
           /\ ToldOf(q, e)[c] = IF q[c].ep = e THEN q[c].closed ELSE 0
    BY <1>1 DEF AskedOf, ToldOf
  <1> QED BY <1>5, <1>6

LEMMA PostedTyped ==
    ASSUME NEW q \in Seq(Task), NEW e
    PROVE  /\ PostedOf(q, e) \in Seq(Nat) /\ Len(PostedOf(q, e)) = Len(q)
           /\ \A i \in 1..Len(q) : PostedOf(q, e)[i] = Weight(q[i], e)
  <1>1. DOMAIN q = 1..Len(q) /\ Len(q) \in Nat
    OBVIOUS
  <1>2. \A i \in 1..Len(q) : Weight(q[i], e) \in Nat
    BY DEF Weight
  <1>3. PostedOf(q, e) \in [1..Len(q) -> Nat]
    BY <1>1, <1>2 DEF PostedOf
  <1>4. PostedOf(q, e) \in Seq(Nat) /\ Len(PostedOf(q, e)) = Len(q)
    BY <1>1, <1>3, FunctionIsSeq
  <1>5. \A i \in 1..Len(q) : PostedOf(q, e)[i] = Weight(q[i], e)
    BY <1>1 DEF PostedOf
  <1> QED BY <1>4, <1>5

\* A task is posted.
LEMMA PostedMore ==
    ASSUME NEW q \in Seq(Task), NEW t \in Task, NEW e
    PROVE  Total(PostedOf(Append(q, t), e)) = Total(PostedOf(q, e)) + Weight(t, e)
  <1> DEFINE r == Append(q, t)
  <1>1. /\ r \in Seq(Task) /\ Len(q) \in Nat /\ Len(r) = Len(q) + 1 /\ r[Len(r)] = t
        /\ \A i \in 1..Len(q) : r[i] = q[i] /\ i \in 1..Len(r)
        /\ Len(r) \in 1..Len(r)
    OBVIOUS
  <1> HIDE DEF r
  <1>2. /\ PostedOf(q, e) \in Seq(Nat) /\ Len(PostedOf(q, e)) = Len(q)
        /\ \A i \in 1..Len(q) : PostedOf(q, e)[i] = Weight(q[i], e)
    BY PostedTyped
  <1>3. /\ PostedOf(r, e) \in Seq(Nat) /\ Len(PostedOf(r, e)) = Len(r)
        /\ \A i \in 1..Len(r) : PostedOf(r, e)[i] = Weight(r[i], e)
    BY <1>1, PostedTyped
  <1>4. \A i \in 1..Len(PostedOf(q, e)) : PostedOf(r, e)[i] = PostedOf(q, e)[i]
    BY <1>1, <1>2, <1>3
  <1>5. Len(PostedOf(r, e)) = Len(PostedOf(q, e)) + 1
    BY <1>1, <1>2, <1>3
  <1>6. PostedOf(r, e)[Len(PostedOf(r, e))] = Weight(t, e)
    BY <1>1, <1>3
  <1>7. Total(PostedOf(r, e)) = Total(PostedOf(q, e)) + PostedOf(r, e)[Len(PostedOf(r, e))]
    BY <1>2, <1>3, <1>4, <1>5, TotalAppend
  <1>8. Total(PostedOf(r, e)) = Total(PostedOf(q, e)) + Weight(t, e)
    BY <1>6, <1>7
  <1> QED BY <1>8 DEF r

\* The task at the head is run.
LEMMA PostedLess ==
    ASSUME NEW q \in Seq(Task), q # <<>>, NEW e
    PROVE  /\ Tail(q) \in Seq(Task) /\ Head(q) \in Task
           /\ Total(PostedOf(q, e)) = Weight(Head(q), e) + Total(PostedOf(Tail(q), e))
  <1> DEFINE r == Tail(q)
  <1>1. /\ r \in Seq(Task) /\ Len(r) \in Nat /\ Len(q) = Len(r) + 1 /\ q[1] = Head(q)
        /\ \A i \in 1..Len(r) : r[i] = q[i + 1] /\ i + 1 \in 1..Len(q)
        /\ 1 \in 1..Len(q) /\ q[1] \in Task
    OBVIOUS
  <1> HIDE DEF r
  <1>2. /\ PostedOf(q, e) \in Seq(Nat) /\ Len(PostedOf(q, e)) = Len(q)
        /\ \A i \in 1..Len(q) : PostedOf(q, e)[i] = Weight(q[i], e)
    BY PostedTyped
  <1>3. /\ PostedOf(r, e) \in Seq(Nat) /\ Len(PostedOf(r, e)) = Len(r)
        /\ \A i \in 1..Len(r) : PostedOf(r, e)[i] = Weight(r[i], e)
    BY <1>1, PostedTyped
  <1>4. \A i \in 1..Len(PostedOf(r, e)) : PostedOf(r, e)[i] = PostedOf(q, e)[i + 1]
    BY <1>1, <1>2, <1>3
  <1>5. Len(PostedOf(q, e)) = Len(PostedOf(r, e)) + 1
    BY <1>1, <1>2, <1>3
  <1>6. PostedOf(q, e)[1] = Weight(Head(q), e)
    BY <1>1, <1>2
  <1>7. Total(PostedOf(q, e)) = PostedOf(q, e)[1] + Total(PostedOf(r, e))
    BY <1>2, <1>3, <1>4, <1>5, TotalTail
  <1>8. Total(PostedOf(q, e)) = Weight(Head(q), e) + Total(PostedOf(r, e))
    BY <1>6, <1>7
  <1> QED BY <1>1, <1>8 DEF r

LEMMA PostedNat ==
    ASSUME NEW q \in Seq(Task), NEW e
    PROVE  Total(PostedOf(q, e)) \in Nat
  BY PostedTyped, TotalNat

\* The head is run, and posts one task or none.
LEMMA PostedRun ==
    ASSUME NEW q \in Seq(Task), q # <<>>, NEW e
    PROVE  Total(PostedOf(Tail(q) \o <<>>, e)) + Weight(Head(q), e) = Total(PostedOf(q, e))
  <1>1. Tail(q) \o <<>> = Tail(q)
    OBVIOUS
  <1>2. /\ Tail(q) \in Seq(Task) /\ Head(q) \in Task
        /\ Total(PostedOf(q, e)) = Weight(Head(q), e) + Total(PostedOf(Tail(q), e))
    BY PostedLess
  <1>3. Total(PostedOf(Tail(q), e)) \in Nat /\ Weight(Head(q), e) \in Nat
    BY <1>2, PostedNat DEF Weight
  <1> QED BY <1>1, <1>2, <1>3

LEMMA PostedRunPosts ==
    ASSUME NEW q \in Seq(Task), q # <<>>, NEW t \in Task, NEW e
    PROVE  Total(PostedOf(Tail(q) \o <<t>>, e)) + Weight(Head(q), e)
             = Total(PostedOf(q, e)) + Weight(t, e)
  <1>1. Tail(q) \o <<t>> = Append(Tail(q), t)
    OBVIOUS
  <1>2. /\ Tail(q) \in Seq(Task) /\ Head(q) \in Task
        /\ Total(PostedOf(q, e)) = Weight(Head(q), e) + Total(PostedOf(Tail(q), e))
    BY PostedLess
  <1>3. Total(PostedOf(Append(Tail(q), t), e)) = Total(PostedOf(Tail(q), e)) + Weight(t, e)
    BY <1>2, PostedMore
  <1> DEFINE h == Weight(Head(q), e)
             w == Weight(t, e)
             u == Total(PostedOf(Tail(q), e))
             v == Total(PostedOf(Append(Tail(q), t), e))
             z == Total(PostedOf(q, e))
  <1>4. u \in Nat
    BY <1>2, PostedNat
  <1>5. h \in Nat
    BY DEF Weight
  <1>6. w \in Nat
    BY DEF Weight
  <1>7. z = h + u
    BY <1>2
  <1>8. v = u + w
    BY <1>3
  <1> HIDE DEF h, w, u, v, z
  <1>9. v + h = z + w
    BY <1>4, <1>5, <1>6, <1>7, <1>8
  <1> QED BY <1>1, <1>9 DEF h, w, u, v, z

LEMMA PostedQuiet ==
    ASSUME strand \in Seq(Task), Quiet("client_close"), NEW e
    PROVE  Total(PostedOf(strand', e)) = Total(PostedOf(strand, e))
  <1>0. Total(PostedOf(strand, e)) \in Nat
    BY PostedNat
  <1>1. CASE strand' = strand
    BY <1>1
  <1>2. ASSUME NEW t \in Task, t.kind # "client_close", strand' = Append(strand, t)
        PROVE  Total(PostedOf(strand', e)) = Total(PostedOf(strand, e))
    <2>1. Weight(t, e) = 0
      BY <1>2 DEF Weight
    <2>2. Total(PostedOf(strand', e)) = Total(PostedOf(strand, e)) + Weight(t, e)
      BY <1>2, PostedMore
    <2> QED BY <1>0, <2>1, <2>2
  <1>3. CASE strand # <<>> /\ Head(strand).kind # "client_close" /\ strand' = Tail(strand) \o <<>>
    <2>1. Weight(Head(strand), e) = 0
      BY <1>3 DEF Weight
    <2>2. Total(PostedOf(strand', e)) + Weight(Head(strand), e) = Total(PostedOf(strand, e))
      BY <1>3, PostedRun
    <2>3. strand' \in Seq(Task)
      BY <1>3, Running
    <2>4. Total(PostedOf(strand', e)) \in Nat
      BY <2>3, PostedNat
    <2> QED BY <2>1, <2>2, <2>4
  <1>4. ASSUME strand # <<>>, Head(strand).kind # "client_close",
               NEW t \in Task, t.kind # "client_close", strand' = Tail(strand) \o <<t>>
        PROVE  Total(PostedOf(strand', e)) = Total(PostedOf(strand, e))
    <2>1. Weight(Head(strand), e) = 0 /\ Weight(t, e) = 0
      BY <1>4 DEF Weight
    <2>2. Total(PostedOf(strand', e)) + Weight(Head(strand), e)
            = Total(PostedOf(strand, e)) + Weight(t, e)
      BY <1>4, PostedRunPosts
    <2>3. strand' \in Seq(Task)
      BY <1>4, RunningPosts
    <2>4. Total(PostedOf(strand', e)) \in Nat
      BY <2>3, PostedNat
    <2> QED BY <1>0, <2>1, <2>2, <2>4
  <1> QED BY <1>1, <1>2, <1>3, <1>4 DEF Quiet

LEMMA NoCloseKept == ASSUME strand \in Seq(Task), Quiet("close"), NoClose PROVE NoClose'
  <1>1. Stays("close") \/ Shifts("close")
    BY QuietEffect
  <1> QED BY <1>1 DEF Stays, Shifts, NoClose

\* One client changes.
LEMMA OneCounted ==
    ASSUME NEW p \in Seq(ClientType), NEW q \in Seq(ClientType), Len(q) = Len(p),
           NEW c \in 1..Len(p), q[c].ep = p[c].ep,
           \A d \in 1..Len(p) : d # c => q[d] = p[d], NEW e
    PROVE  /\ Total(AskedOf(q, e)) + (IF p[c].ep = e THEN p[c].asked ELSE 0)
                = Total(AskedOf(p, e)) + (IF p[c].ep = e THEN q[c].asked ELSE 0)
           /\ Total(ToldOf(q, e)) + (IF p[c].ep = e THEN p[c].closed ELSE 0)
                = Total(ToldOf(p, e)) + (IF p[c].ep = e THEN q[c].closed ELSE 0)
  <1>1. /\ AskedOf(p, e) \in Seq(Nat) /\ Len(AskedOf(p, e)) = Len(p)
        /\ ToldOf(p, e) \in Seq(Nat) /\ Len(ToldOf(p, e)) = Len(p)
        /\ \A d \in 1..Len(p) :
              /\ AskedOf(p, e)[d] = IF p[d].ep = e THEN p[d].asked ELSE 0
              /\ ToldOf(p, e)[d] = IF p[d].ep = e THEN p[d].closed ELSE 0
    BY CountsTyped
  <1>2. /\ AskedOf(q, e) \in Seq(Nat) /\ Len(AskedOf(q, e)) = Len(p)
        /\ ToldOf(q, e) \in Seq(Nat) /\ Len(ToldOf(q, e)) = Len(p)
        /\ \A d \in 1..Len(p) :
              /\ AskedOf(q, e)[d] = IF q[d].ep = e THEN q[d].asked ELSE 0
              /\ ToldOf(q, e)[d] = IF q[d].ep = e THEN q[d].closed ELSE 0
    BY CountsTyped
  <1>3. \A d \in 1..Len(AskedOf(p, e)) : d # c => AskedOf(q, e)[d] = AskedOf(p, e)[d]
    BY <1>1, <1>2
  <1>4. \A d \in 1..Len(ToldOf(p, e)) : d # c => ToldOf(q, e)[d] = ToldOf(p, e)[d]
    BY <1>1, <1>2
  <1>5. c \in 1..Len(AskedOf(p, e)) /\ Len(AskedOf(q, e)) = Len(AskedOf(p, e))
    BY <1>1, <1>2
  <1>6. c \in 1..Len(ToldOf(p, e)) /\ Len(ToldOf(q, e)) = Len(ToldOf(p, e))
    BY <1>1, <1>2
  <1>7. Total(AskedOf(q, e)) + AskedOf(p, e)[c] = Total(AskedOf(p, e)) + AskedOf(q, e)[c]
    BY <1>1, <1>2, <1>3, <1>5, TotalChange
  <1>8. Total(ToldOf(q, e)) + ToldOf(p, e)[c] = Total(ToldOf(p, e)) + ToldOf(q, e)[c]
    BY <1>1, <1>2, <1>4, <1>6, TotalChange
  <1>9. /\ AskedOf(p, e)[c] = (IF p[c].ep = e THEN p[c].asked ELSE 0)
        /\ ToldOf(p, e)[c] = (IF p[c].ep = e THEN p[c].closed ELSE 0)
    BY <1>1
  <1>10. /\ AskedOf(q, e)[c] = (IF p[c].ep = e THEN q[c].asked ELSE 0)
         /\ ToldOf(q, e)[c] = (IF p[c].ep = e THEN q[c].closed ELSE 0)
    BY <1>2
  <1> QED BY <1>7, <1>8, <1>9, <1>10

\* A client comes that has neither asked nor been told.
LEMMA NewCounted ==
    ASSUME NEW p \in Seq(ClientType), NEW q \in Seq(ClientType), Len(q) = Len(p) + 1,
           \A d \in 1..Len(p) : q[d] = p[d], q[Len(p) + 1].asked = 0, q[Len(p) + 1].closed = 0, NEW e
    PROVE  Total(AskedOf(q, e)) = Total(AskedOf(p, e)) /\ Total(ToldOf(q, e)) = Total(ToldOf(p, e))
  <1>1. /\ AskedOf(p, e) \in Seq(Nat) /\ Len(AskedOf(p, e)) = Len(p)
        /\ ToldOf(p, e) \in Seq(Nat) /\ Len(ToldOf(p, e)) = Len(p)
        /\ \A d \in 1..Len(p) :
              /\ AskedOf(p, e)[d] = IF p[d].ep = e THEN p[d].asked ELSE 0
              /\ ToldOf(p, e)[d] = IF p[d].ep = e THEN p[d].closed ELSE 0
    BY CountsTyped
  <1>2. /\ AskedOf(q, e) \in Seq(Nat) /\ Len(AskedOf(q, e)) = Len(q)
        /\ ToldOf(q, e) \in Seq(Nat) /\ Len(ToldOf(q, e)) = Len(q)
        /\ \A d \in 1..Len(q) :
              /\ AskedOf(q, e)[d] = IF q[d].ep = e THEN q[d].asked ELSE 0
              /\ ToldOf(q, e)[d] = IF q[d].ep = e THEN q[d].closed ELSE 0
    BY CountsTyped
  <1>3. Len(p) \in Nat /\ Len(p) + 1 \in 1..Len(q) /\ \A d \in 1..Len(p) : d \in 1..Len(q)
    OBVIOUS
  <1>4. \A d \in 1..Len(AskedOf(p, e)) : AskedOf(q, e)[d] = AskedOf(p, e)[d]
    BY <1>1, <1>2, <1>3
  <1>5. \A d \in 1..Len(ToldOf(p, e)) : ToldOf(q, e)[d] = ToldOf(p, e)[d]
    BY <1>1, <1>2, <1>3
  <1>6. Len(AskedOf(q, e)) = Len(AskedOf(p, e)) + 1 /\ Len(ToldOf(q, e)) = Len(ToldOf(p, e)) + 1
    BY <1>1, <1>2
  <1>7. Total(AskedOf(q, e)) = Total(AskedOf(p, e)) + AskedOf(q, e)[Len(AskedOf(q, e))]
    BY <1>1, <1>2, <1>4, <1>6, TotalAppend
  <1>8. Total(ToldOf(q, e)) = Total(ToldOf(p, e)) + ToldOf(q, e)[Len(ToldOf(q, e))]
    BY <1>1, <1>2, <1>5, <1>6, TotalAppend
  <1>9. AskedOf(q, e)[Len(AskedOf(q, e))] = 0 /\ ToldOf(q, e)[Len(ToldOf(q, e))] = 0
    BY <1>2, <1>3
  <1>10. Total(AskedOf(p, e)) \in Nat /\ Total(ToldOf(p, e)) \in Nat
    BY <1>1, TotalNat
  <1> QED BY <1>7, <1>8, <1>9, <1>10

LEMMA SameCounted ==
    ASSUME NEW p \in Seq(ClientType), NEW q \in Seq(ClientType), Len(q) = Len(p),
           \A d \in 1..Len(p) : q[d].ep = p[d].ep /\ q[d].asked = p[d].asked /\ q[d].closed = p[d].closed,
           NEW e
    PROVE  AskedOf(q, e) = AskedOf(p, e) /\ ToldOf(q, e) = ToldOf(p, e)
  <1>1. DOMAIN q = 1..Len(p) /\ DOMAIN p = 1..Len(p)
    OBVIOUS
  <1> QED BY <1>1 DEF AskedOf, ToldOf

\* A step in which nobody asks or is told, no close is posted or run, and the map
\* stays as it is.
Steady ==
    /\ Quiet("client_close") /\ Quiet("close")
    /\ clients' = clients /\ Len(client') = Len(client) /\ client' \in Seq(ClientType)
    /\ \A c \in 1..Len(client) :
          /\ client'[c].ep = client[c].ep
          /\ client'[c].asked = client[c].asked /\ client'[c].closed = client[c].closed

LEMMA SteadyAccounts == ASSUME Base, Steady, shut' = shut, Accounted PROVE Accounted'
  <1> SUFFICES ASSUME ~shut
               PROVE  NoClose' /\ ToldOnce' /\ \A e \in Endpoints : Balanced(e)'
    BY DEF Accounted
  <1>1. NoClose /\ ToldOnce /\ \A e \in Endpoints : Balanced(e)
    BY DEF Accounted
  <1>2. strand \in Seq(Task) /\ client \in Seq(ClientType)
    BY Typing DEF Base, SendInv, SendTyped
  <1>3. NoClose'
    BY <1>1, <1>2, NoCloseKept DEF Steady
  <1>4. ToldOnce'
    BY <1>1 DEF ToldOnce, InMap, Steady
  <1>5. ASSUME NEW e \in Endpoints PROVE Balanced(e)'
    <2>1. Total(PostedOf(strand', e)) = Total(PostedOf(strand, e))
      BY <1>2, PostedQuiet DEF Steady
    <2>2. AskedOf(client', e) = AskedOf(client, e) /\ ToldOf(client', e) = ToldOf(client, e)
      BY <1>2, SameCounted DEF Steady
    <2>3. Balanced(e)
      BY <1>1
    <2> QED BY <2>1, <2>2, <2>3 DEF Balanced
  <1> QED BY <1>3, <1>4, <1>5

LEMMA Untouched ==
    ASSUME Base, UNCHANGED <<client, clients>>, Quiet("client_close"), Quiet("close")
    PROVE  Steady
  <1>1. client \in Seq(ClientType) /\ Len(client) \in Nat
    BY Typing DEF Base
  <1> QED BY <1>1 DEF Steady

\* One client changes, but neither asks nor is told.
LEMMA OneSteady ==
    ASSUME Base, clients' = clients, Quiet("client_close"), Quiet("close"),
           NEW c \in 1..Len(client), client' \in Seq(ClientType), Len(client') = Len(client),
           \A d \in 1..Len(client) : d # c => client'[d] = client[d],
           client'[c].ep = client[c].ep, client'[c].asked = client[c].asked,
           client'[c].closed = client[c].closed
    PROVE  Steady
  BY DEF Steady

LEMMA CallsSteady ==
    ASSUME Base, \/ UNCHANGED vars \/ Bind \/ StartAccept
                 \/ \E c \in 1..Len(client) : ClientWrite(c) \/ ClientRead(c)
    PROVE  Steady /\ shut' = shut
  <1>1. CASE UNCHANGED vars \/ Bind \/ StartAccept
    <2>1. UNCHANGED <<strand, client, clients, shut>>
      BY <1>1 DEF vars, udpVars, serverVars, Bind, StartAccept
    <2>2. \A k : Quiet(k)
      BY <2>1 DEF Quiet
    <2> QED BY <2>1, <2>2, Untouched
  <1>2. ASSUME NEW c \in 1..Len(client), ClientWrite(c) PROVE Steady /\ shut' = shut
    <2> DEFINE m == [number |-> Len(accepted) + 1, to |-> client[c].ep]
               t == [kind |-> "write", msg |-> m]
    <2>1. strand' = Append(strand, t) /\ UNCHANGED <<client, clients, shut>>
      BY <1>2 DEF ClientWrite, WriteTo, PushToQueue, serverVars
    <2>2. client[c].ep \in Endpoints /\ Len(accepted) \in Nat
      BY Typing, ClientFields DEF Base, SendInv, SendTyped
    <2>3. m \in Message
      BY <2>2 DEF Message
    <2>4. t \in Task /\ t.kind = "write"
      BY <2>3, TaskMade
    <2> HIDE DEF m, t
    <2>5. Quiet("client_close") /\ Quiet("close")
      BY <2>1, <2>4 DEF Quiet
    <2> QED BY <2>1, <2>5, Untouched
  <1>3. ASSUME NEW c \in 1..Len(client), ClientRead(c) PROVE Steady /\ shut' = shut
    <2>1. strand' = Append(strand, SetReadTask(c)) /\ UNCHANGED <<client, clients, shut>>
      BY <1>3 DEF ClientRead, serverVars
    <2>2. SetReadTask(c) \in Task /\ SetReadTask(c).kind = "set_read"
      BY TaskMade
    <2>3. Quiet("client_close") /\ Quiet("close")
      BY <2>1, <2>2 DEF Quiet
    <2> QED BY <2>1, <2>3, Untouched
  <1> QED BY <1>1, <1>2, <1>3

LEMMA NetworkSteady ==
    ASSUME Base, Arrive \/ Fail \/ SendSettlesHere
    PROVE  Steady /\ shut' = shut
  <1>1. CASE Arrive
    <2> DEFINE d == [from |-> Traffic[arrived + 1], number |-> arrived + 1]
               t == [kind |-> "received", ok |-> TRUE, data |-> d]
    <2>1. arrived < Len(Traffic) /\ strand' = Append(strand, t) /\ UNCHANGED <<client, clients, shut>>
      BY <1>1 DEF Arrive, Received
    <2>2. arrived \in Nat
      BY Typing DEF Base
    <2>3. Traffic[arrived + 1] \in Endpoints /\ arrived + 1 \in Nat
      BY <2>1, <2>2, TrafficAssumption
    <2>4. d \in Datagram
      BY <2>3 DEF Datagram
    <2>5. t \in Task /\ t.kind = "received"
      BY <2>4, TaskMade
    <2> HIDE DEF d, t
    <2>6. Quiet("client_close") /\ Quiet("close")
      BY <2>1, <2>5 DEF Quiet
    <2> QED BY <2>1, <2>6, Untouched
  <1>2. CASE Fail
    <2> DEFINE t == [kind |-> "received", ok |-> FALSE]
    <2>1. strand' = Append(strand, t) /\ UNCHANGED <<client, clients, shut>>
      BY <1>2 DEF Fail, ReceiveFailed
    <2>2. t \in Task /\ t.kind = "received"
      BY TaskMade
    <2> HIDE DEF t
    <2>3. Quiet("client_close") /\ Quiet("close")
      BY <2>1, <2>2 DEF Quiet
    <2> QED BY <2>1, <2>3, Untouched
  <1>3. CASE SendSettlesHere
    <2>1. PICK i \in 1..Len(ops), ok \in BOOLEAN : SendAnswered(i, ok)
      BY <1>3 DEF SendSettlesHere, SendSettles
    <2> DEFINE t == [kind |-> "sent", msg |-> ops[i], ok |-> ok]
    <2>2. strand' = Append(strand, t) /\ UNCHANGED <<client, clients, shut>>
      BY <1>3, <2>1 DEF SendAnswered, SendSettlesHere, serverVars
    <2>3. ops[i] \in Message
      BY DEF Base, SendInv, SendTyped
    <2>4. t \in Task /\ t.kind = "sent"
      BY <2>3, TaskMade
    <2> HIDE DEF t
    <2>5. Quiet("client_close") /\ Quiet("close")
      BY <2>2, <2>4 DEF Quiet
    <2> QED BY <2>2, <2>5, Untouched
  <1> QED BY <1>1, <1>2, <1>3

LEMMA RunsQuietly ==
    ASSUME strand # <<>>, Head(strand).kind \notin {"client_close", "close"},
           \/ strand' = Tail(strand) \o <<>>
           \/ \E t \in Task : t.kind \notin {"client_close", "close"} /\ strand' = Tail(strand) \o <<t>>
    PROVE  Quiet("client_close") /\ Quiet("close")
  BY DEF Quiet

LEMMA HandlersSteady ==
    ASSUME Base, \/ OnReadError
                 \/ SendDone
                 \/ OnData /\ IgnoreData
                 \/ WriteToQueue /\ UNCHANGED serverVars
                 \/ SendError /\ ~(Known(ep) /\ Usable(clients[ep]))
    PROVE  Steady /\ shut' = shut
  <1>1. strand \in Seq(Task)
    BY DEF Base, SendInv, SendTyped
  <1>2. CASE OnReadError
    <2>1. /\ strand # <<>> /\ Head(strand).kind = "received" /\ strand' = Tail(strand) \o <<>>
          /\ UNCHANGED <<client, clients, shut>>
      BY <1>2 DEF OnReadError, ReadHandler, Runs, serverVars
    <2> QED BY <2>1, RunsQuietly, Untouched
  <1>3. CASE SendDone
    <2>1. /\ strand # <<>> /\ Head(strand).kind = "sent" /\ strand' = Tail(strand) \o <<>>
          /\ UNCHANGED <<client, clients, shut>>
      BY <1>3 DEF SendDone, SendHandler, Runs, serverVars
    <2> QED BY <2>1, RunsQuietly, Untouched
  <1>4. CASE OnData /\ IgnoreData
    <2>1. /\ strand # <<>> /\ Head(strand).kind = "received" /\ strand' = Tail(strand) \o <<>>
          /\ UNCHANGED <<client, clients, shut>>
      BY <1>4 DEF OnData, IgnoreData, ReadHandler, Runs
    <2> QED BY <2>1, RunsQuietly, Untouched
  <1>5. CASE WriteToQueue /\ UNCHANGED serverVars
    <2>1. /\ strand # <<>> /\ Head(strand).kind = "write" /\ strand' = Tail(strand)
          /\ UNCHANGED <<client, clients, shut>>
      BY <1>5 DEF WriteToQueue, Runs, serverVars
    <2>2. strand' = Tail(strand) \o <<>>
      BY <1>1, <2>1
    <2> QED BY <2>1, <2>2, RunsQuietly, Untouched
  <1>6. CASE SendError /\ ~(Known(ep) /\ Usable(clients[ep]))
    <2>1. /\ strand # <<>> /\ Head(strand).kind = "sent" /\ strand' = Tail(strand) \o <<>>
          /\ UNCHANGED <<client, clients, shut>>
      BY <1>6 DEF SendError, SendHandler, Runs
    <2> QED BY <2>1, RunsQuietly, Untouched
  <1> QED BY <1>2, <1>3, <1>4, <1>5, <1>6

LEMMA SetReadSteady == ASSUME Base, Lines, SetReadImpl PROVE Steady /\ shut' = shut
  <1> DEFINE c == Head(strand).client
  <1>1. /\ strand # <<>> /\ Head(strand).kind = "set_read" /\ strand' = Tail(strand) \o <<>>
        /\ clients' = clients /\ shut' = shut
    BY DEF SetReadImpl, OtherHandler, Runs
  <1>2. \/ client' = Delivered(c, NextBuffer(c), FALSE, AfterRead(c)) /\ client[c].queue # <<>>
        \/ client' = [client EXCEPT ![c].read = TRUE]
        \/ client' = client
    BY DEF SetReadImpl
  <1>3. ServerTyped /\ SendTyped /\ LineInv
    BY DEF Base, SendInv, Lines
  <1>4. c \in 1..Len(client)
    <2>1. 1 \in Tasks("set_read") /\ strand[1] = Head(strand)
      BY <1>1, <1>3, Running DEF SendTyped
    <2> QED BY <2>1 DEF Base, ReadsRefer
  <1> HIDE DEF c
  <1>5. client[c] \in ClientType /\ client[c].queue \in Seq(Nat)
    BY <1>3, <1>4, Typing, ClientFields
  <1>6. Quiet("client_close") /\ Quiet("close")
    BY <1>1, RunsQuietly
  <1>7. CASE client' = Delivered(c, NextBuffer(c), FALSE, AfterRead(c)) /\ client[c].queue # <<>>
    <2> DEFINE b == Head(client[c].queue)
               rest == Tail(client[c].queue)
    <2>1. At(c, 2, 1, b)
      BY <1>5, <1>7 DEF At
    <2>2. b \in 1..Len(heap)
      BY <1>3, <1>4, <2>1 DEF LineInv, Referring
    <2>3. rest \in Seq(Nat)
      BY <1>5, <1>7
    <2>4. client' = Delivered(c, b, FALSE, rest)
      BY <1>7 DEF NextBuffer, AfterRead
    <2> HIDE DEF b, rest
    <2>5. /\ client' \in Seq(ClientType) /\ Len(client') = Len(client)
          /\ \A d \in 1..Len(client) : d # c => client'[d] = client[d]
          /\ client'[c].ep = client[c].ep
          /\ client'[c].asked = client[c].asked /\ client'[c].closed = client[c].closed
      BY <1>3, <1>4, <2>2, <2>3, <2>4, DeliveredClient
    <2> QED BY <1>1, <1>4, <1>6, <2>5, OneSteady
  <1>8. CASE client' = [client EXCEPT ![c].read = TRUE]
    <2> DEFINE x == [client[c] EXCEPT !.read = TRUE]
    <2>1. /\ x \in ClientType /\ x.ep = client[c].ep
          /\ x.asked = client[c].asked /\ x.closed = client[c].closed
      BY <1>5, ReadAssigned
    <2>2. client' = [client EXCEPT ![c] = x]
      BY <1>8
    <2> HIDE DEF x
    <2>3. /\ client' \in Seq(ClientType) /\ Len(client') = Len(client) /\ client'[c] = x
          /\ \A d \in 1..Len(client) : d # c => client'[d] = client[d]
      BY <1>3, <1>4, <2>1, <2>2, OneChanges
    <2> QED BY <1>1, <1>4, <1>6, <2>1, <2>3, OneSteady
  <1>9. CASE client' = client
    BY <1>1, <1>6, <1>9, Untouched
  <1> QED BY <1>2, <1>7, <1>8, <1>9

LEMMA PushDataSteady == ASSUME Base, Lines, PushDataImpl PROVE Steady /\ shut' = shut
  <1> DEFINE c == Head(strand).client
             b == Head(strand).buf
  <1>1. /\ strand # <<>> /\ Head(strand).kind = "push" /\ strand' = Tail(strand) \o <<>>
        /\ clients' = clients /\ shut' = shut
    BY DEF PushDataImpl, OtherHandler, Runs
  <1>2. \/ client' = Delivered(c, b, TRUE, client[c].queue)
        \/ client' = [client EXCEPT ![c].queue = Append(@, b)]
        \/ client' = [client EXCEPT ![c].cache = CachePush(@, b, MaxCache)]
        \/ client' = client
    BY DEF PushDataImpl
  <1>3. ServerTyped /\ SendTyped /\ LineInv
    BY DEF Base, SendInv, Lines
  <1>4. 1 \in Tasks("push") /\ strand[1] = Head(strand)
    BY <1>1, <1>3, Running DEF SendTyped
  <1>5. c \in 1..Len(client) /\ 1 \in PushesTo(c) /\ b = strand[1].buf
    BY <1>4 DEF Lines, PushesRefer, PushesTo
  <1> HIDE DEF c, b
  <1>6. client[c] \in ClientType /\ client[c].queue \in Seq(Nat) /\ client[c].cache \in Seq(Nat)
    BY <1>3, <1>5, Typing, ClientFields
  <1>7. b \in 1..Len(heap) /\ b \in Nat
    <2>1. At(c, 3, 1, b)
      BY <1>5 DEF At
    <2>2. b \in 1..Len(heap)
      BY <1>3, <1>5, <2>1 DEF LineInv, Referring
    <2> QED BY <2>2
  <1>8. Quiet("client_close") /\ Quiet("close")
    BY <1>1, RunsQuietly
  <1>9. CASE client' = Delivered(c, b, TRUE, client[c].queue)
    <2>1. /\ client' \in Seq(ClientType) /\ Len(client') = Len(client)
          /\ \A d \in 1..Len(client) : d # c => client'[d] = client[d]
          /\ client'[c].ep = client[c].ep
          /\ client'[c].asked = client[c].asked /\ client'[c].closed = client[c].closed
      BY <1>3, <1>5, <1>6, <1>7, <1>9, DeliveredClient
    <2> QED BY <1>1, <1>5, <1>8, <2>1, OneSteady
  <1>10. ASSUME NEW x \in ClientType, client' = [client EXCEPT ![c] = x], x.ep = client[c].ep,
                x.asked = client[c].asked, x.closed = client[c].closed
         PROVE  Steady
    <2>1. /\ client' \in Seq(ClientType) /\ Len(client') = Len(client) /\ client'[c] = x
          /\ \A d \in 1..Len(client) : d # c => client'[d] = client[d]
      BY <1>3, <1>5, <1>10, OneChanges
    <2> QED BY <1>1, <1>5, <1>8, <1>10, <2>1, OneSteady
  <1>11. CASE client' = [client EXCEPT ![c].queue = Append(@, b)]
    <2> DEFINE q == Append(client[c].queue, b)
               x == [client[c] EXCEPT !.queue = q]
    <2>1. q \in Seq(Nat)
      BY <1>6, <1>7
    <2>2. client' = [client EXCEPT ![c] = x]
      BY <1>11
    <2> HIDE DEF q
    <2>3. /\ x \in ClientType /\ x.ep = client[c].ep
          /\ x.asked = client[c].asked /\ x.closed = client[c].closed
      BY <1>6, <2>1, QueueAssigned
    <2> HIDE DEF x
    <2> QED BY <1>1, <1>10, <2>2, <2>3
  <1>12. CASE client' = [client EXCEPT ![c].cache = CachePush(@, b, MaxCache)]
    <2> DEFINE k == CachePush(client[c].cache, b, MaxCache)
               x == [client[c] EXCEPT !.cache = k]
    <2>1. k \in Seq(Nat)
      BY <1>6, <1>7, CachePushes
    <2>2. client' = [client EXCEPT ![c] = x]
      BY <1>12
    <2> HIDE DEF k
    <2>3. /\ x \in ClientType /\ x.ep = client[c].ep
          /\ x.asked = client[c].asked /\ x.closed = client[c].closed
      BY <1>6, <2>1, CacheAssigned
    <2> HIDE DEF x
    <2> QED BY <1>1, <1>10, <2>2, <2>3
  <1>13. CASE client' = client
    BY <1>1, <1>8, <1>13, Untouched
  <1> QED BY <1>1, <1>2, <1>9, <1>11, <1>12, <1>13

LEMMA PushPostedSteady ==
    ASSUME Base, Lines, OnData, Known(ep), PushData(clients[ep], Head(strand).data)
    PROVE  Steady /\ shut' = shut
  <1> DEFINE c == clients[ep]
             d == Head(strand).data
             b == CacheGet(client[c].cache, heap)
             t == PushTask(c, b)
  <1>1. /\ Runs("received") /\ Head(strand).ok /\ strand' = Tail(strand) \o <<t>> /\ ReadFrom
        /\ client' = [client EXCEPT ![c].cache = CacheRest(@), ![c].given = Append(@, d)]
        /\ UNCHANGED <<queue, ops, active, accepted, reported, shut, arrived, failures>>
        /\ clients' = clients
    BY DEF OnData, PushData, ReadHandler
  <1>2. ServerTyped
    BY DEF Base
  <1>3. c \in 1..Len(client) /\ c \in Nat
    BY <1>2, Typing DEF Known
  <1>4. /\ client[c] \in ClientType /\ client[c].cache \in Seq(Nat)
        /\ client[c].given \in Seq(Datagram) /\ Len(heap) \in Nat
    BY <1>2, <1>3, Typing, ClientFields
  <1>5. b \in Nat
    BY <1>4 DEF CacheGet, CacheCreate
  <1>6. t \in Task /\ t.kind = "push"
    BY <1>3, <1>5, TaskMade
  <1>7. CacheRest(client[c].cache) \in Seq(Nat)
    BY <1>4, CacheRests
  <1> HIDE DEF t, b, c, d
  <1>8. d \in Datagram
    BY <1>1, <1>6, OnDataRecv DEF d
  <1>9. Quiet("client_close") /\ Quiet("close")
    BY <1>1, <1>6, RunsQuietly DEF Runs
  <1> DEFINE k == CacheRest(client[c].cache)
             g == Append(client[c].given, d)
             x == AfterFiling(client[c], k, g)
  <1>10. k \in Seq(Nat) /\ g \in Seq(Datagram)
    BY <1>4, <1>7, <1>8
  <1>11. client' = [client EXCEPT ![c] = x]
    BY <1>1, <1>2, <1>3, Typing DEF AfterFiling
  <1> HIDE DEF k, g
  <1>12. /\ x \in ClientType /\ x.ep = client[c].ep
         /\ x.asked = client[c].asked /\ x.closed = client[c].closed
    <2>1. IsFiled(x, client[c], k, g)
      BY <1>4, <1>10, GivenAssigned
    <2> QED BY <2>1 DEF IsFiled
  <1> HIDE DEF x
  <1>13. /\ client' \in Seq(ClientType) /\ Len(client') = Len(client) /\ client'[c] = x
         /\ \A e \in 1..Len(client) : e # c => client'[e] = client[e]
    BY <1>2, <1>3, <1>11, <1>12, OneChanges
  <1> QED BY <1>1, <1>3, <1>9, <1>12, <1>13, OneSteady

\* A close is asked for, and posted.
LEMMA AskingAccounts ==
    ASSUME Base, Accounted, NEW c \in 1..Len(client), NEW t \in Task,
           t.kind = "client_close", t.at = client[c].ep,
           client' = [client EXCEPT ![c].asked = @ + 1],
           \/ strand' = Append(strand, t)
           \/ /\ strand # <<>> /\ Head(strand).kind = "sent"
              /\ strand' = Tail(strand) \o <<t>>,
           clients' = clients, shut' = shut
    PROVE  Accounted'
  <1> SUFFICES ASSUME ~shut
               PROVE  NoClose' /\ ToldOnce' /\ \A e \in Endpoints : Balanced(e)'
    BY DEF Accounted
  <1>1. NoClose /\ ToldOnce /\ \A e \in Endpoints : Balanced(e)
    BY DEF Accounted
  <1>2. strand \in Seq(Task) /\ client \in Seq(ClientType) /\ ServerTyped
    BY Typing DEF Base, SendInv, SendTyped
  <1> DEFINE x == [client[c] EXCEPT !.asked = client[c].asked + 1]
  <1>3. client[c] \in ClientType /\ client[c].asked + 1 \in Nat /\ client[c].asked \in Nat
    BY <1>2, Typing, ClientFields
  <1>4. /\ x \in ClientType /\ x.ep = client[c].ep
        /\ x.asked = client[c].asked + 1 /\ x.closed = client[c].closed
    BY <1>3, AskedCounted
  <1>5. client' = [client EXCEPT ![c] = x]
    OBVIOUS
  <1> HIDE DEF x
  <1>6. /\ client' \in Seq(ClientType) /\ Len(client') = Len(client) /\ client'[c] = x
        /\ \A d \in 1..Len(client) : d # c => client'[d] = client[d]
    BY <1>2, <1>4, <1>5, OneChanges
  <1>7. Quiet("close")
    BY DEF Quiet
  <1>8. NoClose'
    BY <1>1, <1>2, <1>7, NoCloseKept
  <1>9. ToldOnce'
    <2>1. \A d \in 1..Len(client) : client'[d].ep = client[d].ep /\ client'[d].closed = client[d].closed
      BY <1>4, <1>6
    <2> QED BY <1>1, <1>6, <2>1 DEF ToldOnce, InMap
  <1>10. ASSUME NEW e \in Endpoints PROVE Balanced(e)'
    <2>1. Total(PostedOf(strand', e)) = Total(PostedOf(strand, e)) + Weight(t, e)
      <3>1. CASE strand' = Append(strand, t)
        BY <1>2, <3>1, PostedMore
      <3>2. CASE strand # <<>> /\ Head(strand).kind = "sent" /\ strand' = Tail(strand) \o <<t>>
        <4>1. Weight(Head(strand), e) = 0
          BY <3>2 DEF Weight
        <4>2. Total(PostedOf(strand', e)) + Weight(Head(strand), e)
                = Total(PostedOf(strand, e)) + Weight(t, e)
          BY <1>2, <3>2, PostedRunPosts
        <4>3. strand' \in Seq(Task)
          BY <1>2, <3>2, RunningPosts
        <4>4. Total(PostedOf(strand', e)) \in Nat
          BY <4>3, PostedNat
        <4> QED BY <4>1, <4>2, <4>4
      <3> QED BY <3>1, <3>2
    <2>2. /\ Total(AskedOf(client', e)) + (IF client[c].ep = e THEN client[c].asked ELSE 0)
               = Total(AskedOf(client, e)) + (IF client[c].ep = e THEN client'[c].asked ELSE 0)
          /\ Total(ToldOf(client', e)) + (IF client[c].ep = e THEN client[c].closed ELSE 0)
               = Total(ToldOf(client, e)) + (IF client[c].ep = e THEN client'[c].closed ELSE 0)
      <3> DEFINE q == client'
      <3>1. q[c].ep = client[c].ep
        BY <1>4, <1>6
      <3>2. q \in Seq(ClientType) /\ Len(q) = Len(client)
        BY <1>6
      <3>3. \A d \in 1..Len(client) : d # c => q[d] = client[d]
        BY <1>6
      <3> HIDE DEF q
      <3>4. client \in Seq(ClientType)
        BY <1>2
      <3>5. /\ Total(AskedOf(q, e)) + (IF client[c].ep = e THEN client[c].asked ELSE 0)
                 = Total(AskedOf(client, e)) + (IF client[c].ep = e THEN q[c].asked ELSE 0)
            /\ Total(ToldOf(q, e)) + (IF client[c].ep = e THEN client[c].closed ELSE 0)
                 = Total(ToldOf(client, e)) + (IF client[c].ep = e THEN q[c].closed ELSE 0)
        BY ONLY <3>1, <3>2, <3>3, <3>4, OneCounted
      <3> QED BY <3>5 DEF q
    <2>3. /\ Total(AskedOf(client', e)) \in Nat /\ Total(AskedOf(client, e)) \in Nat
          /\ Total(ToldOf(client', e)) \in Nat /\ Total(ToldOf(client, e)) \in Nat
          /\ Total(PostedOf(strand, e)) \in Nat
      BY <1>2, <1>6, CountsTyped, PostedNat, TotalNat
    <2>4. client'[c].asked = client[c].asked + 1 /\ client'[c].closed = client[c].closed
          /\ client[c].closed \in Nat
      BY <1>3, <1>4, <1>6, ClientFields
    <2>5. Total(ToldOf(client', e)) = Total(ToldOf(client, e))
      BY <2>2, <2>3, <2>4
    <2>6. Total(AskedOf(client', e)) = Total(AskedOf(client, e)) + Weight(t, e)
      <3>1. Weight(t, e) = (IF client[c].ep = e THEN 1 ELSE 0)
        BY DEF Weight
      <3> DEFINE u == Total(AskedOf(client', e))
                 v == Total(AskedOf(client, e))
                 n == client[c].asked
                 w == Weight(t, e)
      <3>2. u \in Nat
        BY <2>3
      <3>3. v \in Nat
        BY <2>3
      <3>4. n \in Nat
        BY <1>3
      <3>5. CASE client[c].ep = e
        <4>1. u + n = v + client'[c].asked
          BY <2>2, <3>5
        <4>2. client'[c].asked = n + 1
          BY <2>4
        <4>3. w = 1
          BY <3>1, <3>5
        <4> HIDE DEF u, v, n, w
        <4>4. u = v + w
          BY <3>2, <3>3, <3>4, <4>1, <4>2, <4>3
        <4> QED BY <4>4 DEF u, v, w
      <3>6. CASE client[c].ep # e
        <4>1. u + 0 = v + 0
          BY <2>2, <3>6
        <4>2. w = 0
          BY <3>1, <3>6
        <4> HIDE DEF u, v, n, w
        <4>3. u = v + w
          BY <3>2, <3>3, <4>1, <4>2
        <4> QED BY <4>3 DEF u, v, w
      <3> QED BY <3>5, <3>6
    <2>7. Total(ToldOf(client, e)) + Total(PostedOf(strand, e)) <= Total(AskedOf(client, e))
      BY <1>1 DEF Balanced
    <2>8. Weight(t, e) \in Nat
      BY DEF Weight
    <2> QED BY <2>1, <2>3, <2>5, <2>6, <2>7, <2>8 DEF Balanced
  <1> QED BY <1>8, <1>9, <1>10

LEMMA ClientCloseAccounts ==
    ASSUME Base, Accounted, NEW c \in 1..Len(client), ClientClose(c) PROVE Accounted'
  <1> DEFINE t == CloseTask(client[c].ep)
  <1>1. client[c].ep \in Endpoints
    BY Typing, ClientFields DEF Base
  <1>2. t \in Task /\ t.kind = "client_close" /\ t.at = client[c].ep
    BY <1>1, TaskMade DEF CloseTask
  <1>3. /\ client' = [client EXCEPT ![c].asked = @ + 1] /\ strand' = Append(strand, t)
        /\ clients' = clients /\ shut' = shut
    BY DEF ClientClose
  <1> HIDE DEF t
  <1> QED BY <1>2, <1>3, AskingAccounts

LEMMA SendErrorAccounts ==
    ASSUME Base, Lines, Accounted, SendError, Known(ep), Usable(clients[ep]) PROVE Accounted'
  <1> DEFINE t == CloseTask(ep)
             c == clients[ep]
  <1>1. ep \in Endpoints /\ c \in 1..Len(client) /\ client[c].ep = ep
    BY Typing DEF Base, Known, Lines, MapRight
  <1>2. t \in Task /\ t.kind = "client_close" /\ t.at = client[c].ep
    BY <1>1, TaskMade DEF CloseTask
  <1>3. /\ client' = [client EXCEPT ![c].asked = @ + 1]
        /\ strand # <<>> /\ Head(strand).kind = "sent" /\ strand' = Tail(strand) \o <<t>>
        /\ clients' = clients /\ shut' = shut
    BY DEF SendError, SendHandler, Runs
  <1> HIDE DEF t, c
  <1> QED BY <1>1, <1>2, <1>3, AskingAccounts

\* A posted close is answered, by whoever is at the address.
LEMMA ClientCloseImplAccounts ==
    ASSUME Base, Lines, Accounted, ClientCloseImpl PROVE Accounted'
  <1> DEFINE at == Head(strand).at
             c == clients[at]
  <1>1. /\ strand # <<>> /\ Head(strand).kind = "client_close" /\ strand' = Tail(strand) \o <<>>
        /\ shut' = shut
        /\ \/ Known(at)  /\ client' = Told({c}) /\ clients' = [clients EXCEPT ![at] = 0]
           \/ ~Known(at) /\ UNCHANGED <<client, clients>>
    BY DEF ClientCloseImpl, OtherHandler, Runs
  <1> SUFFICES ASSUME ~shut
               PROVE  NoClose' /\ ToldOnce' /\ \A e \in Endpoints : Balanced(e)'
    BY <1>1 DEF Accounted
  <1>2. NoClose /\ ToldOnce /\ \A e \in Endpoints : Balanced(e)
    BY DEF Accounted
  <1>3. /\ strand \in Seq(Task) /\ client \in Seq(ClientType) /\ ServerTyped
        /\ Len(client) \in Nat /\ clients \in [Endpoints -> Nat]
    BY Typing DEF Base, SendInv, SendTyped
  <1>4. Quiet("close")
    BY <1>1 DEF Quiet
  <1>5. NoClose'
    BY <1>2, <1>3, <1>4, NoCloseKept
  <1>6. ASSUME NEW e
        PROVE  /\ Total(PostedOf(strand', e)) + Weight(Head(strand), e) = Total(PostedOf(strand, e))
               /\ Total(PostedOf(strand', e)) \in Nat /\ Total(PostedOf(strand, e)) \in Nat
               /\ Weight(Head(strand), e) = (IF at = e THEN 1 ELSE 0)
    <2>1. Total(PostedOf(strand', e)) + Weight(Head(strand), e) = Total(PostedOf(strand, e))
      BY <1>1, <1>3, PostedRun
    <2>2. strand' \in Seq(Task)
      BY <1>1, <1>3, Running
    <2>3. Total(PostedOf(strand', e)) \in Nat /\ Total(PostedOf(strand, e)) \in Nat
      BY <1>3, <2>2, PostedNat
    <2>4. Weight(Head(strand), e) = (IF at = e THEN 1 ELSE 0)
      BY <1>1 DEF Weight
    <2> QED BY <2>1, <2>3, <2>4
  <1>7. ASSUME NEW e
        PROVE  Total(AskedOf(client, e)) \in Nat /\ Total(ToldOf(client, e)) \in Nat
    BY <1>3, CountsTyped, TotalNat
  <1> HIDE DEF at, c
  <1>8. CASE ~Known(at) /\ UNCHANGED <<client, clients>>
    <2>1. ToldOnce'
      BY <1>2, <1>8 DEF ToldOnce, InMap
    <2>2. ASSUME NEW e \in Endpoints PROVE Balanced(e)'
      <3>1. Total(ToldOf(client, e)) + Total(PostedOf(strand, e)) <= Total(AskedOf(client, e))
        BY <1>2 DEF Balanced
      <3>2. Total(ToldOf(client, e)) + Total(PostedOf(strand', e)) <= Total(AskedOf(client, e))
        BY <1>6, <1>7, <3>1
      <3> QED BY <1>8, <3>2 DEF Balanced
    <2> QED BY <1>5, <2>1, <2>2
  <1>9. CASE Known(at) /\ client' = Told({c}) /\ clients' = [clients EXCEPT ![at] = 0]
    <2>1. at \in Endpoints /\ clients[at] # 0
      BY <1>9 DEF Known
    <2>2. c \in 1..Len(client) /\ client[c].ep = at /\ c # 0
      BY <1>3, <2>1, Typing DEF c, Lines, MapRight
    <2>3. client[c].closed = 0
      BY <1>2, <2>2 DEF ToldOnce, InMap, c
    <2>4. /\ client' \in Seq(ClientType) /\ Len(client') = Len(client)
          /\ \A d \in 1..Len(client) : d # c => client'[d] = client[d]
          /\ client'[c].ep = at /\ client'[c].closed = 1 /\ client'[c].asked = client[c].asked
      <3> DEFINE x == [client[c] EXCEPT !.closed = @ + 1]
      <3>1. client' \in Seq(ClientType) /\ Len(client') = Len(client)
        BY <1>3, <1>9, ToldTyped
      <3>2. \A d \in 1..Len(client) :
               client'[d] = IF d \in {c} THEN [client[d] EXCEPT !.closed = @ + 1] ELSE client[d]
        BY <1>3, <1>9, Typing DEF Told
      <3>3. client'[c] = x /\ \A d \in 1..Len(client) : d # c => client'[d] = client[d]
        BY <2>2, <3>2
      <3>4. client[c] \in ClientType /\ client[c].closed + 1 \in Nat
        BY <1>3, <2>2, <2>3
      <3>5. x.ep = client[c].ep /\ x.closed = client[c].closed + 1 /\ x.asked = client[c].asked
        BY <3>4, ClosedCounted
      <3> HIDE DEF x
      <3> QED BY <2>2, <2>3, <3>1, <3>3, <3>5
    <2>5. ToldOnce'
      <3> SUFFICES ASSUME NEW d \in 1..Len(client)
                   PROVE  client'[d].closed <= 1
                          /\ (clients'[client'[d].ep] = d => client'[d].closed = 0)
        BY <2>4 DEF ToldOnce, InMap
      <3>1. CASE d = c
        BY <1>3, <1>9, <2>1, <2>2, <2>4, <3>1
      <3>2. CASE d # c
        <4>1. client'[d] = client[d] /\ client[d].ep \in Endpoints
          BY <1>3, <2>4, <3>2, Typing, ClientFields
        <4>2. client[d].closed <= 1 /\ (clients[client[d].ep] = d => client[d].closed = 0)
          BY <1>2 DEF ToldOnce, InMap
        <4>3. clients'[client[d].ep] = clients[client[d].ep] \/ clients'[client[d].ep] = 0
          BY <1>3, <1>9, <4>1
        <4>4. d # 0
          BY <1>3
        <4> QED BY <4>1, <4>2, <4>3, <4>4
      <3> QED BY <3>1, <3>2
    <2>6. ASSUME NEW e \in Endpoints PROVE Balanced(e)'
      <3>1. Total(ToldOf(client, e)) + Total(PostedOf(strand, e)) <= Total(AskedOf(client, e))
        BY <1>2 DEF Balanced
      <3>2. client[c].asked \in Nat
        BY <1>3, <2>2, Typing, ClientFields
      <3>3. /\ Total(AskedOf(client', e)) + (IF client[c].ep = e THEN client[c].asked ELSE 0)
                 = Total(AskedOf(client, e)) + (IF client[c].ep = e THEN client'[c].asked ELSE 0)
            /\ Total(ToldOf(client', e)) + (IF client[c].ep = e THEN client[c].closed ELSE 0)
                 = Total(ToldOf(client, e)) + (IF client[c].ep = e THEN client'[c].closed ELSE 0)
        <4>1. /\ client \in Seq(ClientType) /\ client' \in Seq(ClientType)
              /\ Len(client') = Len(client) /\ c \in 1..Len(client)
              /\ client'[c].ep = client[c].ep
              /\ \A d \in 1..Len(client) : d # c => client'[d] = client[d]
          BY <1>3, <2>2, <2>4
        <4> QED BY ONLY <4>1, OneCounted
      <3>4. Total(AskedOf(client', e)) \in Nat /\ Total(ToldOf(client', e)) \in Nat
        BY <2>4, CountsTyped, TotalNat
      <3>5. Total(AskedOf(client', e)) = Total(AskedOf(client, e))
        <4>1. client'[c].asked = client[c].asked /\ Total(AskedOf(client, e)) \in Nat
          BY <1>7, <2>4
        <4>2. (IF client[c].ep = e THEN client[c].asked ELSE 0)
                = (IF client[c].ep = e THEN client'[c].asked ELSE 0)
              /\ (IF client[c].ep = e THEN client[c].asked ELSE 0) \in Nat
          BY <3>2, <4>1
        <4> QED BY ONLY <3>3, <3>4, <4>1, <4>2
      <3>6. Total(ToldOf(client', e)) = Total(ToldOf(client, e)) + (IF at = e THEN 1 ELSE 0)
        <4>1. Total(ToldOf(client, e)) \in Nat
          BY <1>7
        <4>2. client[c].ep = at /\ client[c].closed = 0 /\ client'[c].closed = 1
          BY <2>2, <2>3, <2>4
        <4> QED BY ONLY <3>3, <3>4, <4>1, <4>2
      <3>7. Total(ToldOf(client', e)) + Total(PostedOf(strand', e)) <= Total(AskedOf(client', e))
        BY <1>6, <1>7, <3>1, <3>5, <3>6
      <3> QED BY <3>7 DEF Balanced
    <2> QED BY <1>5, <2>5, <2>6
  <1> QED BY <1>1, <1>8, <1>9

LEMMA AcceptClientAccounts ==
    ASSUME Base, Lines, Accounted, OnData, ~Known(ep), AcceptClient(Head(strand).data)
    PROVE  Accounted'
  <1> DEFINE c == Len(client) + 1
             d == Head(strand).data
             b == Len(heap) + 1
             y == NewClient(ep, b, d)
  <1>1. /\ Runs("received") /\ Head(strand).ok /\ strand' = Tail(strand) \o <<>> /\ ReadFrom
        /\ client' = Append(client, y) /\ clients' = [clients EXCEPT ![ep] = c]
        /\ UNCHANGED <<queue, ops, active, accepted, reported, shut, arrived, failures>>
    BY DEF OnData, AcceptClient, ReadHandler, CacheCreate
  <1> SUFFICES ASSUME ~shut
               PROVE  NoClose' /\ ToldOnce' /\ \A e \in Endpoints : Balanced(e)'
    BY <1>1 DEF Accounted
  <1>2. NoClose /\ ToldOnce /\ \A e \in Endpoints : Balanced(e)
    BY DEF Accounted
  <1>3. /\ strand \in Seq(Task) /\ client \in Seq(ClientType) /\ ServerTyped
        /\ Len(client) \in Nat /\ Len(heap) \in Nat /\ clients \in [Endpoints -> Nat]
        /\ \A e \in Endpoints : clients[e] <= Len(client)
    BY Typing DEF Base, SendInv, SendTyped
  <1>4. d \in Datagram /\ ep \in Endpoints
    BY <1>1, OnDataRecv
  <1>5. b \in Nat
    BY <1>3
  <1> HIDE DEF b, d
  <1>6. y \in ClientType /\ y.ep = ep /\ y.asked = 0 /\ y.closed = 0
    <2>1. IsNew(y, ep, b, d)
      BY <1>4, <1>5, NewClientIs
    <2> QED BY <2>1 DEF IsNew
  <1> HIDE DEF y
  <1>7. /\ client' \in Seq(ClientType) /\ Len(client') = Len(client) + 1
        /\ client'[Len(client) + 1] = y /\ \A f \in 1..Len(client) : client'[f] = client[f]
    BY <1>1, <1>3, <1>6
  <1>8. Quiet("client_close") /\ Quiet("close")
    BY <1>1, RunsQuietly DEF Runs
  <1>9. NoClose'
    BY <1>2, <1>3, <1>8, NoCloseKept
  <1>10. ToldOnce'
    <2> SUFFICES ASSUME NEW f \in 1..(Len(client) + 1)
                 PROVE  client'[f].closed <= 1
                        /\ (clients'[client'[f].ep] = f => client'[f].closed = 0)
      BY <1>7 DEF ToldOnce, InMap
    <2>1. CASE f = Len(client) + 1
      BY <1>6, <1>7, <2>1
    <2>2. CASE f # Len(client) + 1
      <3>1. f \in 1..Len(client) /\ f # c
        BY <1>3, <2>2
      <3>2. client'[f] = client[f] /\ client[f].ep \in Endpoints
        BY <1>3, <1>7, <3>1, Typing, ClientFields
      <3>3. client[f].closed <= 1 /\ (clients[client[f].ep] = f => client[f].closed = 0)
        BY <1>2, <3>1 DEF ToldOnce, InMap
      <3>4. clients'[client[f].ep] = clients[client[f].ep] \/ clients'[client[f].ep] = c
        BY <1>1, <1>3, <3>2
      <3> QED BY <3>1, <3>2, <3>3, <3>4
    <2> QED BY <2>1, <2>2
  <1>11. ASSUME NEW e \in Endpoints PROVE Balanced(e)'
    <2>1. Total(PostedOf(strand', e)) = Total(PostedOf(strand, e))
      BY <1>3, <1>8, PostedQuiet
    <2>2. Total(AskedOf(client', e)) = Total(AskedOf(client, e))
          /\ Total(ToldOf(client', e)) = Total(ToldOf(client, e))
      BY <1>3, <1>6, <1>7, NewCounted
    <2>3. Balanced(e)
      BY <1>2
    <2> QED BY <2>1, <2>2, <2>3 DEF Balanced
  <1> QED BY <1>9, <1>10, <1>11

LEMMA InitAccounted == ASSUME Init PROVE Accounted
  <1>1. strand = <<>> /\ client = <<>> /\ Len(client) = 0 /\ Len(strand) = 0
    BY DEF Init, UdpInit
  <1>2. NoClose /\ ToldOnce
    BY <1>1 DEF NoClose, Tasks, ToldOnce
  <1>3. ASSUME NEW e PROVE Balanced(e)
    <2>1. AskedOf(client, e) = <<>> /\ ToldOf(client, e) = <<>> /\ PostedOf(strand, e) = <<>>
      BY <1>1 DEF AskedOf, ToldOf, PostedOf
    <2> QED BY <2>1, TotalEmpty DEF Balanced
  <1> QED BY <1>2, <1>3 DEF Accounted

LEMMA NextAccounted ==
    ASSUME Base, Lines, Accounted, [Next]_vars
    PROVE  Accounted'
  <1>1. DOMAIN client = 1..Len(client)
    BY Typing DEF Base
  <1>2. CASE \/ UNCHANGED vars \/ Bind \/ StartAccept
             \/ \E c \in 1..Len(client) : ClientWrite(c) \/ ClientRead(c)
    BY <1>2, CallsSteady, SteadyAccounts
  <1>3. CASE Arrive \/ Fail \/ SendSettlesHere
    BY <1>3, NetworkSteady, SteadyAccounts
  <1>4. CASE AcceptorClose
    BY <1>4 DEF AcceptorClose, Accounted
  <1>5. CASE Calls
    BY <1>1, <1>2, <1>4, <1>5 DEF Calls
  <1>6. ASSUME NEW c \in 1..Len(client), ClientClose(c) PROVE Accounted'
    BY <1>6, ClientCloseAccounts
  <1>7. CASE OnData
    <2>1. \/ Known(ep) /\ PushData(clients[ep], Head(strand).data)
          \/ ~Known(ep) /\ AcceptClient(Head(strand).data)
          \/ IgnoreData
      BY <1>7, Zenon DEF OnData
    <2>2. CASE IgnoreData
      BY <1>7, <2>2, HandlersSteady, SteadyAccounts
    <2>3. CASE Known(ep) /\ PushData(clients[ep], Head(strand).data)
      BY <1>7, <2>3, PushPostedSteady, SteadyAccounts
    <2>4. CASE ~Known(ep) /\ AcceptClient(Head(strand).data)
      BY <1>7, <2>4, AcceptClientAccounts
    <2> QED BY <2>1, <2>2, <2>3, <2>4
  <1>8. CASE TransportClose
    <2>1. strand # <<>> /\ Head(strand).kind = "close" /\ shut' = shut
      BY <1>8 DEF TransportClose, CloseImpl, Runs
    <2>2. Tasks("close") # {}
      BY <2>1 DEF Base, SendInv, SendTyped, Tasks
    <2> QED BY <2>1, <2>2 DEF Accounted, NoClose
  <1>9. CASE RunStrand
    <2>1. CASE SetReadImpl
      BY <2>1, SetReadSteady, SteadyAccounts
    <2>2. CASE PushDataImpl
      BY <2>2, PushDataSteady, SteadyAccounts
    <2>3. CASE OnReadError \/ SendDone \/ (WriteToQueue /\ UNCHANGED serverVars)
      BY <2>3, HandlersSteady, SteadyAccounts
    <2>4. CASE SendError
      <3>1. CASE Known(ep) /\ Usable(clients[ep])
        BY <2>4, <3>1, SendErrorAccounts
      <3>2. CASE ~(Known(ep) /\ Usable(clients[ep]))
        BY <2>4, <3>2, HandlersSteady, SteadyAccounts
      <3> QED BY <3>1, <3>2
    <2>5. CASE ClientCloseImpl
      BY <2>5, ClientCloseImplAccounts
    <2> QED BY <1>7, <1>8, <1>9, <2>1, <2>2, <2>3, <2>4, <2>5 DEF RunStrand
  <1>10. CASE Work
    BY <1>1, <1>2, <1>3, <1>9, <1>10 DEF Work
  <1> QED BY <1>1, <1>2, <1>3, <1>5, <1>6, <1>10 DEF Next

\* What the closes are accounted by is what the run says of them.
LEMMA AccountedIs == ASSUME Base, Accounted PROVE CloseAccounted
  <1>1. DOMAIN client = 1..Len(client)
    BY Typing DEF Base
  <1> SUFFICES ASSUME ~shut
               PROVE  /\ \A c \in 1..Len(client) : client[c].closed <= 1
                      /\ \A e \in Endpoints : Total(ToldAt(e)) <= Total(AskedAt(e))
    BY <1>1 DEF CloseAccounted
  <1>2. ToldOnce /\ \A e \in Endpoints : Balanced(e)
    BY DEF Accounted
  <1>3. ASSUME NEW e \in Endpoints PROVE Total(ToldAt(e)) <= Total(AskedAt(e))
    <2>1. ToldAt(e) = ToldOf(client, e) /\ AskedAt(e) = AskedOf(client, e)
      BY DEF ToldAt, AskedAt, ToldOf, AskedOf
    <2>2. client \in Seq(ClientType) /\ strand \in Seq(Task)
      BY Typing DEF Base, SendInv, SendTyped
    <2>3. /\ Total(ToldOf(client, e)) \in Nat /\ Total(AskedOf(client, e)) \in Nat
          /\ Total(PostedOf(strand, e)) \in Nat
      BY <2>2, CountsTyped, PostedNat, TotalNat
    <2>4. Total(ToldOf(client, e)) + Total(PostedOf(strand, e)) <= Total(AskedOf(client, e))
      BY <1>2 DEF Balanced
    <2>5. Total(ToldOf(client, e)) <= Total(AskedOf(client, e))
      BY <2>3, <2>4
    <2> QED BY <2>1, <2>5
  <1> QED BY <1>2, <1>3 DEF ToldOnce

(***************************************************************************)
(* The invariant.                                                            *)
(***************************************************************************)
LEMMA InitInv == Init => Base /\ Lines
  <1> SUFFICES ASSUME Init PROVE Base /\ Lines
    OBVIOUS
  <1>1. /\ client = <<>> /\ heap = <<>> /\ arrived = 0 /\ failures = 0 /\ shut = FALSE
        /\ accepting \in BOOLEAN /\ clients = [e \in Endpoints |-> 0]
        /\ strand = <<>> /\ receiving = FALSE /\ active = TRUE /\ ep = NoEndpoint
    BY DEF Init, UdpInit
  <1>2. \A k : Tasks(k) = {}
    BY <1>1 DEF Tasks
  <1>3. Len(client) = 0 /\ client \in Seq(ClientType) /\ heap \in Seq(Datagram)
    BY <1>1
  <1>4. Len(Traffic) \in Nat /\ MaxFailures \in Nat
    BY TrafficAssumption, ServerBoundsAssumption
  <1>5. ServerTyped
    <2>1. clients \in [Endpoints -> Nat] /\ \A e \in Endpoints : clients[e] = 0
      BY <1>1
    <2>2. receiving \in BOOLEAN /\ active \in BOOLEAN /\ shut \in BOOLEAN
      BY <1>1
    <2> QED BY <1>1, <1>3, <1>4, <2>1, <2>2 DEF ServerTyped
  <1>6. RecvInv /\ ReadsRefer
    BY <1>1, <1>2 DEF RecvInv, OneReceive, InHand, NoneFailed, KeepsListening, ReadsRefer
  <1>7. PushesRefer /\ MapRight /\ ReadsWhenEmpty
    BY <1>1, <1>2, <1>3 DEF PushesRefer, MapRight, ReadsWhenEmpty
  <1>8. LineInv
    BY <1>3 DEF LineInv, Referring, Disjoint, FromPeer, InOrder, AllEarlier, GivenEarlier, CacheBounded
  <1> QED BY <1>5, <1>6, <1>7, <1>8, InitSends DEF Base, Lines

LEMMA NextInv ==
    ASSUME Base, Lines, [Next]_vars
    PROVE  Base' /\ Lines' /\ Losing
  <1>1. DOMAIN client = 1..Len(client)
    BY Typing DEF Base
  <1>2. CASE UNCHANGED vars
    BY <1>2, UnchangedBase, StayingLines
  <1>3. CASE Calls
    <2>1. CASE Bind
      BY <2>1, BindBase, StayingLines
    <2>2. CASE StartAccept
      BY <2>2, StartAcceptBase, StayingLines
    <2>3. CASE AcceptorClose
      BY <2>3, AcceptorCloseBase, StayingLines
    <2>4. ASSUME NEW c \in 1..Len(client), ClientWrite(c) PROVE Base' /\ Lines' /\ Losing
      BY <2>4, ClientWriteBase, StayingLines
    <2> QED BY <1>1, <1>3, <2>1, <2>2, <2>3, <2>4 DEF Calls
  <1>4. ASSUME NEW c \in 1..Len(client), ClientClose(c) PROVE Base' /\ Lines' /\ Losing
    BY <1>4, ClientCloseBase, StayingLines
  <1>5. CASE Arrive
    BY <1>5, ArriveBase, StayingLines
  <1>6. CASE Fail
    BY <1>6, FailBase, StayingLines
  <1>7. CASE SendSettlesHere
    BY <1>7, SendSettlesBase, StayingLines
  <1>8. ASSUME NEW c \in 1..Len(client), ClientRead(c) PROVE Base' /\ Lines' /\ Losing
    BY <1>8, ClientReadBase, StayingLines
  <1>9. CASE OnData
    <2>1. \/ Known(ep) /\ PushData(clients[ep], Head(strand).data)
          \/ ~Known(ep) /\ AcceptClient(Head(strand).data)
          \/ IgnoreData
      BY <1>9, Zenon DEF OnData
    <2>2. CASE IgnoreData
      BY <1>9, <2>2, IgnoreDataBase, StayingLines
    <2> QED BY <1>9, <2>1, <2>2, PushDataInv, AcceptClientInv
  <1>10. CASE RunStrand
    <2>1. CASE SetReadImpl
      BY <2>1, SetReadImplInv
    <2>2. CASE PushDataImpl
      BY <2>2, PushDataImplInv
    <2>3. CASE OnReadError
      BY <2>3, OnReadErrorBase, StayingLines
    <2>4. CASE SendDone
      BY <2>4, SendDoneBase, StayingLines
    <2>5. CASE SendError
      BY <2>5, SendErrorBase, StayingLines
    <2>6. CASE ClientCloseImpl
      BY <2>6, ClientCloseImplBase, StayingLines
    <2>7. CASE TransportClose
      BY <2>7, TransportCloseBase, StayingLines
    <2>8. CASE WriteToQueue /\ UNCHANGED serverVars
      BY <2>8, WriteToQueueBase, StayingLines
    <2> QED BY <1>9, <1>10, <2>1, <2>2, <2>3, <2>4, <2>5, <2>6, <2>7, <2>8 DEF RunStrand
  <1>11. CASE Work
    BY <1>1, <1>7, <1>8, <1>10, <1>11 DEF Work
  <1> QED BY <1>1, <1>2, <1>3, <1>4, <1>5, <1>6, <1>11 DEF Next

\* The state invariants that the parts of the invariant say in other words.
Right == TypeOK /\ BufferInOnePlace /\ DeliveredInOrder /\ Fresh

LEMMA PlacesRight == Base /\ Lines => Right
  BY ByPlaces DEF Base, Lines, Right

LEMMA LosingIs == ASSUME Base, Losing
                  PROVE  \A c \in DOMAIN client :
                            Missing(c)' # Missing(c) => Len(client[c].queue) >= MaxCache \/ ~Alive(c)
  BY Typing DEF Base, Losing

\* In every reachable state the sending and the receiving side of the server, and
\* the places of the buffers of its clients, are as IInv says, which is inductive.
THEOREM Invariance == Spec => []IInv
  <1>1. Init => Base /\ Lines
    BY InitInv
  <1>2. Base /\ Lines /\ [Next]_vars => Base' /\ Lines'
    BY NextInv
  <1>3. Base /\ Lines => IInv
    BY PlacesRight DEF Right, Lines, IInv
  <1> QED BY <1>1, <1>2, <1>3, PTL DEF Spec

\* One datagram is on the socket at a time, the one at the front of the queue, and
\* each datagram given to write_to() is posted, queued or reported in the order of
\* the calls: the write queue of the transport, on an open or a closed socket.
THEOREM SendsEachInOrder == Spec => []SendsInOrder
  <1>1. IInv => SendsInOrder
    BY SendInvImplies DEF IInv, Base
  <1> QED BY <1>1, Invariance, PTL

\* From bind() on a receive is pending or its handler is on the strand, as long as
\* no receive has failed: accept_delegate::on_data renews it on each of its ways.
THEOREM ListensOn == Spec => []KeepsListening
  <1>1. IInv => KeepsListening
    BY DEF IInv, Base, RecvInv
  <1> QED BY <1>1, Invariance, PTL

\* Each client gets what its own peer sent, in order, once, from buffers that are
\* in one place, and all but what came when as many as may wait were waiting:
\* accept_delegate::on_data, push_data_impl, set_read_impl and the buffer cache.
THEOREM ClientsReceiveInOrder == Spec => ReceivesInOrder
  <1>1. Init => Base /\ Lines
    BY InitInv
  <1>2. Base /\ Lines /\ [Next]_vars => Base' /\ Lines'
    BY NextInv
  <1>3. Base /\ Lines => TypeOK /\ DeliveredInOrder /\ BufferInOnePlace
    BY PlacesRight DEF Right
  <1>4. Base /\ Lines /\ [Next]_vars =>
          [ \A c \in DOMAIN client :
              Missing(c)' # Missing(c) => Len(client[c].queue) >= MaxCache \/ ~Alive(c) ]_vars
    BY NextInv, LosingIs
  <1> QED BY <1>1, <1>2, <1>3, <1>4, PTL DEF Spec, ReceivesInOrder, LostOnlyWhenFull

\* While the acceptor is open a client is told on_close at most once, and a peer's
\* clients are told no more often than they asked: close_impl finds a client by the
\* address of the posted close, and takes it out of the map.
THEOREM ClosesAreAccounted == Spec => []CloseAccounted
  <1>1. Init => Base /\ Lines /\ Accounted
    BY InitInv, InitAccounted
  <1>2. Base /\ Lines /\ Accounted /\ [Next]_vars => Base' /\ Lines' /\ Accounted'
    BY NextInv, NextAccounted
  <1>3. Base /\ Lines /\ Accounted => CloseAccounted
    BY AccountedIs
  <1> QED BY <1>1, <1>2, <1>3, PTL DEF Spec
=============================================================================
