---------------------------- MODULE Tunnel_proofs ----------------------------
(***************************************************************************)
(* Proofs about Tunnel, for any number of clients and packets of any length: *)
(* each device is given what is due to it, in order and without a gap, and    *)
(* every point_iface implements the channel of WriteChannel.                  *)
(***************************************************************************)
EXTENDS Tunnel, TLAPS

(***************************************************************************)
(* Packets and messages.                                                     *)
(***************************************************************************)
LEMMA PacketIs ==
    /\ \A d \in Points : Reads[d] \in Nat
    /\ \A d \in Points : \A i \in 1..Reads[d] : <<d, i>> \in Packets
    /\ \A p \in Packets : p[1] \in Points /\ p[2] \in 1..Reads[p[1]] /\ p = <<p[1], p[2]>>
  BY BoundsAssumption DEF Packets

LEMMA MessageIs ==
    /\ Command \in Message /\ Command.tag = "TAG_COMMAND"
    /\ \A p \in Packets : Data(p) \in Message
    /\ \A p : Data(p).tag = "TAG_DATA" /\ Data(p).packet = p /\ Data(p) # Command
    /\ \A m \in Message : m = Command \/ \E p \in Packets : m = Data(p)
  BY DEF Message, Data, Command

LEMMA Updated ==
    ASSUME NEW D, NEW R, NEW f \in [D -> R], NEW x \in D, NEW y \in R
    PROVE  /\ [f EXCEPT ![x] = y] \in [D -> R] /\ [f EXCEPT ![x] = y][x] = y
           /\ \A z \in D : z # x => [f EXCEPT ![x] = y][z] = f[z]
  OBVIOUS

LEMMA EmptySeq ==
    ASSUME NEW S, NEW s \in Seq(S)
    PROVE  s = <<>> <=> Len(s) = 0
  OBVIOUS

\* The shapes of the sequences that the steps make.
LEMMA Pushed ==
    ASSUME NEW S, NEW s \in Seq(S), NEW x \in S
    PROVE  /\ Append(s, x) \in Seq(S) /\ Len(Append(s, x)) = Len(s) + 1 /\ Len(s) \in Nat
           /\ \A i \in 1..Len(s) : Append(s, x)[i] = s[i]
           /\ Append(s, x)[Len(s) + 1] = x
  OBVIOUS

LEMMA Popped ==
    ASSUME NEW S, NEW s \in Seq(S), s # <<>>
    PROVE  /\ Tail(s) \in Seq(S) /\ Len(Tail(s)) = Len(s) - 1 /\ Len(s) \in Nat /\ Len(s) > 0
           /\ Head(s) = s[1] /\ s[1] \in S
           /\ \A i \in 1..Len(Tail(s)) : Tail(s)[i] = s[i + 1]
           /\ Tail(s) = <<>> <=> Len(s) = 1
  <1>1. Tail(s) \in Seq(S) /\ Len(Tail(s)) = Len(s) - 1 /\ Len(s) \in Nat /\ Len(s) > 0
    OBVIOUS
  <1>2. Head(s) = s[1] /\ s[1] \in S /\ \A i \in 1..Len(Tail(s)) : Tail(s)[i] = s[i + 1]
    OBVIOUS
  <1>3. \A n \in Nat : n - 1 = 0 <=> n = 1
    OBVIOUS
  <1>4. Tail(s) = <<>> <=> Len(Tail(s)) = 0
    BY <1>1, EmptySeq, Zenon
  <1>5. Tail(s) = <<>> <=> Len(s) = 1
    BY <1>1, <1>3, <1>4, Zenon
  <1> QED BY <1>1, <1>2, <1>5

(***************************************************************************)
(* A device.  Its packets are settled, queued or posted, one after the other  *)
(* in the order they were given, and the first of the queue is being written. *)
(***************************************************************************)
Report == [msg : Packets, ok : BOOLEAN]

PointTyped ==
    /\ posted \in [Points -> Seq(Packets)] /\ queue \in [Points -> Seq(Packets)]
    /\ given \in [Points -> Seq(Packets)] /\ settled \in [Points -> Seq(Report)]
    /\ total \in [Points -> Int] /\ bytes \in [Points -> Int]
    /\ out \in [Points -> Seq(Packets \X Nat)]

\* The operation on a device whose packets have length l, with the queue q:
\* it began at t, and the device took b.
IsOperation(t, b, q, l) ==
    /\ t = NoOp \/ (t \in Nat /\ t < l)
    /\ t = NoOp <=> q = <<>>
    /\ b = NoOp \/ (b \in Nat /\ b > 0 /\ t # NoOp /\ t + b <= l)

\* The packets g: settled ones (s of them), then the queue q, then the posted p.
IsLine(g, s, q, p) ==
    /\ Len(g) = s + Len(q) + Len(p)
    /\ \A i \in 1..Len(q) : q[i] = g[s + i]
    /\ \A i \in 1..Len(p) : p[i] = g[s + Len(q) + i]

Operation(d) == IsOperation(total[d], bytes[d], queue[d], Length[d])
InLine(d) == IsLine(given[d], Len(settled[d]), queue[d], posted[d])

PointInv == PointTyped /\ \A d \in Points : Operation(d) /\ InLine(d)

\* How much of its packet device d has taken.
Sent(d) == IF total[d] = NoOp THEN 0
           ELSE IF bytes[d] = NoOp THEN total[d] ELSE total[d] + bytes[d]

\* What device d does is a step of its channel.
Moves(d) == UNCHANGED Channel(d)!channelVars \/ Channel(d)!Next

LEMMA PointTypes ==
    ASSUME PointTyped, NEW d \in Points
    PROVE  /\ posted[d] \in Seq(Packets) /\ queue[d] \in Seq(Packets) /\ given[d] \in Seq(Packets)
           /\ settled[d] \in Seq(Report) /\ total[d] \in Int /\ bytes[d] \in Int
           /\ out[d] \in Seq(Packets \X Nat)
           /\ Len(posted[d]) \in Nat /\ Len(queue[d]) \in Nat /\ Len(given[d]) \in Nat
           /\ Len(settled[d]) \in Nat /\ Length[d] \in Nat /\ Length[d] > 0
  BY LengthAssumption DEF PointTyped

LEMMA NoOpIs == NoOp \in Int /\ NoOp \notin Nat /\ NoOp = 0 - 1
  BY DEF NoOp

LEMMA PostsInLine ==
    ASSUME NEW S, NEW g \in Seq(S), NEW s \in Nat, NEW q \in Seq(S), NEW p \in Seq(S),
           NEW x \in S, IsLine(g, s, q, p)
    PROVE  IsLine(Append(g, x), s, q, Append(p, x))
  <1>1. /\ Len(Append(g, x)) = Len(g) + 1 /\ Len(Append(p, x)) = Len(p) + 1
        /\ Len(g) \in Nat /\ Len(p) \in Nat /\ Len(q) \in Nat
        /\ \A i \in 1..Len(g) : Append(g, x)[i] = g[i]
        /\ \A i \in 1..Len(p) : Append(p, x)[i] = p[i]
        /\ Append(g, x)[Len(g) + 1] = x /\ Append(p, x)[Len(p) + 1] = x
    BY Pushed
  <1>2. /\ Len(g) = s + Len(q) + Len(p)
        /\ \A i \in 1..Len(q) : q[i] = g[s + i]
        /\ \A i \in 1..Len(p) : p[i] = g[s + Len(q) + i]
    BY DEF IsLine
  <1>3. \A i \in 1..Len(q) : q[i] = Append(g, x)[s + i]
    BY <1>1, <1>2
  <1>4. \A i \in 1..Len(Append(p, x)) : Append(p, x)[i] = Append(g, x)[s + Len(q) + i]
    <2>1. ASSUME NEW i \in 1..Len(Append(p, x)), i <= Len(p)
          PROVE  Append(p, x)[i] = Append(g, x)[s + Len(q) + i]
      <3>1. i \in 1..Len(p) /\ s + Len(q) + i \in 1..Len(g)
        BY <1>1, <1>2, <2>1
      <3> QED BY <1>1, <1>2, <3>1
    <2>2. \A i \in 1..Len(Append(p, x)) : i <= Len(p) \/ i = Len(p) + 1
      BY <1>1
    <2>3. Append(p, x)[Len(p) + 1] = Append(g, x)[s + Len(q) + (Len(p) + 1)]
      <3>1. s + Len(q) + (Len(p) + 1) = Len(g) + 1
        BY <1>1, <1>2
      <3> QED BY <1>1, <3>1
    <2> QED BY <2>1, <2>2, <2>3
  <1>5. Len(Append(g, x)) = s + Len(q) + Len(Append(p, x))
    BY <1>1, <1>2
  <1> QED BY <1>3, <1>4, <1>5 DEF IsLine

LEMMA StartsInLine ==
    ASSUME NEW S, NEW g \in Seq(S), NEW s \in Nat, NEW q \in Seq(S), NEW p \in Seq(S),
           p # <<>>, IsLine(g, s, q, p)
    PROVE  IsLine(g, s, Append(q, Head(p)), Tail(p))
  <1>1. /\ Len(Tail(p)) = Len(p) - 1 /\ Len(p) \in Nat /\ Len(p) > 0 /\ Head(p) = p[1] /\ p[1] \in S
        /\ \A i \in 1..Len(Tail(p)) : Tail(p)[i] = p[i + 1]
    BY Popped
  <1>2. /\ Len(Append(q, Head(p))) = Len(q) + 1 /\ Len(q) \in Nat /\ Len(g) \in Nat
        /\ \A i \in 1..Len(q) : Append(q, Head(p))[i] = q[i]
        /\ Append(q, Head(p))[Len(q) + 1] = p[1]
    BY <1>1, Pushed
  <1>3. /\ Len(g) = s + Len(q) + Len(p)
        /\ \A i \in 1..Len(q) : q[i] = g[s + i]
        /\ \A i \in 1..Len(p) : p[i] = g[s + Len(q) + i]
    BY DEF IsLine
  <1>4. \A i \in 1..Len(Append(q, Head(p))) : Append(q, Head(p))[i] = g[s + i]
    <2>1. p[1] = g[s + Len(q) + 1] /\ s + Len(q) + 1 = s + (Len(q) + 1)
      BY <1>1, <1>2, <1>3
    <2>2. \A i \in 1..Len(Append(q, Head(p))) : i \in 1..Len(q) \/ i = Len(q) + 1
      BY <1>2
    <2> QED BY <1>2, <1>3, <2>1, <2>2
  <1>5. ASSUME NEW i \in 1..Len(Tail(p))
        PROVE  Tail(p)[i] = g[s + Len(Append(q, Head(p))) + i]
    <2>1. i + 1 \in 1..Len(p) /\ s + Len(q) + (i + 1) = s + Len(Append(q, Head(p))) + i
      BY <1>1, <1>2
    <2> QED BY <1>1, <1>3, <2>1
  <1>6. Len(g) = s + Len(Append(q, Head(p))) + Len(Tail(p))
    BY <1>1, <1>2, <1>3
  <1> QED BY <1>4, <1>5, <1>6 DEF IsLine

LEMMA SettlesInLine ==
    ASSUME NEW S, NEW g \in Seq(S), NEW s \in Nat, NEW q \in Seq(S), NEW p \in Seq(S),
           q # <<>>, IsLine(g, s, q, p)
    PROVE  IsLine(g, s + 1, Tail(q), p)
  <1>1. /\ Len(Tail(q)) = Len(q) - 1 /\ Len(q) \in Nat /\ Len(q) > 0 /\ Len(p) \in Nat
        /\ \A i \in 1..Len(Tail(q)) : Tail(q)[i] = q[i + 1]
    BY Popped
  <1>2. /\ Len(g) = s + Len(q) + Len(p)
        /\ \A i \in 1..Len(q) : q[i] = g[s + i]
        /\ \A i \in 1..Len(p) : p[i] = g[s + Len(q) + i]
    BY DEF IsLine
  <1>3. ASSUME NEW i \in 1..Len(Tail(q)) PROVE Tail(q)[i] = g[(s + 1) + i]
    <2>1. i + 1 \in 1..Len(q) /\ s + (i + 1) = (s + 1) + i
      BY <1>1
    <2> QED BY <1>1, <1>2, <2>1
  <1>4. s + Len(q) = (s + 1) + Len(Tail(q))
    BY <1>1
  <1>5. Len(g) = (s + 1) + Len(Tail(q)) + Len(p)
    BY <1>1, <1>2, <1>4
  <1>6. ASSUME NEW i \in 1..Len(p) PROVE p[i] = g[(s + 1) + Len(Tail(q)) + i]
    BY <1>2, <1>4
  <1> QED BY <1>3, <1>5, <1>6 DEF IsLine

LEMMA FrontOfLine ==
    ASSUME NEW S, NEW g \in Seq(S), NEW s \in Nat, NEW q \in Seq(S), NEW p \in Seq(S),
           q # <<>>, IsLine(g, s, q, p)
    PROVE  s < Len(g) /\ Head(q) = g[s + 1] /\ Head(q) \in S
  <1>1. Len(q) \in Nat /\ Len(q) > 0 /\ Head(q) = q[1] /\ q[1] \in S /\ Len(p) \in Nat
    BY Popped
  <1>2. Len(g) = s + Len(q) + Len(p) /\ \A i \in 1..Len(q) : q[i] = g[s + i]
    BY DEF IsLine
  <1> QED BY <1>1, <1>2

\* Nothing but the variables of device d changes.
Only(d) ==
    \A e \in Points : e # d =>
        /\ posted'[e] = posted[e] /\ queue'[e] = queue[e] /\ total'[e] = total[e]
        /\ bytes'[e] = bytes[e] /\ given'[e] = given[e] /\ settled'[e] = settled[e]
        /\ out'[e] = out[e]

LEMMA OnlyKeeps ==
    ASSUME PointInv, PointTyped', NEW d \in Points, Only(d), Operation(d)', InLine(d)', Moves(d)
    PROVE  PointInv' /\ \A e \in Points : Moves(e)
  <1>1. ASSUME NEW e \in Points, e # d PROVE Operation(e)' /\ InLine(e)'
    <2>1. Operation(e) /\ InLine(e)
      BY DEF PointInv
    <2>2. /\ posted'[e] = posted[e] /\ queue'[e] = queue[e] /\ total'[e] = total[e]
          /\ bytes'[e] = bytes[e] /\ given'[e] = given[e] /\ settled'[e] = settled[e]
      BY <1>1 DEF Only
    <2> QED BY <2>1, <2>2 DEF Operation, InLine
  <1>2. ASSUME NEW e \in Points, e # d PROVE Moves(e)
    <2>1. /\ total'[e] = total[e] /\ bytes'[e] = bytes[e] /\ given'[e] = given[e]
          /\ settled'[e] = settled[e] /\ out'[e] = out[e]
      BY <1>2 DEF Only
    <2> QED BY <2>1 DEF Moves, Channel!channelVars
  <1> QED BY <1>1, <1>2 DEF PointInv

\* The channel of a device and the packet that is written.
LEMMA CurrentIs ==
    ASSUME PointInv, NEW d \in Points, queue[d] # <<>>
    PROVE  /\ Channel(d)!HasCurrent /\ Channel(d)!Current = Head(queue[d])
           /\ Head(queue[d]) \in Packets
           /\ [p \in Packets |-> Length[d]][Head(queue[d])] = Length[d]
  <1>1. /\ given[d] \in Seq(Packets) /\ queue[d] \in Seq(Packets) /\ posted[d] \in Seq(Packets)
        /\ Len(settled[d]) \in Nat
    BY PointTypes DEF PointInv
  <1>2. IsLine(given[d], Len(settled[d]), queue[d], posted[d])
    BY DEF PointInv, InLine
  <1>3. /\ Len(settled[d]) < Len(given[d]) /\ Head(queue[d]) = given[d][Len(settled[d]) + 1]
        /\ Head(queue[d]) \in Packets
    BY <1>1, <1>2, FrontOfLine
  <1> QED BY <1>3 DEF Channel!HasCurrent, Channel!Current

(***************************************************************************)
(* The steps of a device.                                                    *)
(***************************************************************************)
LEMMA PostWriteMoves ==
    ASSUME PointInv, NEW d \in Points, NEW p \in Packets, PostWrite(d, p),
           \A i \in 1..Len(given[d]) : given[d][i] # p
    PROVE  PointInv' /\ \A e \in Points : Moves(e)
  <1>1. /\ posted' = [posted EXCEPT ![d] = Append(@, p)]
        /\ given' = [given EXCEPT ![d] = Append(@, p)]
        /\ queue' = queue /\ total' = total /\ bytes' = bytes /\ settled' = settled /\ out' = out
    BY DEF PostWrite
  <1>2. PointTyped
    BY DEF PointInv
  <1>3. /\ posted[d] \in Seq(Packets) /\ queue[d] \in Seq(Packets) /\ given[d] \in Seq(Packets)
        /\ Len(settled[d]) \in Nat
    BY <1>2, PointTypes
  <1>4. Append(posted[d], p) \in Seq(Packets) /\ Append(given[d], p) \in Seq(Packets)
    BY <1>3, Pushed
  <1>5. posted'[d] = Append(posted[d], p) /\ given'[d] = Append(given[d], p)
    BY <1>1, <1>2 DEF PointTyped
  <1>6. PointTyped'
    BY <1>1, <1>2, <1>4 DEF PointTyped
  <1>7. Only(d)
    BY <1>1, <1>2 DEF Only, PointTyped
  <1>8. Operation(d)'
    BY <1>1 DEF PointInv, Operation
  <1>9. IsLine(Append(given[d], p), Len(settled[d]), queue[d], Append(posted[d], p))
    <2>1. IsLine(given[d], Len(settled[d]), queue[d], posted[d])
      BY DEF PointInv, InLine
    <2> QED BY <1>3, <2>1, PostsInLine
  <1>10. InLine(d)'
    BY <1>1, <1>5, <1>9 DEF InLine
  <1>11. Moves(d)
    <2>1. Channel(d)!Accept(p)
      BY <1>1, <1>5 DEF Channel!Accept
    <2> QED BY <2>1 DEF Moves, Channel!Next
  <1> QED BY <1>6, <1>7, <1>8, <1>10, <1>11, OnlyKeeps

LEMMA WriteImplMoves ==
    ASSUME PointInv, NEW d \in Points, WriteImpl(d)
    PROVE  PointInv' /\ \A e \in Points : Moves(e)
  <1>1. /\ posted[d] # <<>>
        /\ posted' = [posted EXCEPT ![d] = Tail(@)]
        /\ queue' = [queue EXCEPT ![d] = Append(@, Head(posted[d]))]
        /\ total' = [total EXCEPT ![d] = IF queue[d] = <<>> THEN 0 ELSE @]
        /\ bytes' = bytes /\ given' = given /\ settled' = settled /\ out' = out
    BY DEF WriteImpl
  <1>2. PointTyped
    BY DEF PointInv
  <1>3. /\ posted[d] \in Seq(Packets) /\ queue[d] \in Seq(Packets) /\ given[d] \in Seq(Packets)
        /\ Len(settled[d]) \in Nat /\ total[d] \in Int /\ Length[d] \in Nat /\ Length[d] > 0
    BY <1>2, PointTypes
  <1>4. /\ Tail(posted[d]) \in Seq(Packets) /\ Append(queue[d], Head(posted[d])) \in Seq(Packets)
        /\ Append(queue[d], Head(posted[d])) # <<>>
    <2>1. Tail(posted[d]) \in Seq(Packets) /\ Head(posted[d]) \in Packets
      BY <1>1, <1>3, Popped
    <2> QED BY <1>3, <2>1
  <1>5. /\ posted'[d] = Tail(posted[d]) /\ queue'[d] = Append(queue[d], Head(posted[d]))
        /\ total'[d] = IF queue[d] = <<>> THEN 0 ELSE total[d]
    BY <1>1, <1>2 DEF PointTyped
  <1>6. PointTyped'
    <2>1. (IF queue[d] = <<>> THEN 0 ELSE total[d]) \in Int
      BY <1>3
    <2> QED BY <1>1, <1>2, <1>4, <2>1 DEF PointTyped
  <1>7. Only(d)
    BY <1>1, <1>2 DEF Only, PointTyped
  <1>8. IsOperation(total[d], bytes[d], queue[d], Length[d])
    BY DEF PointInv, Operation
  <1>9. Operation(d)'
    <2>1. bytes'[d] = bytes[d]
      BY <1>1
    <2> QED BY <1>3, <1>4, <1>5, <1>8, <2>1, NoOpIs DEF Operation, IsOperation
  <1>10. InLine(d)'
    <2>1. IsLine(given[d], Len(settled[d]), queue[d], posted[d])
      BY DEF PointInv, InLine
    <2>2. IsLine(given[d], Len(settled[d]), Append(queue[d], Head(posted[d])), Tail(posted[d]))
      BY <1>1, <1>3, <2>1, StartsInLine
    <2> QED BY <1>1, <1>5, <2>2 DEF InLine
  <1>11. Moves(d)
    <2>1. Sent(d)' = Sent(d)
      <3>1. bytes'[d] = bytes[d] /\ (total[d] = NoOp => bytes[d] = NoOp)
        BY <1>1, <1>8 DEF IsOperation
      <3> QED BY <1>5, <1>8, <3>1, NoOpIs DEF Sent, IsOperation
    <2>2. UNCHANGED <<given[d], settled[d], out[d], Sent(d)>>
      BY <1>1, <2>1
    <2> QED BY <2>2 DEF Moves, Channel!channelVars, Sent
  <1> QED BY <1>6, <1>7, <1>9, <1>10, <1>11, OnlyKeeps

LEMMA TakeMoves ==
    ASSUME PointInv, NEW d \in Points, NEW n \in 1..Length[d], Take(d, n)
    PROVE  PointInv' /\ \A e \in Points : Moves(e)
  <1> DEFINE taken1 == [k \in 1..n |-> <<Head(queue[d]), total[d] + k>>]
  <1>1. /\ total[d] # NoOp /\ bytes[d] = NoOp /\ total[d] + n <= Length[d]
        /\ out' = [out EXCEPT ![d] = @ \o taken1]
        /\ bytes' = [bytes EXCEPT ![d] = n]
        /\ posted' = posted /\ queue' = queue /\ total' = total /\ given' = given
        /\ settled' = settled
    BY DEF Take, InFlight
  <1>2. PointTyped
    BY DEF PointInv
  <1>3. /\ queue[d] \in Seq(Packets) /\ out[d] \in Seq(Packets \X Nat) /\ total[d] \in Int
        /\ Length[d] \in Nat /\ Length[d] > 0
    BY <1>2, PointTypes
  <1>4. IsOperation(total[d], bytes[d], queue[d], Length[d])
    BY DEF PointInv, Operation
  <1>5. total[d] \in Nat /\ queue[d] # <<>> /\ n \in Nat /\ n > 0
    BY <1>1, <1>3, <1>4 DEF IsOperation
  <1>6. /\ Channel(d)!HasCurrent /\ Channel(d)!Current = Head(queue[d])
        /\ Head(queue[d]) \in Packets
        /\ [p \in Packets |-> Length[d]][Head(queue[d])] = Length[d]
    BY <1>5, CurrentIs
  <1>7. taken1 \in Seq(Packets \X Nat)
    <2>1. \A k \in 1..n : <<Head(queue[d]), total[d] + k>> \in Packets \X Nat
      BY <1>5, <1>6
    <2>2. taken1 \in [1..n -> Packets \X Nat]
      BY <2>1
    <2> QED BY <1>5, <2>2
  <1>8. out[d] \o taken1 \in Seq(Packets \X Nat)
    <2> HIDE DEF taken1
    <2> QED BY <1>3, <1>7
  <1>9. out'[d] = out[d] \o taken1 /\ bytes'[d] = n /\ total'[d] = total[d]
    BY <1>1, <1>2 DEF PointTyped
  <1>10. PointTyped'
    <2> HIDE DEF taken1
    <2>1. out \in [Points -> Seq(Packets \X Nat)] /\ bytes \in [Points -> Int] /\ n \in Int
      BY <1>2, <1>5 DEF PointTyped
    <2>2. out' \in [Points -> Seq(Packets \X Nat)]
      BY <1>1, <1>8, <2>1, Updated, Zenon
    <2>3. bytes' \in [Points -> Int]
      BY <1>1, <2>1
    <2> QED BY <1>1, <1>2, <2>2, <2>3 DEF PointTyped
  <1>11. Only(d)
    BY <1>1, <1>2 DEF Only, PointTyped
  <1>12. Operation(d)'
    <2>1. queue'[d] = queue[d]
      BY <1>1
    <2>2. IsOperation(total[d], n, queue[d], Length[d])
      BY <1>1, <1>4, <1>5 DEF IsOperation
    <2> QED BY <1>9, <2>1, <2>2 DEF Operation
  <1>13. InLine(d)'
    BY <1>1 DEF PointInv, InLine
  <1>14. Moves(d)
    <2>1. Sent(d) = total[d] /\ Sent(d)' = total[d] + n
      <3>1. n # NoOp
        BY <1>5, NoOpIs
      <3> QED BY <1>1, <1>9, <3>1 DEF Sent
    <2>2. Channel(d)!Transmit(n)
      <3>1. Sent(d) + n <= [p \in Packets |-> Length[d]][Channel(d)!Current]
        BY <1>1, <1>6, <2>1
      <3>2. out'[d] = out[d] \o [k \in 1..n |-> <<Channel(d)!Current, Sent(d) + k>>]
        BY <1>6, <1>9, <2>1
      <3>3. Sent(d)' = Sent(d) + n /\ given'[d] = given[d] /\ settled'[d] = settled[d]
        BY <1>1, <2>1
      <3> HIDE DEF taken1
      <3> QED BY <1>6, <3>1, <3>2, <3>3 DEF Channel!Transmit, Sent
    <2>3. n \in 1..([p \in Packets |-> Length[d]][Channel(d)!Current])
      BY <1>6
    <2> QED BY <1>6, <2>2, <2>3 DEF Moves, Channel!Next
  <1> QED BY <1>10, <1>11, <1>12, <1>13, <1>14, OnlyKeeps

\* The front packet is reported: with ok, only when the device has taken it all.
LEMMA SettleMoves ==
    ASSUME PointInv, NEW d \in Points, NEW ok \in BOOLEAN, queue[d] # <<>>, Settle(d, ok),
           ok => Sent(d) = Length[d],
           bytes' \in [Points -> Int], \A e \in Points : e # d => bytes'[e] = bytes[e],
           bytes'[d] = NoOp, posted' = posted, given' = given, out' = out
    PROVE  PointInv' /\ \A e \in Points : Moves(e)
  <1>1. /\ settled' = [settled EXCEPT ![d] = Append(@, [msg |-> Head(queue[d]), ok |-> ok])]
        /\ queue' = [queue EXCEPT ![d] = Tail(@)]
        /\ total' = [total EXCEPT ![d] = IF Len(queue[d]) > 1 THEN 0 ELSE NoOp]
    BY DEF Settle
  <1>2. PointTyped
    BY DEF PointInv
  <1>3. /\ posted[d] \in Seq(Packets) /\ queue[d] \in Seq(Packets) /\ given[d] \in Seq(Packets)
        /\ settled[d] \in Seq(Report) /\ Len(settled[d]) \in Nat
        /\ Length[d] \in Nat /\ Length[d] > 0
    BY <1>2, PointTypes
  <1>4. /\ Channel(d)!HasCurrent /\ Channel(d)!Current = Head(queue[d])
        /\ Head(queue[d]) \in Packets
        /\ [p \in Packets |-> Length[d]][Head(queue[d])] = Length[d]
    BY CurrentIs
  <1>5. /\ Tail(queue[d]) \in Seq(Packets) /\ Len(queue[d]) \in Nat /\ Len(queue[d]) > 0
        /\ Tail(queue[d]) = <<>> <=> Len(queue[d]) = 1
    BY <1>3, Popped
  <1>6. [msg |-> Head(queue[d]), ok |-> ok] \in Report
    BY <1>4 DEF Report
  <1>7. /\ Append(settled[d], [msg |-> Head(queue[d]), ok |-> ok]) \in Seq(Report)
        /\ Len(Append(settled[d], [msg |-> Head(queue[d]), ok |-> ok])) = Len(settled[d]) + 1
    BY <1>3, <1>6, Pushed
  <1>8. /\ settled'[d] = Append(settled[d], [msg |-> Head(queue[d]), ok |-> ok])
        /\ queue'[d] = Tail(queue[d])
        /\ total'[d] = IF Len(queue[d]) > 1 THEN 0 ELSE NoOp
    BY <1>1, <1>2 DEF PointTyped
  <1>9. PointTyped'
    <2>1. (IF Len(queue[d]) > 1 THEN 0 ELSE NoOp) \in Int
      BY NoOpIs
    <2> QED BY <1>1, <1>2, <1>5, <1>7, <2>1 DEF PointTyped
  <1>10. Only(d)
    BY <1>1, <1>2 DEF Only, PointTyped
  <1>11. Operation(d)'
    <2>1. IsOperation(total'[d], NoOp, queue'[d], Length[d])
      <3>1. CASE Len(queue[d]) > 1
        <4>1. total'[d] = 0
          BY <1>8, <3>1
        <4>2. \A k \in Nat : k > 1 => k # 1
          OBVIOUS
        <4>3. queue'[d] # <<>>
          BY <1>5, <1>8, <3>1, <4>2, Zenon
        <4>4. 0 # NoOp
          BY NoOpIs
        <4> QED BY <1>3, <4>1, <4>3, <4>4 DEF IsOperation
      <3>2. CASE ~(Len(queue[d]) > 1)
        <4>1. total'[d] = NoOp /\ queue'[d] = <<>>
          BY <1>5, <1>8, <3>2
        <4> QED BY <4>1 DEF IsOperation
      <3> QED BY <3>1, <3>2
    <2> QED BY <2>1 DEF Operation
  <1>12. InLine(d)'
    <2>1. IsLine(given[d], Len(settled[d]), queue[d], posted[d])
      BY DEF PointInv, InLine
    <2>2. IsLine(given[d], Len(settled[d]) + 1, Tail(queue[d]), posted[d])
      BY <1>3, <2>1, SettlesInLine
    <2> QED BY <1>7, <1>8, <2>2 DEF InLine
  <1>13. Moves(d)
    <2>1. Sent(d)' = 0
      BY <1>8 DEF Sent
    <2>2. Channel(d)!Report(ok)
      <3>1. ok => Sent(d) = [p \in Packets |-> Length[d]][Channel(d)!Current]
        BY <1>4
      <3>2. settled'[d] = Append(settled[d], [msg |-> Channel(d)!Current, ok |-> ok])
        BY <1>4, <1>8
      <3> QED BY <1>4, <2>1, <3>1, <3>2 DEF Channel!Report, Sent
    <2> QED BY <2>2 DEF Moves, Channel!Next
  <1> QED BY <1>9, <1>10, <1>11, <1>12, <1>13, OnlyKeeps

LEMMA WriteHandlerMoves ==
    ASSUME PointInv, NEW d \in Points, WriteHandler(d)
    PROVE  PointInv' /\ \A e \in Points : Moves(e)
  <1>1. /\ bytes[d] # NoOp /\ bytes' = [bytes EXCEPT ![d] = NoOp]
        /\ posted' = posted /\ given' = given /\ out' = out
    BY DEF WriteHandler
  <1>2. PointTyped
    BY DEF PointInv
  <1>3. /\ total[d] \in Int /\ bytes[d] \in Int /\ Length[d] \in Nat /\ Length[d] > 0
    BY <1>2, PointTypes
  <1>4. IsOperation(total[d], bytes[d], queue[d], Length[d])
    BY DEF PointInv, Operation
  <1>5. /\ total[d] \in Nat /\ bytes[d] \in Nat /\ bytes[d] > 0 /\ queue[d] # <<>>
        /\ total[d] + bytes[d] <= Length[d] /\ Sent(d) = total[d] + bytes[d] /\ total[d] # NoOp
    BY <1>1, <1>4 DEF IsOperation, Sent
  <1>6. /\ bytes' \in [Points -> Int] /\ bytes'[d] = NoOp
        /\ \A e \in Points : e # d => bytes'[e] = bytes[e]
    BY <1>1, <1>2, NoOpIs DEF PointTyped
  <1>7. CASE total[d] + bytes[d] < Length[d]
    <2>1. /\ total' = [total EXCEPT ![d] = total[d] + bytes[d]]
          /\ queue' = queue /\ settled' = settled
      BY <1>7 DEF WriteHandler, RestOf
    <2>2. total'[d] = total[d] + bytes[d]
      BY <1>2, <2>1 DEF PointTyped
    <2>3. PointTyped'
      <3>1. total \in [Points -> Int] /\ total[d] + bytes[d] \in Int
        BY <1>2, <1>3 DEF PointTyped
      <3>2. total' \in [Points -> Int]
        BY <2>1, <3>1
      <3> QED BY <1>1, <1>2, <1>6, <2>1, <3>2 DEF PointTyped
    <2>4. Only(d)
      BY <1>1, <1>2, <1>6, <2>1 DEF Only, PointTyped
    <2>5. Operation(d)'
      <3>1. IsOperation(total[d] + bytes[d], NoOp, queue[d], Length[d])
        BY <1>4, <1>5, <1>7, NoOpIs DEF IsOperation
      <3> QED BY <1>6, <2>1, <2>2, <3>1 DEF Operation
    <2>6. InLine(d)'
      BY <1>1, <2>1 DEF PointInv, InLine
    <2>7. Moves(d)
      <3>1. Sent(d)' = Sent(d)
        BY <1>5, <1>6, <2>2, NoOpIs DEF Sent
      <3>2. UNCHANGED <<given[d], settled[d], out[d], Sent(d)>>
        BY <1>1, <2>1, <3>1
      <3> QED BY <3>2 DEF Moves, Channel!channelVars, Sent
    <2> QED BY <2>3, <2>4, <2>5, <2>6, <2>7, OnlyKeeps
  <1>8. CASE ~(total[d] + bytes[d] < Length[d])
    <2>1. Settle(d, TRUE)
      BY <1>8 DEF WriteHandler
    <2>2. Sent(d) = Length[d]
      BY <1>3, <1>5, <1>8
    <2> QED BY <1>1, <1>5, <1>6, <2>1, <2>2, SettleMoves
  <1> QED BY <1>7, <1>8

LEMMA WriteErrorMoves ==
    ASSUME PointInv, NEW d \in Points, WriteError(d)
    PROVE  PointInv' /\ \A e \in Points : Moves(e)
  <1>1. /\ total[d] # NoOp /\ bytes[d] = NoOp /\ Settle(d, FALSE)
        /\ posted' = posted /\ bytes' = bytes /\ given' = given /\ out' = out
    BY DEF WriteError, InFlight
  <1>2. queue[d] # <<>>
    BY <1>1 DEF PointInv, Operation, IsOperation
  <1>3. /\ bytes' \in [Points -> Int] /\ bytes'[d] = NoOp
        /\ \A e \in Points : e # d => bytes'[e] = bytes[e]
    BY <1>1 DEF PointInv, PointTyped
  <1> QED BY <1>1, <1>2, <1>3, SettleMoves

LEMMA NothingMoves ==
    ASSUME PointInv, UNCHANGED pointVars
    PROVE  PointInv' /\ \A e \in Points : Moves(e)
  <1>1. /\ posted' = posted /\ queue' = queue /\ total' = total /\ bytes' = bytes
        /\ given' = given /\ settled' = settled /\ out' = out
    BY DEF pointVars
  <1> QED BY <1>1 DEF PointInv, PointTyped, Operation, InLine, Moves, Channel!channelVars

LEMMA PointStepMoves ==
    ASSUME PointInv, NEW d \in Points, PointStep(d)
    PROVE  PointInv' /\ (\A e \in Points : Moves(e)) /\ given' = given
  <1>1. CASE WriteImpl(d)
    BY <1>1, WriteImplMoves DEF WriteImpl
  <1>2. CASE WriteHandler(d)
    BY <1>2, WriteHandlerMoves DEF WriteHandler
  <1>3. CASE \E n \in 1..Length[d] : Take(d, n)
    BY <1>3, TakeMoves DEF Take
  <1> QED BY <1>1, <1>2, <1>3 DEF PointStep

(***************************************************************************)
(* Messages that wait.  A sequence is numbered from k when it holds the       *)
(* packets of a device that come after its k-th, one after the other.         *)
(***************************************************************************)
Numbered(d, s, k) == \A i \in 1..Len(s) : s[i] = Data(<<d, k + i>>)

LEMMA NumberedPush ==
    ASSUME NEW S, NEW d, NEW s \in Seq(S), NEW k \in Nat, Numbered(d, s, k),
           Data(<<d, k + Len(s) + 1>>) \in S
    PROVE  Numbered(d, Append(s, Data(<<d, k + Len(s) + 1>>)), k)
  <1> DEFINE m == Data(<<d, k + Len(s) + 1>>)
  <1> HIDE DEF m
  <1>1. /\ Len(Append(s, m)) = Len(s) + 1 /\ Len(s) \in Nat
        /\ \A i \in 1..Len(s) : Append(s, m)[i] = s[i]
        /\ Append(s, m)[Len(s) + 1] = m
    BY Pushed DEF m
  <1>2. \A i \in 1..Len(Append(s, m)) : i \in 1..Len(s) \/ i = Len(s) + 1
    BY <1>1
  <1>3. k + (Len(s) + 1) = k + Len(s) + 1
    BY <1>1
  <1>4. Append(s, m)[Len(s) + 1] = Data(<<d, k + (Len(s) + 1)>>)
    BY <1>1, <1>3 DEF m
  <1>5. Numbered(d, Append(s, m), k)
    BY <1>1, <1>2, <1>4 DEF Numbered
  <1> QED BY <1>5 DEF m

LEMMA NumberedPop ==
    ASSUME NEW S, NEW d, NEW s \in Seq(S), NEW k \in Nat, Numbered(d, s, k), s # <<>>
    PROVE  Head(s) = Data(<<d, k + 1>>) /\ Numbered(d, Tail(s), k + 1)
  <1>1. /\ Len(Tail(s)) = Len(s) - 1 /\ Len(s) \in Nat /\ Len(s) > 0 /\ Head(s) = s[1]
        /\ \A i \in 1..Len(Tail(s)) : Tail(s)[i] = s[i + 1]
    BY Popped
  <1>2. \A i \in 1..Len(Tail(s)) : i + 1 \in 1..Len(s) /\ k + (i + 1) = k + 1 + i
    BY <1>1
  <1>3. 1 \in 1..Len(s)
    BY <1>1
  <1> QED BY <1>1, <1>2, <1>3 DEF Numbered

LEMMA Cut ==
    ASSUME NEW S, NEW s \in Seq(S), NEW n \in 0..Len(s)
    PROVE  /\ SubSeq(s, 1, n) \in Seq(S) /\ Len(SubSeq(s, 1, n)) = n /\ n \in Nat /\ Len(s) \in Nat
           /\ \A i \in 1..n : SubSeq(s, 1, n)[i] = s[i]
           /\ n = 0 => SubSeq(s, 1, n) = <<>>
           /\ n > 0 => SubSeq(s, 1, n) # <<>> /\ s # <<>> /\ Head(SubSeq(s, 1, n)) = Head(s)
  <1>1. /\ SubSeq(s, 1, n) \in Seq(S) /\ Len(SubSeq(s, 1, n)) = n /\ n \in Nat /\ Len(s) \in Nat
        /\ \A i \in 1..n : SubSeq(s, 1, n)[i] = s[i]
    OBVIOUS
  <1>2. n = 0 => SubSeq(s, 1, n) = <<>>
    BY <1>1
  <1>3. ASSUME n > 0
        PROVE  SubSeq(s, 1, n) # <<>> /\ s # <<>> /\ Head(SubSeq(s, 1, n)) = Head(s)
    <2>1. SubSeq(s, 1, n) # <<>> /\ s # <<>>
      BY <1>1, <1>3
    <2>2. 1 \in 1..n
      BY <1>1, <1>3
    <2> QED BY <1>1, <2>1, <2>2, Popped
  <1> QED BY <1>1, <1>2, <1>3

LEMMA NumberedCut ==
    ASSUME NEW S, NEW d, NEW s \in Seq(S), NEW k \in Nat, Numbered(d, s, k), NEW n \in 0..Len(s)
    PROVE  Numbered(d, SubSeq(s, 1, n), k)
  BY Cut DEF Numbered

(***************************************************************************)
(* What is on its way to the server: at first a command, then packets.        *)
(***************************************************************************)
Waiting(u) == IF u # <<>> /\ Head(u) = Command THEN Tail(u) ELSE u

\* Of t packets read from the device of c, k have arrived and the next are in u;
\* they are all that is left when whole.
UpLine(c, u, k, t, whole) ==
    /\ Numbered(c, Waiting(u), k)
    /\ k + Len(Waiting(u)) <= t
    /\ whole => k + Len(Waiting(u)) = t

LEMMA WaitingIs ==
    ASSUME NEW u \in Seq(Message)
    PROVE  Waiting(u) \in Seq(Message) /\ Len(Waiting(u)) \in Nat
  <1>1. Waiting(u) \in Seq(Message)
    BY Popped DEF Waiting
  <1> QED BY <1>1

LEMMA WaitingNumbered ==
    ASSUME NEW d, NEW s \in Seq(Message), NEW k \in Nat, Numbered(d, s, k)
    PROVE  Waiting(s) = s
  <1>1. CASE s # <<>>
    <2>1. Head(s) = Data(<<d, k + 1>>)
      BY <1>1, NumberedPop
    <2>2. Head(s) # Command
      BY <2>1, MessageIs
    <2> QED BY <2>2 DEF Waiting
  <1> QED BY <1>1 DEF Waiting

LEMMA UpPush ==
    ASSUME NEW c, NEW u \in Seq(Message), NEW k \in Nat, NEW t \in Nat,
           UpLine(c, u, k, t, TRUE), Data(<<c, t + 1>>) \in Message
    PROVE  UpLine(c, Append(u, Data(<<c, t + 1>>)), k, t + 1, TRUE)
  <1> DEFINE m == Data(<<c, t + 1>>)
             w == Waiting(u)
  <1>1. w \in Seq(Message) /\ Len(w) \in Nat /\ k + Len(w) = t /\ Numbered(c, w, k)
    BY WaitingIs DEF UpLine
  <1>2. Numbered(c, Append(w, m), k)
    BY <1>1, NumberedPush
  <1>3. Waiting(Append(u, m)) = Append(w, m)
    <2>1. m # Command /\ m \in Message
      BY MessageIs
    <2> HIDE DEF m
    <2>2. CASE u = <<>>
      <3>1. Append(u, m) # <<>> /\ Head(Append(u, m)) = m
        BY <2>2
      <3> QED BY <2>1, <2>2, <3>1 DEF Waiting
    <2>3. CASE u # <<>>
      <3>1. Append(u, m) # <<>> /\ Head(Append(u, m)) = Head(u)
        BY <2>1, <2>3
      <3>2. Tail(Append(u, m)) = Append(Tail(u), m)
        BY <2>1, <2>3
      <3> QED BY <2>3, <3>1, <3>2 DEF Waiting
    <2> QED BY <2>2, <2>3
  <1>4. Len(Append(w, m)) = Len(w) + 1
    BY <1>1, Pushed
  <1>5. k + Len(Append(w, m)) = t + 1
    BY <1>1, <1>4
  <1> HIDE DEF m, w
  <1>6. UpLine(c, Append(u, m), k, t + 1, TRUE)
    BY <1>2, <1>3, <1>5 DEF UpLine
  <1> QED BY <1>6 DEF m

LEMMA UpPop ==
    ASSUME NEW c, NEW u \in Seq(Message), NEW k \in Nat, NEW t \in Nat, NEW whole,
           UpLine(c, u, k, t, whole), u # <<>>
    PROVE  \/ Head(u) = Command /\ UpLine(c, Tail(u), k, t, whole)
           \/ Head(u) = Data(<<c, k + 1>>) /\ UpLine(c, Tail(u), k + 1, t, whole)
  <1>1. Tail(u) \in Seq(Message) /\ Len(u) \in Nat /\ Len(u) > 0 /\ Len(Tail(u)) = Len(u) - 1
    BY Popped
  <1>2. CASE Head(u) = Command
    <2>1. Waiting(u) = Tail(u)
      BY <1>2 DEF Waiting
    <2>2. Waiting(Tail(u)) = Tail(u)
      BY <1>1, <2>1, WaitingNumbered DEF UpLine
    <2> QED BY <1>2, <2>1, <2>2 DEF UpLine
  <1>3. CASE Head(u) # Command
    <2>1. Waiting(u) = u
      BY <1>3 DEF Waiting
    <2>2. Head(u) = Data(<<c, k + 1>>) /\ Numbered(c, Tail(u), k + 1)
      BY <2>1, NumberedPop DEF UpLine
    <2>3. Waiting(Tail(u)) = Tail(u)
      <3>1. k + 1 \in Nat
        OBVIOUS
      <3> QED BY <1>1, <2>2, <3>1, WaitingNumbered
    <2>4. k + 1 + Len(Tail(u)) = k + Len(Waiting(u))
      BY <1>1, <2>1
    <2> QED BY <2>2, <2>3, <2>4 DEF UpLine
  <1> QED BY <1>2, <1>3

LEMMA UpCut ==
    ASSUME NEW c, NEW u \in Seq(Message), NEW k \in Nat, NEW t \in Nat, NEW whole,
           UpLine(c, u, k, t, whole), NEW n \in 0..Len(u)
    PROVE  UpLine(c, SubSeq(u, 1, n), k, t, FALSE)
  <1> DEFINE v == SubSeq(u, 1, n)
  <1>1. /\ v \in Seq(Message) /\ Len(v) = n /\ n \in Nat /\ Len(u) \in Nat
        /\ \A i \in 1..n : v[i] = u[i]
        /\ n = 0 => v = <<>>
        /\ n > 0 => v # <<>> /\ u # <<>> /\ Head(v) = Head(u)
    BY Cut
  <1>2. n <= Len(u)
    BY <1>1
  <1>3. /\ Waiting(v) \in Seq(Message) /\ Len(Waiting(v)) \in Nat
        /\ Waiting(u) \in Seq(Message) /\ Len(Waiting(u)) \in Nat
    BY <1>1, WaitingIs
  <1> HIDE DEF v
  <1>4. /\ Len(Waiting(v)) <= Len(Waiting(u))
        /\ \A i \in 1..Len(Waiting(v)) : Waiting(v)[i] = Waiting(u)[i]
    <2>1. CASE n = 0
      <3>1. Waiting(v) = <<>>
        BY <1>1, <2>1 DEF Waiting
      <3> QED BY <1>3, <3>1
    <2>2. CASE n > 0 /\ Head(u) = Command
      <3>1. Waiting(v) = Tail(v) /\ Waiting(u) = Tail(u) /\ v # <<>> /\ u # <<>>
        BY <1>1, <2>2 DEF Waiting
      <3>2. /\ Len(Tail(v)) = n - 1 /\ Len(Tail(u)) = Len(u) - 1
            /\ \A i \in 1..Len(Tail(v)) : Tail(v)[i] = v[i + 1]
            /\ \A i \in 1..Len(Tail(u)) : Tail(u)[i] = u[i + 1]
        BY <1>1, <3>1, Popped
      <3>3. \A i \in 1..Len(Tail(v)) : i + 1 \in 1..n /\ i \in 1..Len(Tail(u))
        BY <1>1, <1>2, <3>2
      <3>4. Len(Tail(v)) <= Len(Tail(u))
        BY <1>1, <1>2, <3>2
      <3> QED BY <1>1, <3>1, <3>2, <3>3, <3>4
    <2>3. CASE n > 0 /\ Head(u) # Command
      <3>1. Waiting(v) = v /\ Waiting(u) = u
        BY <1>1, <2>3 DEF Waiting
      <3> QED BY <1>1, <1>2, <3>1
    <2> QED BY <1>1, <2>1, <2>2, <2>3
  <1>5. \A i \in 1..Len(Waiting(v)) : i \in 1..Len(Waiting(u))
    BY <1>3, <1>4
  <1>6. Numbered(c, Waiting(v), k)
    BY <1>4, <1>5 DEF UpLine, Numbered
  <1>7. k + Len(Waiting(v)) <= t
    <2>1. k + Len(Waiting(u)) <= t
      BY DEF UpLine
    <2> QED BY <1>3, <1>4, <2>1
  <1>8. UpLine(c, v, k, t, FALSE)
    BY <1>6, <1>7 DEF UpLine
  <1> QED BY <1>8 DEF v

(***************************************************************************)
(* What is on its way to a client that was accepted after the j-th packet:    *)
(* its device was given g, v is in the connection and o in the server's       *)
(* queue.  Once the connection is lost the queue does not matter.             *)
(***************************************************************************)
DownLine(g, v, o, j, t, open, served) ==
    /\ \A i \in 1..Len(g) : g[i] = <<Server, j + i>>
    /\ Numbered(Server, v, j + Len(g))
    /\ open => /\ Numbered(Server, o, j + Len(g) + Len(v))
               /\ served => t = j + Len(g) + Len(v) + Len(o)

LEMMA DownStart ==
    ASSUME NEW t \in Nat, NEW open, NEW served
    PROVE  DownLine(<<>>, <<>>, <<>>, t, t, open, served)
  BY DEF DownLine, Numbered

LEMMA DownLost ==
    ASSUME NEW g, NEW v, NEW o, NEW j, NEW t, NEW open, NEW served,
           DownLine(g, v, o, j, t, open, served),
           NEW o2, NEW t2, NEW served2
    PROVE  DownLine(g, v, o2, j, t2, FALSE, served2)
  BY DEF DownLine

LEMMA DownCut ==
    ASSUME NEW g \in Seq(Packets), NEW v \in Seq(Message), NEW o, NEW j \in Nat, NEW t, NEW open,
           NEW served, DownLine(g, v, o, j, t, open, served), NEW n \in 0..Len(v)
    PROVE  DownLine(g, SubSeq(v, 1, n), o, j, t, FALSE, served)
  <1>1. j + Len(g) \in Nat
    OBVIOUS
  <1> QED BY <1>1, NumberedCut DEF DownLine

LEMMA DownRead ==
    ASSUME NEW g \in Seq(Packets), NEW v \in Seq(Message), NEW o \in Seq(Message), NEW j \in Nat,
           NEW t \in Nat, NEW open, DownLine(g, v, o, j, t, open, TRUE),
           Data(<<Server, t + 1>>) \in Message
    PROVE  DownLine(g, v, Append(o, Data(<<Server, t + 1>>)), j, t + 1, open, TRUE)
  <1> DEFINE m == Data(<<Server, t + 1>>)
  <1>1. Len(g) \in Nat /\ Len(v) \in Nat /\ Len(o) \in Nat /\ Len(Append(o, m)) = Len(o) + 1
    BY Pushed
  <1>2. ASSUME open
        PROVE  /\ Numbered(Server, Append(o, m), j + Len(g) + Len(v))
               /\ t + 1 = j + Len(g) + Len(v) + Len(Append(o, m))
    <2>1. Numbered(Server, o, j + Len(g) + Len(v)) /\ t = j + Len(g) + Len(v) + Len(o)
      BY <1>2 DEF DownLine
    <2>2. j + Len(g) + Len(v) \in Nat
      BY <1>1
    <2>3. Numbered(Server, Append(o, m), j + Len(g) + Len(v))
      BY <2>1, <2>2, NumberedPush
    <2> QED BY <1>1, <2>1, <2>3
  <1> HIDE DEF m
  <1>3. DownLine(g, v, Append(o, m), j, t + 1, open, TRUE)
    BY <1>2 DEF DownLine
  <1> QED BY <1>3 DEF m

\* The first message is the next packet, and when it went to the device the rest is in line.
IsNext(g, v, o, j, t, open, served, p) ==
    /\ p = <<Server, j + Len(g) + 1>> /\ p \in Packets
    /\ Head(v) = Data(p) /\ \A i \in 1..Len(g) : g[i] # p
    /\ DownLine(Append(g, p), Tail(v), o, j, t, open, served)

LEMMA DownPop ==
    ASSUME NEW g \in Seq(Packets), NEW v \in Seq(Message), NEW o \in Seq(Message), NEW j \in Nat,
           NEW t \in Nat, NEW open, NEW served,
           DownLine(g, v, o, j, t, open, served), v # <<>>
    PROVE  \E p : IsNext(g, v, o, j, t, open, served, p)
  <1> DEFINE p == <<Server, j + Len(g) + 1>>
  <1>1. /\ Len(g) \in Nat /\ j + Len(g) \in Nat
        /\ Len(v) \in Nat /\ Len(v) > 0 /\ Len(Tail(v)) = Len(v) - 1
    BY Popped
  <1>2. Head(v) = Data(p) /\ Numbered(Server, Tail(v), j + Len(g) + 1)
    BY <1>1, NumberedPop DEF DownLine
  <1>3. p \in Packets
    <2>1. Head(v) \in Message
      BY Popped
    <2>2. PICK q \in Packets : Data(p) = Data(q)
      BY <1>2, <2>1, MessageIs
    <2>3. p = q
      BY <2>2, MessageIs
    <2> QED BY <2>2, <2>3
  <1>4. \A i \in 1..Len(g) : g[i] # p
    BY <1>1 DEF DownLine
  <1>5. /\ Len(Append(g, p)) = Len(g) + 1
        /\ \A i \in 1..Len(g) : Append(g, p)[i] = g[i]
        /\ Append(g, p)[Len(g) + 1] = p
    <2> HIDE DEF p
    <2> QED BY <1>3, Pushed
  <1>6. \A i \in 1..Len(Append(g, p)) : Append(g, p)[i] = <<Server, j + i>>
    <2>1. \A i \in 1..Len(Append(g, p)) : i \in 1..Len(g) \/ i = Len(g) + 1
      BY <1>1, <1>5
    <2>2. Append(g, p)[Len(g) + 1] = <<Server, j + (Len(g) + 1)>>
      <3>1. j + Len(g) + 1 = j + (Len(g) + 1)
        BY <1>1
      <3> QED BY <1>5, <3>1
    <2> HIDE DEF p
    <2> QED BY <1>5, <2>1, <2>2 DEF DownLine
  <1>7. /\ j + Len(Append(g, p)) = j + Len(g) + 1
        /\ j + Len(Append(g, p)) + Len(Tail(v)) = j + Len(g) + Len(v)
    BY <1>1, <1>5
  <1>8. p = <<Server, j + Len(g) + 1>>
    OBVIOUS
  <1> HIDE DEF p
  <1>9. DownLine(Append(g, p), Tail(v), o, j, t, open, served)
    BY <1>2, <1>6, <1>7 DEF DownLine
  <1> QED BY <1>2, <1>3, <1>4, <1>8, <1>9 DEF IsNext

LEMMA DownSend ==
    ASSUME NEW g \in Seq(Packets), NEW v \in Seq(Message), NEW o \in Seq(Message), NEW j \in Nat,
           NEW t \in Nat, NEW served,
           DownLine(g, v, o, j, t, TRUE, served), o # <<>>
    PROVE  DownLine(g, Append(v, Head(o)), Tail(o), j, t, TRUE, served)
  <1>1. /\ Len(g) \in Nat /\ Len(v) \in Nat /\ j + Len(g) + Len(v) \in Nat /\ j + Len(g) \in Nat
        /\ Len(o) \in Nat /\ Len(o) > 0 /\ Len(Tail(o)) = Len(o) - 1 /\ Head(o) \in Message
    BY Popped
  <1>2. /\ Head(o) = Data(<<Server, j + Len(g) + Len(v) + 1>>)
        /\ Numbered(Server, Tail(o), j + Len(g) + Len(v) + 1)
    BY <1>1, NumberedPop DEF DownLine
  <1>3. Numbered(Server, Append(v, Head(o)), j + Len(g))
    BY <1>1, <1>2, NumberedPush DEF DownLine
  <1>4. Len(Append(v, Head(o))) = Len(v) + 1
    BY <1>1, Pushed
  <1>5. /\ j + Len(g) + Len(Append(v, Head(o))) = j + Len(g) + Len(v) + 1
        /\ j + Len(g) + Len(Append(v, Head(o))) + Len(Tail(o)) = j + Len(g) + Len(v) + Len(o)
    BY <1>1, <1>4
  <1> QED BY <1>2, <1>3, <1>5 DEF DownLine

(***************************************************************************)
(* The inductive invariant.  A connection is known in one place: it is none,  *)
(* or its client waits to be accepted, or it is served, or it was lost; and    *)
(* what was read from a device is, in order, with the other device, then on    *)
(* its way.                                                                  *)
(***************************************************************************)
TunnelTyped ==
    /\ reading \in SUBSET Points
    /\ taken \in [Points -> Nat] /\ \A d \in Points : taken[d] <= Reads[d]
    /\ link \in [Clients -> {"none", "open", "lost"}]
    /\ up \in [Clients -> Seq(Message)] /\ down \in [Clients -> Seq(Message)]
    /\ outbox \in [Clients -> Seq(Message)]
    /\ backlog \in Seq(Clients)
    /\ accepting \in BOOLEAN
    /\ clients \in SUBSET Clients /\ closing \in SUBSET Clients
    /\ running \in SUBSET Points
    /\ failures \in 0..MaxFailures
    /\ joined \in [Clients -> Nat]

InBacklog(c) == \E i \in 1..Len(backlog) : backlog[i] = c

Links ==
    /\ \A c \in closing : link[c] = "lost"
    /\ \A c \in Clients : /\ link[c] = "none" => /\ c \notin clients /\ c \notin reading
                                                 /\ taken[c] = 0 /\ up[c] = <<>>
                          /\ link[c] = "open" => c \in clients \/ InBacklog(c)
    /\ \A i, j \in 1..Len(backlog) : i # j => backlog[i] # backlog[j]
    /\ \A i \in 1..Len(backlog) : /\ link[backlog[i]] # "none"
                                  /\ backlog[i] \notin clients /\ backlog[i] \notin closing

\* To each client.
DownInv(c) ==
    /\ c \notin clients /\ c \notin closing => given[c] = <<>> /\ down[c] = <<>> /\ outbox[c] = <<>>
    /\ DownLine(given[c], down[c], outbox[c], joined[c], taken[Server],
                link[c] = "open", c \in clients)

\* From each client: k packets are with the server's device.
Through(g, c, k) ==
    /\ \A i \in 1..Len(g) : g[i][1] = c => g[i][2] \in 1..k
    /\ \A x \in 1..k : \E i \in 1..Len(g) : g[i] = <<c, x>>

Arrived(c, k) == Through(given[Server], c, k)

UpInv(c) ==
    \E k \in 0..taken[c] : Arrived(c, k) /\ UpLine(c, up[c], k, taken[c], link[c] = "open")

\* Whatever the server's device is given, of each client it is in order.
InOrder(g, i) ==
    /\ g[i][1] \in Clients
    /\ g[i][2] > 1 => \E j \in 1..(i - 1) : g[j] = <<g[i][1], g[i][2] - 1>>
    /\ \A j \in 1..(i - 1) : g[j][1] = g[i][1] => g[j][2] < g[i][2]

GivenInOrder(g) == \A i \in 1..Len(g) : InOrder(g, i)

IInv ==
    /\ TunnelTyped /\ PointInv /\ Links
    /\ \A c \in Clients : DownInv(c) /\ UpInv(c)
    /\ GivenInOrder(given[Server])

LEMMA ClientIs ==
    /\ Server \in Points /\ Clients \subseteq Points /\ Server \notin Clients
    /\ \A c \in Clients : c \in Points /\ c # Server
    /\ \A d \in Points : d = Server \/ d \in Clients
  BY BoundsAssumption DEF Clients

LEMMA TunnelTypes ==
    ASSUME TunnelTyped, NEW c \in Clients
    PROVE  /\ up[c] \in Seq(Message) /\ down[c] \in Seq(Message) /\ outbox[c] \in Seq(Message)
           /\ taken[c] \in Nat /\ taken[Server] \in Nat /\ joined[c] \in Nat
           /\ link[c] \in {"none", "open", "lost"}
  BY ClientIs DEF TunnelTyped

LEMMA Parts ==
    ASSUME IInv
    PROVE  /\ TunnelTyped /\ PointInv /\ PointTyped /\ Links /\ GivenInOrder(given[Server])
           /\ \A c \in Clients : DownInv(c) /\ UpInv(c)
           /\ \A d \in Points : given[d] \in Seq(Packets)
  BY DEF IInv, PointInv, PointTyped

\* What is nobody's next keeps: connections are only lost, and clients forgotten
\* when they are.
LEMMA LinksKept ==
    ASSUME Links, TunnelTyped, backlog' = backlog,
           clients' \subseteq clients, closing' \subseteq closing \cup clients,
           \A c \in clients : c \in clients' \/ c \in closing',
           \A c \in Clients : link'[c] = link[c] \/ link'[c] = "lost",
           \A c \in closing' : link'[c] = "lost",
           \A c \in Clients : link'[c] = "none" => /\ c \notin reading => c \notin reading'
                                                   /\ taken'[c] = taken[c]
                                                   /\ up[c] = <<>> => up'[c] = <<>>
    PROVE  Links'
  <1>1. \A i \in 1..Len(backlog) : backlog[i] \in Clients
    BY DEF TunnelTyped
  <1>2. \A c \in Clients : link'[c] = "none" => /\ c \notin clients' /\ c \notin reading'
                                                /\ taken'[c] = 0 /\ up'[c] = <<>>
    BY DEF Links
  <1>3. \A c \in Clients : link'[c] = "open" => c \in clients' \/ InBacklog(c)'
    <2>1. ASSUME NEW c \in Clients, link'[c] = "open" PROVE c \in clients' \/ InBacklog(c)'
      <3>1. link[c] = "open"
        BY <2>1
      <3>2. c \in clients \/ InBacklog(c)
        BY <3>1 DEF Links
      <3>3. c \notin closing'
        BY <2>1
      <3> QED BY <3>2, <3>3 DEF InBacklog
    <2> QED BY <2>1
  <1>4. \A i \in 1..Len(backlog) : /\ link'[backlog[i]] # "none"
                                   /\ backlog[i] \notin clients' /\ backlog[i] \notin closing'
    BY <1>1 DEF Links
  <1>5. \A i, j \in 1..Len(backlog) : i # j => backlog[i] # backlog[j]
    BY DEF Links
  <1> QED BY <1>2, <1>3, <1>4, <1>5 DEF Links

LEMMA LinksSame ==
    ASSUME Links, link' = link, backlog' = backlog, clients' = clients, closing' = closing,
           reading' = reading, taken' = taken, up' = up
    PROVE  Links'
  BY DEF Links, InBacklog

LEMMA DownKept ==
    ASSUME TunnelTyped, NEW c \in Clients, DownInv(c),
           given'[c] = given[c], down'[c] = down[c], joined'[c] = joined[c],
           taken'[Server] = taken[Server],
           outbox'[c] = outbox[c], link'[c] = "open" => link[c] = "open",
           link'[c] = "open" => (c \in clients <=> c \in clients'),
           c \notin clients' /\ c \notin closing' => c \notin clients /\ c \notin closing
    PROVE  DownInv(c)'
  <1>1. /\ c \notin clients /\ c \notin closing => given[c] = <<>> /\ down[c] = <<>> /\ outbox[c] = <<>>
        /\ DownLine(given[c], down[c], outbox[c], joined[c], taken[Server],
                    link[c] = "open", c \in clients)
    BY DEF DownInv
  <1>2. CASE link'[c] = "open"
    <2>1. (link'[c] = "open") = (link[c] = "open") /\ (c \in clients') = (c \in clients)
      BY <1>2
    <2>2. DownLine(given[c], down[c], outbox[c], joined[c], taken[Server],
                   link'[c] = "open", c \in clients')
      BY <1>1, <2>1, Zenon
    <2> QED BY <1>1, <2>2 DEF DownInv
  <1>3. CASE link'[c] # "open"
    <2>1. DownLine(given[c], down[c], outbox[c], joined[c], taken[Server], FALSE, c \in clients')
      BY <1>1, DownLost
    <2>2. (link'[c] = "open") = FALSE
      BY <1>3
    <2>3. DownLine(given[c], down[c], outbox[c], joined[c], taken[Server],
                   link'[c] = "open", c \in clients')
      BY <2>1, <2>2, Zenon
    <2> QED BY <1>1, <2>3 DEF DownInv
  <1> QED BY <1>2, <1>3

LEMMA DownSame ==
    ASSUME NEW c \in Clients, DownInv(c), given'[c] = given[c], down' = down, joined' = joined,
           taken' = taken, outbox' = outbox, link' = link, clients' = clients, closing' = closing
    PROVE  DownInv(c)'
  BY DEF DownInv

LEMMA UpKept ==
    ASSUME NEW c \in Clients, UpInv(c), given'[Server] = given[Server], up'[c] = up[c],
           taken'[c] = taken[c], link'[c] = "open" => link[c] = "open"
    PROVE  UpInv(c)'
  <1>1. PICK k \in 0..taken[c] :
              Arrived(c, k) /\ UpLine(c, up[c], k, taken[c], link[c] = "open")
    BY DEF UpInv
  <1>2. Arrived(c, k)'
    <2>1. Through(given'[Server], c, k)
      BY <1>1 DEF Arrived
    <2> QED BY <2>1 DEF Arrived, Through
  <1>3. UpLine(c, up[c], k, taken[c], link'[c] = "open")
    BY <1>1 DEF UpLine
  <1> QED BY <1>1, <1>2, <1>3 DEF UpInv

LEMMA UpSame ==
    ASSUME NEW c \in Clients, UpInv(c), given'[Server] = given[Server], up' = up, taken' = taken,
           link' = link
    PROVE  UpInv(c)'
  BY UpKept

LEMMA AllSame ==
    ASSUME IInv, TunnelTyped', PointInv', given' = given, link' = link, backlog' = backlog,
           clients' = clients, closing' = closing, reading' = reading, taken' = taken, up' = up,
           down' = down, outbox' = outbox, joined' = joined
    PROVE  IInv'
  <1>1. Links'
    BY LinksSame, Parts
  <1>2. ASSUME NEW c \in Clients PROVE DownInv(c)' /\ UpInv(c)'
    BY <1>2, DownSame, UpSame, Parts
  <1>3. GivenInOrder(given[Server])'
    BY Parts
  <1> QED BY <1>1, <1>2, <1>3 DEF IInv

LEMMA Quiet ==
    ASSUME IInv, UNCHANGED pointVars
    PROVE  /\ PointInv' /\ (\A d \in Points : Moves(d)) /\ given' = given
           /\ GivenInOrder(given[Server])'
  BY Parts, NothingMoves DEF pointVars

(***************************************************************************)
(* Client programs.                                                          *)
(***************************************************************************)
LEMMA OnConnectInv ==
    ASSUME IInv, NEW c \in Clients, OnConnect(c)
    PROVE  IInv' /\ \A d \in Points : Moves(d)
  <1>1. /\ link[c] = "none" /\ link' = [link EXCEPT ![c] = "open"]
        /\ backlog' = Append(backlog, c) /\ reading' = reading \cup {c}
        /\ up' = [up EXCEPT ![c] = <<Command>>]
        /\ UNCHANGED pointVars /\ taken' = taken /\ down' = down /\ outbox' = outbox
        /\ accepting' = accepting /\ clients' = clients /\ closing' = closing
        /\ running' = running /\ failures' = failures /\ joined' = joined
    BY DEF OnConnect
  <1>2. TunnelTyped /\ Links
    BY Parts
  <1>3. /\ backlog' \in Seq(Clients) /\ Len(backlog') = Len(backlog) + 1 /\ Len(backlog) \in Nat
        /\ \A i \in 1..Len(backlog) : backlog'[i] = backlog[i] /\ backlog[i] \in Clients
        /\ backlog'[Len(backlog) + 1] = c
    BY <1>1, <1>2, Pushed DEF TunnelTyped
  <1>4. /\ <<Command>> \in Seq(Message) /\ <<Command>> # <<>> /\ Head(<<Command>>) = Command
        /\ Tail(<<Command>>) = <<>>
    BY MessageIs
  <1>5. /\ link' \in [Clients -> {"none", "open", "lost"}] /\ link'[c] = "open"
        /\ \A e \in Clients : e # c => link'[e] = link[e]
    <2>1. link \in [Clients -> {"none", "open", "lost"}]
      BY <1>2 DEF TunnelTyped
    <2> QED BY <1>1, <2>1
  <1>6. /\ up' \in [Clients -> Seq(Message)] /\ up'[c] = <<Command>>
        /\ \A e \in Clients : e # c => up'[e] = up[e]
    <2>1. up \in [Clients -> Seq(Message)]
      BY <1>2 DEF TunnelTyped
    <2> QED BY <1>1, <1>4, <2>1, Updated, Zenon
  <1>7. TunnelTyped'
    BY <1>1, <1>2, <1>3, <1>5, <1>6, ClientIs DEF TunnelTyped
  <1>8. /\ c \notin clients /\ c \notin reading /\ taken[c] = 0 /\ c \notin closing
        /\ \A i \in 1..Len(backlog) : backlog[i] # c
    BY <1>1, <1>2 DEF Links
  <1>9. \A i \in 1..Len(backlog') : i \in 1..Len(backlog) \/ i = Len(backlog) + 1
    BY <1>3
  <1>10. \A i \in 1..Len(backlog) : i \in 1..Len(backlog') /\ i # Len(backlog) + 1
    BY <1>3
  <1>11. Links'
    <2>1. \A e \in closing : link'[e] = "lost"
      BY <1>2, <1>5, <1>8 DEF Links, TunnelTyped
    <2>2. ASSUME NEW e \in Clients
          PROVE  /\ link'[e] = "none" => /\ e \notin clients /\ e \notin reading'
                                         /\ taken[e] = 0 /\ up'[e] = <<>>
                 /\ link'[e] = "open" => e \in clients \/ InBacklog(e)'
      <3>1. CASE e = c
        BY <1>3, <1>5, <3>1 DEF InBacklog
      <3>2. CASE e # c
        <4>1. InBacklog(e) => InBacklog(e)'
          BY <1>3, <1>10 DEF InBacklog
        <4> QED BY <1>1, <1>2, <1>5, <1>6, <3>2, <4>1 DEF Links
      <3> QED BY <3>1, <3>2
    <2>3. \A i, j \in 1..Len(backlog') : i # j => backlog'[i] # backlog'[j]
      <3>1. \A i, j \in 1..Len(backlog) : i # j => backlog[i] # backlog[j]
        BY <1>2 DEF Links
      <3> QED BY <1>3, <1>8, <1>9, <3>1
    <2>4. \A i \in 1..Len(backlog') : /\ link'[backlog'[i]] # "none"
                                      /\ backlog'[i] \notin clients /\ backlog'[i] \notin closing
      <3>1. \A i \in 1..Len(backlog) : /\ link[backlog[i]] # "none"
                                       /\ backlog[i] \notin clients /\ backlog[i] \notin closing
        BY <1>2 DEF Links
      <3> QED BY <1>3, <1>5, <1>8, <1>9, <3>1
    <2> QED BY <1>1, <2>1, <2>2, <2>3, <2>4 DEF Links
  <1>12. given' = given /\ PointInv' /\ (\A d \in Points : Moves(d)) /\ GivenInOrder(given[Server])'
    BY <1>1, Quiet
  <1>13. ASSUME NEW e \in Clients PROVE DownInv(e)'
    <2>1. CASE e # c
      BY <1>1, <1>2, <1>5, <1>12, <2>1, DownKept, Parts
    <2>2. CASE e = c
      <3>1. given[c] = <<>> /\ down[c] = <<>> /\ outbox[c] = <<>>
        BY <1>8, Parts DEF DownInv
      <3>2. joined[c] \in Nat /\ (c \in clients) = FALSE
        BY <1>2, <1>8, TunnelTypes
      <3>3. DownLine(<<>>, <<>>, <<>>, joined[c], taken[Server], link'[c] = "open", FALSE)
        BY <3>2 DEF DownLine, Numbered
      <3> QED BY <1>1, <1>12, <2>2, <3>1, <3>2, <3>3 DEF DownInv
    <2> QED BY <2>1, <2>2
  <1>14. ASSUME NEW e \in Clients PROVE UpInv(e)'
    <2>1. CASE e # c
      BY <1>1, <1>5, <1>6, <1>12, <2>1, UpKept, Parts
    <2>2. CASE e = c
      <3>1. PICK k \in 0..taken[c] :
                  Arrived(c, k) /\ UpLine(c, up[c], k, taken[c], link[c] = "open")
        BY Parts DEF UpInv
      <3>2. k = 0
        BY <1>8, <3>1
      <3>3. Arrived(c, 0)'
        BY <1>12, <3>1, <3>2 DEF Arrived, Through
      <3>4. Waiting(<<Command>>) = <<>>
        BY <1>4 DEF Waiting
      <3>5. UpLine(c, <<Command>>, 0, 0, TRUE)
        BY <3>4 DEF UpLine, Numbered
      <3>6. (link'[c] = "open") = TRUE /\ taken'[c] = 0 /\ 0 \in 0..taken'[c]
        BY <1>1, <1>5, <1>8
      <3>7. UpLine(c, up'[c], 0, taken'[c], link'[c] = "open")
        BY <1>6, <3>5, <3>6
      <3> QED BY <2>2, <3>3, <3>6, <3>7 DEF UpInv
    <2> QED BY <2>1, <2>2
  <1> QED BY <1>7, <1>11, <1>12, <1>13, <1>14 DEF IInv

LEMMA OnConnectErrorInv ==
    ASSUME IInv, NEW c \in Clients, OnConnectError(c)
    PROVE  IInv' /\ \A d \in Points : Moves(d)
  <1>1. /\ link[c] = "none" /\ link' = [link EXCEPT ![c] = "lost"] /\ running' = running \ {c}
        /\ failures < MaxFailures /\ failures' = failures + 1
        /\ UNCHANGED pointVars /\ reading' = reading /\ taken' = taken /\ up' = up
        /\ down' = down /\ outbox' = outbox /\ backlog' = backlog /\ accepting' = accepting
        /\ clients' = clients /\ closing' = closing /\ joined' = joined
    BY DEF OnConnectError, Fails
  <1>2. TunnelTyped /\ Links
    BY Parts
  <1>3. /\ link' \in [Clients -> {"none", "open", "lost"}] /\ link'[c] = "lost"
        /\ \A e \in Clients : e # c => link'[e] = link[e]
    <2>1. link \in [Clients -> {"none", "open", "lost"}]
      BY <1>2 DEF TunnelTyped
    <2> QED BY <1>1, <2>1
  <1>4. failures' \in 0..MaxFailures
    BY <1>1, <1>2, BoundsAssumption DEF TunnelTyped
  <1>5. TunnelTyped'
    BY <1>1, <1>2, <1>3, <1>4 DEF TunnelTyped
  <1>6. Links'
    <2>1. \A e \in Clients : link'[e] = link[e] \/ link'[e] = "lost"
      BY <1>3
    <2>2. \A e \in closing : e \in Clients /\ link[e] = "lost"
      BY <1>2 DEF Links, TunnelTyped
    <2> QED BY <1>1, <1>2, <2>1, <2>2, LinksKept
  <1>7. given' = given /\ PointInv' /\ (\A d \in Points : Moves(d)) /\ GivenInOrder(given[Server])'
    BY <1>1, Quiet
  <1>8. ASSUME NEW e \in Clients PROVE DownInv(e)' /\ UpInv(e)'
    <2>1. link'[e] = "open" => link[e] = "open"
      BY <1>3
    <2> QED BY <1>1, <1>2, <1>7, <2>1, DownKept, UpKept, Parts
  <1> QED BY <1>5, <1>6, <1>7, <1>8 DEF IInv

LEMMA ClientDeviceReadInv ==
    ASSUME IInv, NEW c \in Clients, ClientDeviceRead(c)
    PROVE  IInv' /\ \A d \in Points : Moves(d)
  <1> DEFINE m == Data(<<c, taken[c] + 1>>)
             u == IF link[c] = "open" THEN Append(up[c], m) ELSE up[c]
  <1>1. /\ c \in reading /\ taken[c] < Reads[c] /\ taken' = [taken EXCEPT ![c] = @ + 1]
        /\ up' = [up EXCEPT ![c] = u]
        /\ UNCHANGED pointVars /\ reading' = reading /\ link' = link /\ down' = down
        /\ outbox' = outbox /\ backlog' = backlog /\ accepting' = accepting
        /\ clients' = clients /\ closing' = closing /\ running' = running
        /\ failures' = failures /\ joined' = joined
    BY DEF ClientDeviceRead
  <1>2. TunnelTyped /\ Links
    BY Parts
  <1>3. /\ c \in Points /\ c # Server /\ up[c] \in Seq(Message) /\ taken[c] \in Nat
        /\ taken[Server] \in Nat /\ taken[c] <= Reads[c] /\ Reads[c] \in Nat
    BY <1>2, ClientIs, TunnelTypes, PacketIs DEF TunnelTyped
  <1>4. m \in Message
    <2>1. taken[c] + 1 \in 1..Reads[c]
      BY <1>1, <1>3
    <2> QED BY <1>3, <2>1, PacketIs, MessageIs
  <1>5. u \in Seq(Message)
    BY <1>3, <1>4, Pushed
  <1> HIDE DEF m, u
  <1>6. /\ taken' \in [Points -> Nat] /\ taken'[c] = taken[c] + 1
        /\ \A d \in Points : d # c => taken'[d] = taken[d]
    <2>1. taken \in [Points -> Nat]
      BY <1>2 DEF TunnelTyped
    <2> QED BY <1>1, <1>3, <2>1
  <1>7. /\ up' \in [Clients -> Seq(Message)] /\ up'[c] = u
        /\ \A e \in Clients : e # c => up'[e] = up[e]
    <2>1. up \in [Clients -> Seq(Message)]
      BY <1>2 DEF TunnelTyped
    <2> QED BY <1>1, <1>5, <2>1, Updated, Zenon
  <1>8. TunnelTyped'
    <2>1. \A d \in Points : taken'[d] <= Reads[d]
      <3>1. taken'[c] <= Reads[c]
        BY <1>1, <1>3, <1>6
      <3>2. \A d \in Points : d # c => taken'[d] <= Reads[d]
        BY <1>2, <1>6 DEF TunnelTyped
      <3> QED BY <3>1, <3>2
    <2> QED BY <1>1, <1>2, <1>6, <1>7, <2>1 DEF TunnelTyped
  <1>9. link[c] # "none"
    BY <1>1, <1>2 DEF Links
  <1>10. Links'
    <2>1. \A e \in Clients : link'[e] = "none" => taken'[e] = taken[e] /\ up'[e] = up[e]
      BY <1>1, <1>6, <1>7, <1>9, ClientIs
    <2>2. \A e \in closing' : link'[e] = "lost"
      BY <1>1, <1>2 DEF Links
    <2> QED BY <1>1, <1>2, <2>1, <2>2, LinksKept
  <1>11. given' = given /\ PointInv' /\ (\A d \in Points : Moves(d)) /\ GivenInOrder(given[Server])'
    BY <1>1, Quiet
  <1>12. ASSUME NEW e \in Clients PROVE DownInv(e)'
    <2>1. taken'[Server] = taken[Server]
      BY <1>3, <1>6, ClientIs
    <2> QED BY <1>1, <1>2, <1>11, <2>1, DownKept, Parts
  <1>13. ASSUME NEW e \in Clients PROVE UpInv(e)'
    <2>1. CASE e # c
      <3>1. taken'[e] = taken[e]
        BY <1>6, <2>1, ClientIs
      <3> QED BY <1>1, <1>7, <1>11, <2>1, <3>1, UpKept, Parts
    <2>2. CASE e = c
      <3>1. PICK k \in 0..taken[c] :
                  Arrived(c, k) /\ UpLine(c, up[c], k, taken[c], link[c] = "open")
        BY Parts DEF UpInv
      <3>2. k \in Nat /\ k \in 0..(taken[c] + 1)
        BY <1>3, <3>1
      <3>3. UpLine(c, u, k, taken[c] + 1, link[c] = "open")
        <4>1. CASE link[c] = "open"
          <5>1. UpLine(c, up[c], k, taken[c], TRUE)
            BY <3>1, <4>1 DEF UpLine
          <5>2. UpLine(c, Append(up[c], m), k, taken[c] + 1, TRUE)
            BY <1>3, <1>4, <3>2, <5>1, UpPush DEF m
          <5> QED BY <4>1, <5>2 DEF u, UpLine
        <4>2. CASE link[c] # "open"
          <5>1. Waiting(up[c]) \in Seq(Message) /\ Len(Waiting(up[c])) \in Nat
            BY <1>3, WaitingIs
          <5>2. k + Len(Waiting(up[c])) <= taken[c] /\ Numbered(c, Waiting(up[c]), k)
            BY <3>1 DEF UpLine
          <5>3. k + Len(Waiting(up[c])) <= taken[c] + 1
            BY <1>3, <3>2, <5>1, <5>2
          <5> QED BY <4>2, <5>2, <5>3 DEF u, UpLine
        <4> QED BY <4>1, <4>2
      <3>4. Arrived(c, k)'
        BY <1>11, <3>1 DEF Arrived, Through
      <3> QED BY <1>1, <1>6, <1>7, <2>2, <3>2, <3>3, <3>4 DEF UpInv
    <2> QED BY <2>1, <2>2
  <1> QED BY <1>8, <1>10, <1>11, <1>12, <1>13 DEF IInv

\* The packet that comes over the connection is written to the device.
LEMMA ClientOnMessageInv ==
    ASSUME IInv, NEW c \in Clients, ClientOnMessage(c)
    PROVE  IInv' /\ \A d \in Points : Moves(d)
  <1>1. /\ down[c] # <<>> /\ down' = [down EXCEPT ![c] = Tail(@)]
        /\ PostWrite(c, Head(down[c]).packet)
        /\ reading' = reading /\ taken' = taken /\ link' = link /\ up' = up
        /\ outbox' = outbox /\ backlog' = backlog /\ accepting' = accepting
        /\ clients' = clients /\ closing' = closing /\ running' = running
        /\ failures' = failures /\ joined' = joined
    BY DEF ClientOnMessage
  <1>2. TunnelTyped /\ Links /\ PointInv /\ PointTyped
    BY Parts
  <1>3. /\ c \in Points /\ c # Server /\ down[c] \in Seq(Message) /\ outbox[c] \in Seq(Message)
        /\ taken[Server] \in Nat /\ joined[c] \in Nat /\ given[c] \in Seq(Packets)
    BY <1>2, ClientIs, TunnelTypes, PointTypes
  <1>4. DownLine(given[c], down[c], outbox[c], joined[c], taken[Server],
                 link[c] = "open", c \in clients)
    BY Parts DEF DownInv
  <1>4a. PICK p : IsNext(given[c], down[c], outbox[c], joined[c], taken[Server],
                        link[c] = "open", c \in clients, p)
    BY <1>1, <1>3, <1>4, DownPop, Zenon
  <1>5. /\ Head(down[c]) = Data(p) /\ p \in Packets /\ \A i \in 1..Len(given[c]) : given[c][i] # p
        /\ DownLine(Append(given[c], p), Tail(down[c]), outbox[c], joined[c], taken[Server],
                    link[c] = "open", c \in clients)
    BY <1>4a DEF IsNext
  <1>6. PostWrite(c, p)
    <2>1. Data(p).packet = p
      BY MessageIs
    <2>2. Head(down[c]).packet = p
      BY <1>5, <2>1
    <2> QED BY <1>1, <2>2, Zenon
  <1>7. PointInv' /\ \A d \in Points : Moves(d)
    BY <1>2, <1>3, <1>5, <1>6, PostWriteMoves
  <1>8. /\ given'[c] = Append(given[c], p)
        /\ \A d \in Points : d # c => given'[d] = given[d]
    <2>1. given' = [given EXCEPT ![c] = Append(@, p)] /\ given \in [Points -> Seq(Packets)]
      BY <1>2, <1>6 DEF PostWrite, PointTyped
    <2> QED BY <1>3, <2>1
  <1>9. Tail(down[c]) \in Seq(Message)
    BY <1>1, <1>3, Popped
  <1>10. /\ down' \in [Clients -> Seq(Message)] /\ down'[c] = Tail(down[c])
         /\ \A e \in Clients : e # c => down'[e] = down[e]
    <2>1. down \in [Clients -> Seq(Message)]
      BY <1>2 DEF TunnelTyped
    <2> QED BY <1>1, <1>9, <2>1, Updated, Zenon
  <1>11. TunnelTyped'
    BY <1>1, <1>2, <1>10 DEF TunnelTyped
  <1>12. Links'
    BY <1>1, <1>2, LinksSame
  <1>13. given'[Server] = given[Server]
    BY <1>3, <1>8, ClientIs
  <1>14. GivenInOrder(given[Server])'
    BY <1>13, Parts DEF GivenInOrder
  <1>15. ASSUME NEW e \in Clients PROVE UpInv(e)'
    BY <1>1, <1>13, UpSame, Parts
  <1>16. ASSUME NEW e \in Clients PROVE DownInv(e)'
    <2>1. CASE e # c
      <3>1. given'[e] = given[e]
        BY <1>8, <2>1, ClientIs
      <3> QED BY <1>1, <1>2, <1>10, <2>1, <3>1, DownKept, Parts
    <2>2. CASE e = c
      <3>1. c \in clients \/ c \in closing
        BY <1>1, Parts DEF DownInv
      <3> QED BY <1>1, <1>5, <1>8, <1>10, <2>2, <3>1 DEF DownInv
    <2> QED BY <2>1, <2>2
  <1> QED BY <1>7, <1>11, <1>12, <1>14, <1>15, <1>16 DEF IInv

LEMMA ClientErrorInv ==
    ASSUME IInv, NEW c \in Clients, ClientError(c)
    PROVE  IInv' /\ \A d \in Points : Moves(d)
  <1>1. /\ running' = running \ {c}
        /\ UNCHANGED pointVars /\ reading' = reading /\ taken' = taken /\ link' = link
        /\ up' = up /\ down' = down /\ outbox' = outbox /\ backlog' = backlog
        /\ accepting' = accepting /\ clients' = clients /\ closing' = closing
        /\ failures' = failures /\ joined' = joined
    BY DEF ClientError
  <1>2. TunnelTyped'
    BY <1>1, Parts DEF TunnelTyped
  <1>3. given' = given /\ PointInv' /\ (\A d \in Points : Moves(d))
    BY <1>1, Quiet
  <1> QED BY <1>1, <1>2, <1>3, AllSame

(***************************************************************************)
(* The server program.                                                       *)
(***************************************************************************)
LEMMA OnAcceptClientInv ==
    ASSUME IInv, OnAcceptClient
    PROVE  IInv' /\ \A d \in Points : Moves(d)
  <1> DEFINE c == Head(backlog)
  <1>1. /\ backlog # <<>> /\ clients' = clients \cup {c}
        /\ joined' = [joined EXCEPT ![c] = taken[Server]] /\ backlog' = Tail(backlog)
        /\ UNCHANGED pointVars /\ reading' = reading /\ taken' = taken /\ link' = link
        /\ up' = up /\ down' = down /\ outbox' = outbox /\ accepting' = accepting
        /\ closing' = closing /\ running' = running /\ failures' = failures
    BY DEF OnAcceptClient, Register
  <1>2. TunnelTyped /\ Links
    BY Parts
  <1>3. /\ backlog' \in Seq(Clients) /\ Len(backlog') = Len(backlog) - 1 /\ Len(backlog) \in Nat
        /\ Len(backlog) > 0 /\ c = backlog[1] /\ c \in Clients
        /\ \A i \in 1..Len(backlog') : backlog'[i] = backlog[i + 1]
    BY <1>1, <1>2, Popped DEF TunnelTyped
  <1>4. \A i \in 1..Len(backlog') : i + 1 \in 1..Len(backlog) /\ i + 1 # 1
    BY <1>3
  <1>5. \A i \in 1..Len(backlog) : i = 1 \/ \E k \in 1..Len(backlog') : i = k + 1
    <2>1. ASSUME NEW i \in 1..Len(backlog), i # 1
          PROVE  i - 1 \in 1..Len(backlog') /\ i = (i - 1) + 1
      BY <1>3, <2>1
    <2> QED BY <2>1
  <1>6. 1 \in 1..Len(backlog)
    BY <1>3
  <1> HIDE DEF c
  <1>7. link[c] # "none" /\ c \notin clients /\ c \notin closing
    BY <1>2, <1>3, <1>6 DEF Links
  <1>8. /\ joined' \in [Clients -> Nat] /\ joined'[c] = taken[Server] /\ taken[Server] \in Nat
        /\ \A e \in Clients : e # c => joined'[e] = joined[e]
    <2>1. joined \in [Clients -> Nat] /\ taken[Server] \in Nat
      BY <1>2, <1>3, TunnelTypes DEF TunnelTyped
    <2> QED BY <1>1, <1>3, <2>1
  <1>9. TunnelTyped'
    BY <1>1, <1>2, <1>3, <1>8 DEF TunnelTyped
  <1>10. Links'
    <2>1. ASSUME NEW e \in Clients
          PROVE  /\ link[e] = "none" => /\ e \notin clients' /\ e \notin reading
                                        /\ taken[e] = 0 /\ up[e] = <<>>
                 /\ link[e] = "open" => e \in clients' \/ InBacklog(e)'
      <3>1. CASE e = c
        BY <1>1, <1>7, <3>1
      <3>2. CASE e # c
        <4>1. InBacklog(e) => InBacklog(e)'
          BY <1>3, <1>5, <3>2 DEF InBacklog
        <4> QED BY <1>1, <1>2, <3>2, <4>1 DEF Links
      <3> QED BY <3>1, <3>2
    <2>2. \A i, j \in 1..Len(backlog) : i # j => backlog[i] # backlog[j]
      BY <1>2 DEF Links
    <2>3. \A i, j \in 1..Len(backlog') : i # j => backlog'[i] # backlog'[j]
      <3>1. \A i, j \in 1..Len(backlog') : i # j => i + 1 # j + 1
        BY <1>3
      <3> QED BY <1>3, <1>4, <2>2, <3>1
    <2>4. \A i \in 1..Len(backlog') : backlog'[i] # c
      BY <1>3, <1>4, <1>6, <2>2
    <2>5. \A i \in 1..Len(backlog') : /\ link[backlog'[i]] # "none"
                                      /\ backlog'[i] \notin clients' /\ backlog'[i] \notin closing
      BY <1>1, <1>2, <1>3, <1>4, <2>4 DEF Links
    <2>6. \A e \in closing : link[e] = "lost"
      BY <1>2 DEF Links
    <2> QED BY <1>1, <2>1, <2>3, <2>5, <2>6 DEF Links
  <1>11. given' = given /\ PointInv' /\ (\A d \in Points : Moves(d)) /\ GivenInOrder(given[Server])'
    BY <1>1, Quiet
  <1>12. ASSUME NEW e \in Clients PROVE DownInv(e)'
    <2>1. CASE e # c
      BY <1>1, <1>2, <1>8, <1>11, <2>1, DownKept, Parts
    <2>2. CASE e = c
      <3>1. given[c] = <<>> /\ down[c] = <<>> /\ outbox[c] = <<>>
        BY <1>3, <1>7, Parts DEF DownInv
      <3>2. DownLine(<<>>, <<>>, <<>>, taken[Server], taken[Server], link[c] = "open", c \in clients')
        BY <1>8, DownStart
      <3> QED BY <1>1, <1>8, <1>11, <2>2, <3>1, <3>2 DEF DownInv
    <2> QED BY <2>1, <2>2
  <1>13. ASSUME NEW e \in Clients PROVE UpInv(e)'
    BY <1>1, <1>11, UpSame, Parts
  <1> QED BY <1>9, <1>10, <1>11, <1>12, <1>13 DEF IInv

\* When the server stops, what is still open is lost; all the rest is kept.
LEMMA LinksBreak ==
    ASSUME IInv, link' = [o \in Clients |-> IF link[o] = "open" THEN "lost" ELSE link[o]]
    PROVE  /\ link' \in [Clients -> {"none", "open", "lost"}]
           /\ \A e \in Clients : /\ link'[e] = link[e] \/ link'[e] = "lost"
                                 /\ link'[e] # "open"
                                 /\ e \in closing => link'[e] = "lost"
  <1>1. link \in [Clients -> {"none", "open", "lost"}] /\ \A e \in closing : link[e] = "lost"
    BY Parts DEF TunnelTyped, Links
  <1> QED BY <1>1

LEMMA AcceptThrowsInv ==
    ASSUME IInv, AcceptThrows
    PROVE  IInv' /\ \A d \in Points : Moves(d)
  <1>1. /\ running' = running \ {Server}
        /\ link' = [o \in Clients |-> IF link[o] = "open" THEN "lost" ELSE link[o]]
        /\ UNCHANGED pointVars /\ reading' = reading /\ taken' = taken
        /\ up' = up /\ down' = down /\ outbox' = outbox /\ backlog' = backlog
        /\ accepting' = accepting /\ clients' = clients /\ closing' = closing
        /\ failures' = failures /\ joined' = joined
    BY DEF AcceptThrows
  <1>2. TunnelTyped /\ Links
    BY Parts
  <1>3. /\ link' \in [Clients -> {"none", "open", "lost"}]
        /\ \A e \in Clients : /\ link'[e] = link[e] \/ link'[e] = "lost"
                              /\ link'[e] # "open"
                              /\ e \in closing => link'[e] = "lost"
    BY <1>1, LinksBreak
  <1>4. TunnelTyped'
    BY <1>1, <1>2, <1>3 DEF TunnelTyped
  <1>5. Links'
    <2>1. closing \subseteq Clients
      BY <1>2 DEF TunnelTyped
    <2> QED BY <1>1, <1>2, <1>3, <2>1, LinksKept
  <1>6. given' = given /\ PointInv' /\ (\A d \in Points : Moves(d)) /\ GivenInOrder(given[Server])'
    BY <1>1, Quiet
  <1>7. ASSUME NEW e \in Clients PROVE DownInv(e)' /\ UpInv(e)'
    BY <1>1, <1>2, <1>3, <1>6, DownKept, UpKept, Parts
  <1> QED BY <1>4, <1>5, <1>6, <1>7 DEF IInv

LEMMA OnAcceptErrorInv ==
    ASSUME IInv, OnAcceptError
    PROVE  IInv' /\ \A d \in Points : Moves(d)
  <1>1. /\ accepting' = FALSE /\ failures < MaxFailures /\ failures' = failures + 1
        /\ UNCHANGED pointVars /\ reading' = reading /\ taken' = taken /\ link' = link
        /\ up' = up /\ down' = down /\ outbox' = outbox /\ backlog' = backlog
        /\ clients' = clients /\ closing' = closing
        /\ running' = running /\ joined' = joined
    BY DEF OnAcceptError, Fails
  <1>2. TunnelTyped'
    <2>1. failures' \in 0..MaxFailures
      BY <1>1, Parts, BoundsAssumption DEF TunnelTyped
    <2> QED BY <1>1, <2>1, Parts DEF TunnelTyped
  <1>3. given' = given /\ PointInv' /\ (\A d \in Points : Moves(d))
    BY <1>1, Quiet
  <1> QED BY <1>1, <1>2, <1>3, AllSame

LEMMA ServerDeviceReadInv ==
    ASSUME IInv, ServerDeviceRead
    PROVE  IInv' /\ \A d \in Points : Moves(d)
  <1> DEFINE t == taken[Server]
             m == Data(<<Server, taken[Server] + 1>>)
  <1>1. /\ t < Reads[Server] /\ taken' = [taken EXCEPT ![Server] = @ + 1]
        /\ outbox' = [c \in Clients |-> IF c \in clients THEN Append(outbox[c], m) ELSE outbox[c]]
        /\ UNCHANGED pointVars /\ reading' = reading /\ link' = link /\ up' = up /\ down' = down
        /\ backlog' = backlog /\ accepting' = accepting
        /\ clients' = clients /\ closing' = closing /\ running' = running
        /\ failures' = failures /\ joined' = joined
    BY DEF ServerDeviceRead, WriteToClients
  <1>2. TunnelTyped /\ Links
    BY Parts
  <1>3. t \in Nat /\ t <= Reads[Server] /\ Reads[Server] \in Nat
    BY <1>2, ClientIs, PacketIs DEF TunnelTyped
  <1>4. m \in Message
    <2>1. t + 1 \in 1..Reads[Server]
      BY <1>1, <1>3
    <2> QED BY <2>1, ClientIs, PacketIs, MessageIs
  <1>5. /\ taken' \in [Points -> Nat] /\ taken'[Server] = t + 1
        /\ \A d \in Points : d # Server => taken'[d] = taken[d]
    <2>1. taken \in [Points -> Nat]
      BY <1>2 DEF TunnelTyped
    <2> QED BY <1>1, <1>3, <2>1, ClientIs
  <1> HIDE DEF m
  <1>6. /\ outbox' \in [Clients -> Seq(Message)]
        /\ \A c \in clients : outbox'[c] = Append(outbox[c], m)
        /\ \A c \in Clients : c \notin clients => outbox'[c] = outbox[c]
    <2>1. \A c \in Clients : Append(outbox[c], m) \in Seq(Message) /\ outbox[c] \in Seq(Message)
      BY <1>2, <1>4, TunnelTypes, Pushed
    <2>2. clients \subseteq Clients
      BY <1>2 DEF TunnelTyped
    <2> QED BY <1>1, <2>1, <2>2
  <1>7. TunnelTyped'
    <2>1. \A d \in Points : taken'[d] <= Reads[d]
      <3>1. taken'[Server] <= Reads[Server]
        BY <1>1, <1>3, <1>5
      <3>2. \A d \in Points : d # Server => taken'[d] <= Reads[d]
        BY <1>2, <1>5 DEF TunnelTyped
      <3> QED BY <3>1, <3>2
    <2> QED BY <1>1, <1>2, <1>5, <1>6, <2>1 DEF TunnelTyped
  <1>8. \A e \in Clients : taken'[e] = taken[e]
    BY <1>5, ClientIs
  <1>9. Links'
    <2>1. \A e \in closing' : link'[e] = "lost"
      BY <1>1, <1>2 DEF Links
    <2> QED BY <1>1, <1>2, <1>8, <2>1, LinksKept
  <1>10. given' = given /\ PointInv' /\ (\A d \in Points : Moves(d)) /\ GivenInOrder(given[Server])'
    BY <1>1, Quiet
  <1>11. ASSUME NEW e \in Clients PROVE UpInv(e)'
    BY <1>1, <1>8, <1>10, UpKept, Parts
  <1>12. ASSUME NEW e \in Clients PROVE DownInv(e)'
    <2>1. /\ given[e] \in Seq(Packets) /\ down[e] \in Seq(Message) /\ outbox[e] \in Seq(Message)
          /\ joined[e] \in Nat
      BY <1>2, TunnelTypes, ClientIs, Parts
    <2>2. DownLine(given[e], down[e], outbox[e], joined[e], t, link[e] = "open", e \in clients)
      BY Parts DEF DownInv
    <2>3. CASE e \in clients
      <3>1. (e \in clients) = TRUE
        BY <2>3
      <3>2. DownLine(given[e], down[e], outbox[e], joined[e], t, link[e] = "open", TRUE)
        BY <2>2, <3>1, Zenon
      <3>3. DownLine(given[e], down[e], Append(outbox[e], m), joined[e], t + 1,
                     link[e] = "open", TRUE)
        BY <1>3, <1>4, <2>1, <3>2, DownRead, Zenon DEF m
      <3>4. DownLine(given[e], down[e], outbox'[e], joined[e], taken'[Server],
                     link[e] = "open", e \in clients)
        BY <1>5, <1>6, <2>3, <3>1, <3>3, Zenon
      <3> QED BY <1>1, <1>10, <2>3, <3>4 DEF DownInv
    <2>4. CASE e \notin clients
      <3>1. DownLine(given[e], down[e], outbox[e], joined[e], t + 1, link[e] = "open", e \in clients)
        BY <2>2, <2>4 DEF DownLine
      <3>2. outbox'[e] = outbox[e]
        BY <1>6, <2>4
      <3> QED BY <1>1, <1>5, <1>10, <3>1, <3>2, Parts DEF DownInv
    <2> QED BY <2>3, <2>4
  <1> QED BY <1>7, <1>9, <1>10, <1>11, <1>12 DEF IInv

LEMMA DeviceReadErrorInv ==
    ASSUME IInv, NEW d \in Points, DeviceReadError(d)
    PROVE  IInv' /\ \A e \in Points : Moves(e)
  <1>1. /\ reading' = reading \ {d} /\ failures < MaxFailures /\ failures' = failures + 1
        /\ UNCHANGED pointVars /\ taken' = taken /\ link' = link
        /\ up' = up /\ down' = down /\ outbox' = outbox /\ backlog' = backlog
        /\ accepting' = accepting /\ clients' = clients /\ closing' = closing
        /\ running' = running /\ joined' = joined
    BY DEF DeviceReadError, Fails
  <1>2. TunnelTyped /\ Links
    BY Parts
  <1>3. TunnelTyped'
    <2>1. failures' \in 0..MaxFailures
      BY <1>1, <1>2, BoundsAssumption DEF TunnelTyped
    <2> QED BY <1>1, <1>2, <2>1 DEF TunnelTyped
  <1>4. Links'
    <2>1. \A e \in closing' : link'[e] = "lost"
      BY <1>1, <1>2 DEF Links
    <2>2. \A c \in Clients : c \notin reading => c \notin reading'
      BY <1>1
    <2> QED BY <1>1, <1>2, <2>1, <2>2, LinksKept
  <1>5. given' = given /\ PointInv' /\ (\A e \in Points : Moves(e)) /\ GivenInOrder(given[Server])'
    BY <1>1, Quiet
  <1>6. ASSUME NEW e \in Clients PROVE DownInv(e)' /\ UpInv(e)'
    BY <1>1, <1>5, DownSame, UpSame, Parts
  <1> QED BY <1>3, <1>4, <1>5, <1>6 DEF IInv

\* The server's device is given the next packet of one client.
LEMMA GivenNext ==
    ASSUME NEW g \in Seq(Packets), GivenInOrder(g), NEW c \in Clients, NEW k \in Nat,
           NEW p \in Packets, p = <<c, k + 1>>,
           Through(g, c, k)
    PROVE  /\ GivenInOrder(Append(g, p))
           /\ \A i \in 1..Len(g) : g[i] # p
           /\ Through(Append(g, p), c, k + 1)
           /\ \A e \in Clients : \A n : e # c /\ Through(g, e, n) => Through(Append(g, p), e, n)
  <1> DEFINE h == Append(g, p)
  <1>1. /\ Len(h) = Len(g) + 1 /\ Len(g) \in Nat
        /\ \A i \in 1..Len(g) : h[i] = g[i]
        /\ h[Len(g) + 1] = p
    BY Pushed
  <1> HIDE DEF h
  <1>2. /\ \A i \in 1..Len(h) : i \in 1..Len(g) \/ i = Len(g) + 1
        /\ \A i \in 1..Len(g) : i \in 1..Len(h)
        /\ Len(g) + 1 \in 1..Len(h)
    BY <1>1
  <1>3. p[1] = c /\ p[2] = k + 1
    OBVIOUS
  <1>4. \A i \in 1..Len(g) : g[i] # p
    <2>1. k + 1 \notin 1..k
      OBVIOUS
    <2> QED BY <1>3, <2>1 DEF Through
  <1>5. GivenInOrder(h)
    <2>1. ASSUME NEW i \in 1..Len(g) PROVE InOrder(h, i)
      <3>1. InOrder(g, i) /\ h[i] = g[i]
        BY <1>1 DEF GivenInOrder
      <3>2. \A j \in 1..(i - 1) : h[j] = g[j]
        BY <1>1
      <3> QED BY <3>1, <3>2 DEF InOrder
    <2>2. /\ p[1] \in Clients
          /\ p[2] > 1 => \E j \in 1..Len(g) : h[j] = <<p[1], p[2] - 1>>
          /\ \A j \in 1..Len(g) : h[j][1] = p[1] => h[j][2] < p[2]
      <3>1. ASSUME p[2] > 1 PROVE \E j \in 1..Len(g) : h[j] = <<p[1], p[2] - 1>>
        <4>1. k \in 1..k /\ p[2] - 1 = k
          BY <1>3, <3>1
        <4> QED BY <1>1, <1>3, <4>1 DEF Through
      <3>2. ASSUME NEW j \in 1..Len(g), h[j][1] = p[1] PROVE h[j][2] < p[2]
        <4>1. g[j][2] \in 1..k
          BY <1>1, <1>3, <3>2 DEF Through
        <4> QED BY <1>1, <1>3, <4>1
      <3> QED BY <1>3, <3>1, <3>2
    <2>3. InOrder(h, Len(g) + 1)
      <3>1. (Len(g) + 1) - 1 = Len(g)
        BY <1>1
      <3> QED BY <1>1, <2>2, <3>1 DEF InOrder
    <2> QED BY <1>2, <2>1, <2>3 DEF GivenInOrder
  <1>6. \A i \in 1..Len(h) : h[i][1] = c => h[i][2] \in 1..(k + 1)
    <2>1. 1..k \subseteq 1..(k + 1) /\ k + 1 \in 1..(k + 1)
      OBVIOUS
    <2> QED BY <1>1, <1>2, <1>3, <2>1 DEF Through
  <1>7. \A x \in 1..(k + 1) : \E i \in 1..Len(h) : h[i] = <<c, x>>
    <2>1. \A x \in 1..(k + 1) : x \in 1..k \/ x = k + 1
      OBVIOUS
    <2> QED BY <1>1, <1>2, <2>1 DEF Through
  <1>8. ASSUME NEW e \in Clients, NEW n, e # c, Through(g, e, n) PROVE Through(h, e, n)
    <2>1. \A i \in 1..Len(h) : h[i][1] = e => h[i][2] \in 1..n
      BY <1>1, <1>2, <1>3, <1>8 DEF Through
    <2>2. \A x \in 1..n : \E i \in 1..Len(h) : h[i] = <<e, x>>
      BY <1>1, <1>2, <1>8 DEF Through
    <2> QED BY <2>1, <2>2 DEF Through
  <1>9. Through(h, c, k + 1)
    BY <1>6, <1>7 DEF Through
  <1> QED BY <1>4, <1>5, <1>8, <1>9 DEF h

LEMMA ServerOnMessageInv ==
    ASSUME IInv, NEW c \in Clients, ServerOnMessage(c)
    PROVE  IInv' /\ \A d \in Points : Moves(d)
  <1>1. /\ c \in clients /\ up[c] # <<>> /\ up' = [up EXCEPT ![c] = Tail(@)]
        /\ IF Head(up[c]).tag = "TAG_DATA"
             THEN PostWrite(Server, Head(up[c]).packet) ELSE UNCHANGED pointVars
        /\ reading' = reading /\ taken' = taken /\ link' = link /\ down' = down
        /\ outbox' = outbox /\ backlog' = backlog /\ accepting' = accepting
        /\ clients' = clients /\ closing' = closing /\ running' = running
        /\ failures' = failures /\ joined' = joined
    BY DEF ServerOnMessage, WriteToDevice
  <1>2. TunnelTyped /\ Links /\ PointInv /\ PointTyped /\ GivenInOrder(given[Server])
    BY Parts
  <1>3. up[c] \in Seq(Message) /\ taken[c] \in Nat /\ given[Server] \in Seq(Packets)
    BY <1>2, TunnelTypes, PointTypes, ClientIs
  <1>4. /\ up' \in [Clients -> Seq(Message)] /\ up'[c] = Tail(up[c])
        /\ \A e \in Clients : e # c => up'[e] = up[e]
    <2>1. up \in [Clients -> Seq(Message)]
      BY <1>2 DEF TunnelTyped
    <2>2. Tail(up[c]) \in Seq(Message)
      BY <1>1, <1>3, Popped
    <2> QED BY <1>1, <2>1, <2>2, Updated, Zenon
  <1>5. TunnelTyped'
    BY <1>1, <1>2, <1>4 DEF TunnelTyped
  <1>6. Links'
    <2>1. \A e \in closing' : link'[e] = "lost"
      BY <1>1, <1>2 DEF Links
    <2>2. \A e \in Clients : up[e] = <<>> => up'[e] = up[e]
      BY <1>1, <1>4
    <2> QED BY <1>1, <1>2, <2>1, <2>2, LinksKept
  <1>7. PICK k \in 0..taken[c] :
              Arrived(c, k) /\ UpLine(c, up[c], k, taken[c], link[c] = "open")
    BY Parts DEF UpInv
  <1>8. k \in Nat
    BY <1>3, <1>7
  <1>9. \/ Head(up[c]) = Command /\ UpLine(c, Tail(up[c]), k, taken[c], link[c] = "open")
        \/ Head(up[c]) = Data(<<c, k + 1>>)
             /\ UpLine(c, Tail(up[c]), k + 1, taken[c], link[c] = "open")
    BY <1>1, <1>3, <1>7, <1>8, UpPop, Zenon
  <1>10. CASE Head(up[c]) = Command /\ UpLine(c, Tail(up[c]), k, taken[c], link[c] = "open")
    <2>1. UNCHANGED pointVars
      BY <1>1, <1>10, MessageIs
    <2>2. given' = given /\ PointInv' /\ (\A d \in Points : Moves(d)) /\ GivenInOrder(given[Server])'
      BY <2>1, Quiet
    <2>3. ASSUME NEW e \in Clients PROVE DownInv(e)'
      BY <1>1, <2>2, DownSame, Parts
    <2>4. ASSUME NEW e \in Clients PROVE UpInv(e)'
      <3>1. CASE e # c
        BY <1>1, <1>4, <2>2, <3>1, UpKept, Parts
      <3>2. CASE e = c
        <4>1. Arrived(c, k)'
          BY <1>7, <2>2 DEF Arrived, Through
        <4> QED BY <1>1, <1>4, <1>7, <1>10, <3>2, <4>1 DEF UpInv
      <3> QED BY <3>1, <3>2
    <2> QED BY <1>5, <1>6, <2>2, <2>3, <2>4 DEF IInv
  <1>11. CASE /\ Head(up[c]) = Data(<<c, k + 1>>)
              /\ UpLine(c, Tail(up[c]), k + 1, taken[c], link[c] = "open")
    <2> DEFINE p == <<c, k + 1>>
               g == given[Server]
    <2>1. p \in Packets
      <3>1. Head(up[c]) \in Message
        BY <1>1, <1>3, Popped
      <3>2. PICK q \in Packets : Data(p) = Data(q)
        BY <1>11, <3>1, MessageIs
      <3>3. p = q
        BY <3>2, MessageIs
      <3> QED BY <3>2, <3>3
    <2>2. p = <<c, k + 1>>
      OBVIOUS
    <2>3. PostWrite(Server, p)
      <3>1. Data(p).packet = p /\ Data(p).tag = "TAG_DATA"
        BY MessageIs
      <3>2. Head(up[c]).packet = p /\ Head(up[c]).tag = "TAG_DATA"
        BY <1>11, <3>1
      <3> QED BY <1>1, <3>2, Zenon
    <2>4. Through(g, c, k)
      BY <1>7 DEF Arrived
    <2> HIDE DEF p
    <2>5. /\ GivenInOrder(Append(g, p))
          /\ \A i \in 1..Len(g) : g[i] # p
          /\ Through(Append(g, p), c, k + 1)
          /\ \A e \in Clients : \A n : e # c /\ Through(g, e, n) => Through(Append(g, p), e, n)
      BY <1>2, <1>3, <1>8, <2>1, <2>2, <2>4, GivenNext
    <2>6. PointInv' /\ \A d \in Points : Moves(d)
      BY <1>2, <2>1, <2>3, <2>5, ClientIs, PostWriteMoves
    <2>7. given'[Server] = Append(g, p) /\ \A e \in Clients : given'[e] = given[e]
      <3>1. given' = [given EXCEPT ![Server] = Append(@, p)] /\ given \in [Points -> Seq(Packets)]
        BY <1>2, <2>3 DEF PostWrite, PointTyped
      <3> QED BY <3>1, ClientIs
    <2> HIDE DEF g
    <2>8. GivenInOrder(given[Server])'
      BY <2>5, <2>7 DEF GivenInOrder, InOrder
    <2>9. ASSUME NEW e \in Clients PROVE DownInv(e)'
      BY <1>1, <2>7, DownSame, Parts
    <2>10. ASSUME NEW e \in Clients PROVE UpInv(e)'
      <3>1. CASE e # c
        <4>1. PICK n \in 0..taken[e] :
                    Arrived(e, n) /\ UpLine(e, up[e], n, taken[e], link[e] = "open")
          BY Parts DEF UpInv
        <4>2. Through(g, e, n)
          BY <4>1 DEF Arrived, g
        <4>3. Through(Append(g, p), e, n)
          BY <2>5, <3>1, <4>2
        <4>4. Arrived(e, n)'
          BY <2>7, <4>3 DEF Arrived, Through
        <4> QED BY <1>1, <1>4, <3>1, <4>1, <4>4 DEF UpInv
      <3>2. CASE e = c
        <4>1. Arrived(c, k + 1)'
          BY <2>5, <2>7 DEF Arrived, Through
        <4>2. k + 1 \in 0..taken[c]
          <5>1. Tail(up[c]) \in Seq(Message)
            BY <1>1, <1>3, Popped
          <5>2. Len(Waiting(Tail(up[c]))) \in Nat
            BY <5>1, WaitingIs
          <5>3. k + 1 + Len(Waiting(Tail(up[c]))) <= taken[c]
            BY <1>11 DEF UpLine
          <5> QED BY <1>3, <1>8, <5>2, <5>3
        <4> QED BY <1>1, <1>4, <1>11, <3>2, <4>1, <4>2 DEF UpInv
      <3> QED BY <3>1, <3>2
    <2> QED BY <1>5, <1>6, <2>6, <2>8, <2>9, <2>10 DEF IInv
  <1> QED BY <1>9, <1>10, <1>11

LEMMA ServerReadErrorInv ==
    ASSUME IInv, NEW c \in Clients, ServerReadError(c)
    PROVE  IInv' /\ \A d \in Points : Moves(d)
  <1>1. /\ c \in clients /\ link[c] = "lost" /\ closing' = closing \cup {c}
        /\ UNCHANGED pointVars /\ reading' = reading /\ taken' = taken /\ link' = link
        /\ up' = up /\ down' = down /\ outbox' = outbox /\ backlog' = backlog
        /\ accepting' = accepting /\ clients' = clients /\ running' = running
        /\ failures' = failures /\ joined' = joined
    BY DEF ServerReadError
  <1>2. TunnelTyped /\ Links
    BY Parts
  <1>3. TunnelTyped'
    BY <1>1, <1>2 DEF TunnelTyped
  <1>4. Links'
    <2>1. \A e \in closing' : link'[e] = "lost"
      BY <1>1, <1>2 DEF Links
    <2> QED BY <1>1, <1>2, <2>1, LinksKept
  <1>5. given' = given /\ PointInv' /\ (\A d \in Points : Moves(d)) /\ GivenInOrder(given[Server])'
    BY <1>1, Quiet
  <1>6. ASSUME NEW e \in Clients PROVE DownInv(e)' /\ UpInv(e)'
    BY <1>1, <1>2, <1>5, DownKept, UpSame, Parts
  <1> QED BY <1>3, <1>4, <1>5, <1>6 DEF IInv

\* A client's queue at the server changes when its connection is lost.
LEMMA OutboxLost ==
    ASSUME IInv, NEW c \in Clients, NEW q \in Seq(Message), outbox' = [outbox EXCEPT ![c] = q],
           link[c] = "lost", c \in clients \/ c \in closing,
           closing \subseteq closing', clients' = clients, closing' \subseteq closing \cup {c},
           c \in closing',
           given' = given, down' = down, joined' = joined, taken' = taken,
           \A e \in Clients : link'[e] = link[e] \/ link'[e] = "lost"
    PROVE  /\ outbox' \in [Clients -> Seq(Message)]
           /\ \A e \in Clients : DownInv(e)'
  <1>1. TunnelTyped /\ Links
    BY Parts
  <1>2. /\ outbox' \in [Clients -> Seq(Message)]
        /\ \A e \in Clients : e # c => outbox'[e] = outbox[e]
    <2>1. outbox \in [Clients -> Seq(Message)]
      BY <1>1 DEF TunnelTyped
    <2> QED BY <2>1, Updated, Zenon
  <1>3. ASSUME NEW e \in Clients PROVE DownInv(e)'
    <2>1. CASE e # c
      <3>1. link'[e] = "open" => link[e] = "open"
        OBVIOUS
      <3>2. e \notin clients' /\ e \notin closing' => e \notin clients /\ e \notin closing
        BY <2>1
      <3> QED BY <1>1, <1>2, <2>1, <3>1, <3>2, DownKept, Parts
    <2>2. CASE e = c
      <3>1. DownLine(given[c], down[c], outbox[c], joined[c], taken[Server],
                     link[c] = "open", c \in clients)
        BY Parts DEF DownInv
      <3>2. DownLine(given[c], down[c], outbox'[c], joined[c], taken[Server], FALSE, c \in clients')
        BY <3>1, DownLost
      <3>3. (link'[c] = "open") = FALSE
        OBVIOUS
      <3>4. DownLine(given[c], down[c], outbox'[c], joined[c], taken[Server],
                     link'[c] = "open", c \in clients')
        BY <3>2, <3>3, Zenon
      <3> QED BY <2>2, <3>4 DEF DownInv
    <2> QED BY <2>1, <2>2
  <1> QED BY <1>2, <1>3

LEMMA ServerWriteErrorInv ==
    ASSUME IInv, NEW c \in Clients, ServerWriteError(c)
    PROVE  IInv' /\ \A d \in Points : Moves(d)
  <1>1. /\ c \in clients /\ link[c] = "lost" /\ closing' = closing \cup {c}
        /\ outbox[c] # <<>> /\ outbox' = [outbox EXCEPT ![c] = Tail(@)]
        /\ UNCHANGED pointVars /\ reading' = reading /\ taken' = taken /\ link' = link
        /\ up' = up /\ down' = down /\ backlog' = backlog
        /\ accepting' = accepting /\ clients' = clients /\ running' = running
        /\ failures' = failures /\ joined' = joined
    BY DEF ServerWriteError
  <1>2. TunnelTyped /\ Links
    BY Parts
  <1>3. Tail(outbox[c]) \in Seq(Message)
    BY <1>1, <1>2, TunnelTypes, Popped
  <1>4. given' = given /\ PointInv' /\ (\A d \in Points : Moves(d)) /\ GivenInOrder(given[Server])'
    BY <1>1, Quiet
  <1>5. outbox' \in [Clients -> Seq(Message)] /\ \A e \in Clients : DownInv(e)'
    BY <1>1, <1>3, <1>4, OutboxLost
  <1>6. TunnelTyped'
    BY <1>1, <1>2, <1>5 DEF TunnelTyped
  <1>7. Links'
    <2>1. \A e \in closing' : link'[e] = "lost"
      BY <1>1, <1>2 DEF Links
    <2> QED BY <1>1, <1>2, <2>1, LinksKept
  <1>8. ASSUME NEW e \in Clients PROVE UpInv(e)'
    BY <1>1, <1>4, UpSame, Parts
  <1> QED BY <1>4, <1>5, <1>6, <1>7, <1>8 DEF IInv

LEMMA OnCloseInv ==
    ASSUME IInv, NEW c \in Clients, OnClose(c)
    PROVE  IInv' /\ \A d \in Points : Moves(d)
  <1>1. /\ c \in clients /\ c \in closing /\ clients' = clients \ {c}
        /\ UNCHANGED pointVars /\ reading' = reading /\ taken' = taken /\ link' = link
        /\ up' = up /\ down' = down /\ outbox' = outbox /\ backlog' = backlog
        /\ accepting' = accepting /\ closing' = closing /\ running' = running
        /\ failures' = failures /\ joined' = joined
    BY DEF OnClose
  <1>2. TunnelTyped /\ Links
    BY Parts
  <1>3. TunnelTyped'
    BY <1>1, <1>2 DEF TunnelTyped
  <1>4. \A e \in closing : link[e] = "lost"
    BY <1>2 DEF Links
  <1>5. Links'
    BY <1>1, <1>2, <1>4, LinksKept
  <1>6. given' = given /\ PointInv' /\ (\A d \in Points : Moves(d)) /\ GivenInOrder(given[Server])'
    BY <1>1, Quiet
  <1>7. ASSUME NEW e \in Clients PROVE DownInv(e)' /\ UpInv(e)'
    <2>1. link'[e] = "open" => (e \in clients <=> e \in clients')
      BY <1>1, <1>4
    <2>2. e \notin clients' /\ e \notin closing' => e \notin clients /\ e \notin closing
      BY <1>1
    <2> QED BY <1>1, <1>2, <1>6, <2>1, <2>2, DownKept, UpSame, Parts
  <1> QED BY <1>3, <1>5, <1>6, <1>7 DEF IInv

LEMMA StaleHandlerInv ==
    ASSUME IInv, NEW c \in Clients, StaleHandler(c)
    PROVE  IInv' /\ \A d \in Points : Moves(d)
  <1>1. /\ c \in closing /\ outbox' = [outbox EXCEPT ![c] = <<>>]
        /\ \/ running' = running /\ link' = link
           \/ /\ running' = running \ {Server}
              /\ link' = [o \in Clients |-> IF link[o] = "open" THEN "lost" ELSE link[o]]
        /\ UNCHANGED pointVars /\ reading' = reading /\ taken' = taken
        /\ up' = up /\ down' = down /\ backlog' = backlog
        /\ accepting' = accepting /\ clients' = clients /\ closing' = closing
        /\ failures' = failures /\ joined' = joined
    BY DEF StaleHandler
  <1>2. TunnelTyped /\ Links
    BY Parts
  <1>3. /\ link' \in [Clients -> {"none", "open", "lost"}]
        /\ \A e \in Clients : /\ link'[e] = link[e] \/ link'[e] = "lost"
                              /\ e \in closing => link'[e] = "lost"
        /\ running' \subseteq Points
    <2>1. link \in [Clients -> {"none", "open", "lost"}] /\ \A e \in closing : link[e] = "lost"
      BY <1>2 DEF TunnelTyped, Links
    <2>2. running \subseteq Points
      BY <1>2 DEF TunnelTyped
    <2> QED BY <1>1, <2>1, <2>2, LinksBreak
  <1>4. link[c] = "lost" /\ closing \subseteq Clients
    BY <1>1, <1>2 DEF Links, TunnelTyped
  <1>5. given' = given /\ PointInv' /\ (\A d \in Points : Moves(d)) /\ GivenInOrder(given[Server])'
    BY <1>1, Quiet
  <1>6. outbox' \in [Clients -> Seq(Message)] /\ \A e \in Clients : DownInv(e)'
    <2>1. <<>> \in Seq(Message)
      OBVIOUS
    <2>2. closing \subseteq closing' /\ closing' \subseteq closing \cup {c} /\ c \in closing'
      BY <1>1
    <2> QED BY <1>1, <1>3, <1>4, <1>5, <2>1, <2>2, OutboxLost
  <1>7. TunnelTyped'
    BY <1>1, <1>2, <1>3, <1>6 DEF TunnelTyped
  <1>8. Links'
    BY <1>1, <1>2, <1>3, <1>4, LinksKept
  <1>9. ASSUME NEW e \in Clients PROVE UpInv(e)'
    <2>1. link'[e] = "open" => link[e] = "open"
      BY <1>3
    <2> QED BY <1>1, <1>5, <2>1, UpKept, Parts
  <1> QED BY <1>5, <1>6, <1>7, <1>8, <1>9 DEF IInv

(***************************************************************************)
(* Devices and network.                                                      *)
(***************************************************************************)
LEMMA DeviceStepInv ==
    ASSUME IInv, NEW d \in Points, DeviceStep(d)
    PROVE  IInv' /\ \A e \in Points : Moves(e)
  <1>1. /\ PointStep(d) /\ reading' = reading /\ taken' = taken /\ link' = link
        /\ up' = up /\ down' = down /\ outbox' = outbox /\ backlog' = backlog
        /\ accepting' = accepting /\ clients' = clients /\ closing' = closing
        /\ running' = running /\ failures' = failures /\ joined' = joined
    BY DEF DeviceStep, tunnelVars
  <1>2. PointInv' /\ (\A e \in Points : Moves(e)) /\ given' = given
    BY <1>1, PointStepMoves, Parts
  <1>3. TunnelTyped'
    BY <1>1, Parts DEF TunnelTyped
  <1> QED BY <1>1, <1>2, <1>3, AllSame

LEMMA DeviceWriteErrorInv ==
    ASSUME IInv, NEW d \in Points, DeviceWriteError(d)
    PROVE  IInv' /\ \A e \in Points : Moves(e)
  <1>1. /\ WriteError(d) /\ failures < MaxFailures /\ failures' = failures + 1
        /\ reading' = reading /\ taken' = taken /\ link' = link
        /\ up' = up /\ down' = down /\ outbox' = outbox /\ backlog' = backlog
        /\ accepting' = accepting /\ clients' = clients /\ closing' = closing
        /\ running' = running /\ joined' = joined
    BY DEF DeviceWriteError, Fails
  <1>2. PointInv' /\ (\A e \in Points : Moves(e)) /\ given' = given
    BY <1>1, WriteErrorMoves, Parts DEF WriteError
  <1>3. TunnelTyped'
    <2>1. failures' \in 0..MaxFailures
      BY <1>1, Parts, BoundsAssumption DEF TunnelTyped
    <2> QED BY <1>1, <2>1, Parts DEF TunnelTyped
  <1> QED BY <1>1, <1>2, <1>3, AllSame

LEMMA SendInv ==
    ASSUME IInv, NEW c \in Clients, Send(c)
    PROVE  IInv' /\ \A d \in Points : Moves(d)
  <1>1. /\ c \in clients /\ link[c] = "open" /\ outbox[c] # <<>>
        /\ outbox' = [outbox EXCEPT ![c] = Tail(@)]
        /\ down' = [down EXCEPT ![c] = Append(@, Head(outbox[c]))]
        /\ UNCHANGED pointVars /\ reading' = reading /\ taken' = taken /\ link' = link
        /\ up' = up /\ backlog' = backlog /\ accepting' = accepting
        /\ clients' = clients /\ closing' = closing /\ running' = running
        /\ failures' = failures /\ joined' = joined
    BY DEF Send
  <1>2. TunnelTyped /\ Links
    BY Parts
  <1>3. /\ down[c] \in Seq(Message) /\ outbox[c] \in Seq(Message) /\ joined[c] \in Nat
        /\ taken[Server] \in Nat /\ given[c] \in Seq(Packets)
    BY <1>2, TunnelTypes, ClientIs, Parts
  <1>4. /\ Tail(outbox[c]) \in Seq(Message) /\ Head(outbox[c]) \in Message
        /\ Append(down[c], Head(outbox[c])) \in Seq(Message)
    BY <1>1, <1>3, Popped, Pushed
  <1>5. /\ outbox' \in [Clients -> Seq(Message)] /\ outbox'[c] = Tail(outbox[c])
        /\ \A e \in Clients : e # c => outbox'[e] = outbox[e]
    <2>1. outbox \in [Clients -> Seq(Message)]
      BY <1>2 DEF TunnelTyped
    <2> QED BY <1>1, <1>4, <2>1, Updated, Zenon
  <1>6. /\ down' \in [Clients -> Seq(Message)] /\ down'[c] = Append(down[c], Head(outbox[c]))
        /\ \A e \in Clients : e # c => down'[e] = down[e]
    <2>1. down \in [Clients -> Seq(Message)]
      BY <1>2 DEF TunnelTyped
    <2> QED BY <1>1, <1>4, <2>1, Updated, Zenon
  <1>7. TunnelTyped'
    BY <1>1, <1>2, <1>5, <1>6 DEF TunnelTyped
  <1>8. Links'
    BY <1>1, <1>2, LinksSame
  <1>9. given' = given /\ PointInv' /\ (\A d \in Points : Moves(d)) /\ GivenInOrder(given[Server])'
    BY <1>1, Quiet
  <1>10. ASSUME NEW e \in Clients PROVE UpInv(e)'
    BY <1>1, <1>9, UpSame, Parts
  <1>11. ASSUME NEW e \in Clients PROVE DownInv(e)'
    <2>1. CASE e # c
      BY <1>1, <1>2, <1>5, <1>6, <1>9, <2>1, DownKept, Parts
    <2>2. CASE e = c
      <3>1. (link[c] = "open") = TRUE
        BY <1>1
      <3>2. DownLine(given[c], down[c], outbox[c], joined[c], taken[Server],
                     link[c] = "open", c \in clients)
        BY Parts DEF DownInv
      <3>3. DownLine(given[c], down[c], outbox[c], joined[c], taken[Server], TRUE, c \in clients)
        BY <3>1, <3>2, Zenon
      <3>4. DownLine(given[c], Append(down[c], Head(outbox[c])), Tail(outbox[c]), joined[c],
                     taken[Server], TRUE, c \in clients)
        BY <1>1, <1>3, <3>3, DownSend, Zenon
      <3>5. DownLine(given[c], down'[c], outbox'[c], joined[c],
                     taken[Server], link[c] = "open", c \in clients)
        BY <1>5, <1>6, <3>1, <3>4, Zenon
      <3> QED BY <1>1, <1>9, <2>2, <3>5 DEF DownInv
    <2> QED BY <2>1, <2>2
  <1> QED BY <1>7, <1>8, <1>9, <1>10, <1>11 DEF IInv

LEMMA LoseInv ==
    ASSUME IInv, NEW c \in Clients, Lose(c)
    PROVE  IInv' /\ \A d \in Points : Moves(d)
  <1>1. /\ link[c] = "open" /\ failures < MaxFailures /\ failures' = failures + 1
        /\ link' = [link EXCEPT ![c] = "lost"]
        /\ UNCHANGED pointVars /\ reading' = reading /\ taken' = taken /\ outbox' = outbox
        /\ backlog' = backlog /\ accepting' = accepting
        /\ clients' = clients /\ closing' = closing /\ running' = running /\ joined' = joined
    BY DEF Lose, Fails
  <1>2. PICK i \in 0..Len(up[c]), j \in 0..Len(down[c]) :
              /\ up' = [up EXCEPT ![c] = SubSeq(@, 1, i)]
              /\ down' = [down EXCEPT ![c] = SubSeq(@, 1, j)]
    BY DEF Lose
  <1>3. TunnelTyped /\ Links
    BY Parts
  <1>4. /\ up[c] \in Seq(Message) /\ down[c] \in Seq(Message) /\ joined[c] \in Nat
        /\ taken[c] \in Nat /\ taken[Server] \in Nat /\ given[c] \in Seq(Packets)
    BY <1>3, TunnelTypes, ClientIs, Parts
  <1>5. SubSeq(up[c], 1, i) \in Seq(Message) /\ SubSeq(down[c], 1, j) \in Seq(Message)
    BY <1>4, Cut
  <1>6. /\ up' \in [Clients -> Seq(Message)] /\ up'[c] = SubSeq(up[c], 1, i)
        /\ \A e \in Clients : e # c => up'[e] = up[e]
    <2>1. up \in [Clients -> Seq(Message)]
      BY <1>3 DEF TunnelTyped
    <2> QED BY <1>2, <1>5, <2>1, Updated, Zenon
  <1>7. /\ down' \in [Clients -> Seq(Message)] /\ down'[c] = SubSeq(down[c], 1, j)
        /\ \A e \in Clients : e # c => down'[e] = down[e]
    <2>1. down \in [Clients -> Seq(Message)]
      BY <1>3 DEF TunnelTyped
    <2> QED BY <1>2, <1>5, <2>1, Updated, Zenon
  <1>8. /\ link' \in [Clients -> {"none", "open", "lost"}] /\ link'[c] = "lost"
        /\ \A e \in Clients : e # c => link'[e] = link[e]
    <2>1. link \in [Clients -> {"none", "open", "lost"}]
      BY <1>3 DEF TunnelTyped
    <2> QED BY <1>1, <2>1
  <1>9. TunnelTyped'
    <2>1. failures' \in 0..MaxFailures
      BY <1>1, <1>3, BoundsAssumption DEF TunnelTyped
    <2> QED BY <1>1, <1>3, <1>6, <1>7, <1>8, <2>1 DEF TunnelTyped
  <1>10. Links'
    <2>1. \A e \in Clients : link'[e] = link[e] \/ link'[e] = "lost"
      BY <1>8
    <2>2. \A e \in closing' : link'[e] = "lost"
      BY <1>1, <1>3, <1>8 DEF Links, TunnelTyped
    <2>3. \A e \in Clients : link'[e] = "none" => up'[e] = up[e]
      BY <1>6, <1>8
    <2> QED BY <1>1, <1>3, <2>1, <2>2, <2>3, LinksKept
  <1>11. given' = given /\ PointInv' /\ (\A d \in Points : Moves(d)) /\ GivenInOrder(given[Server])'
    BY <1>1, Quiet
  <1>12. (link'[c] = "open") = FALSE
    BY <1>8
  <1>13. ASSUME NEW e \in Clients PROVE DownInv(e)'
    <2>1. CASE e # c
      BY <1>1, <1>3, <1>7, <1>8, <1>11, <2>1, DownKept, Parts
    <2>2. CASE e = c
      <3>1. DownLine(given[c], down[c], outbox[c], joined[c], taken[Server],
                     link[c] = "open", c \in clients)
        BY Parts DEF DownInv
      <3>2. DownLine(given[c], SubSeq(down[c], 1, j), outbox[c], joined[c], taken[Server],
                     FALSE, c \in clients)
        BY <1>4, <3>1, DownCut, Zenon
      <3>3. DownLine(given[c], down'[c], outbox[c], joined[c], taken[Server],
                     link'[c] = "open", c \in clients)
        BY <1>7, <1>12, <3>2, Zenon
      <3>4. c \notin clients /\ c \notin closing => given[c] = <<>> /\ down'[c] = <<>> /\ outbox[c] = <<>>
        <4>1. ASSUME c \notin clients, c \notin closing
              PROVE  given[c] = <<>> /\ down'[c] = <<>> /\ outbox[c] = <<>>
          <5>1. given[c] = <<>> /\ down[c] = <<>> /\ outbox[c] = <<>>
            BY <4>1, Parts DEF DownInv
          <5>2. Len(down'[c]) = 0 /\ down'[c] \in Seq(Message)
            <6>1. Len(down[c]) = 0
              BY <5>1
            <6>2. j = 0
              BY <6>1
            <6> QED BY <1>4, <1>5, <1>7, <6>2, Cut
          <5> QED BY <5>1, <5>2
        <4> QED BY <4>1
      <3> QED BY <1>1, <1>11, <2>2, <3>3, <3>4 DEF DownInv
    <2> QED BY <2>1, <2>2
  <1>14. ASSUME NEW e \in Clients PROVE UpInv(e)'
    <2>1. CASE e # c
      BY <1>1, <1>6, <1>8, <1>11, <2>1, UpKept, Parts
    <2>2. CASE e = c
      <3>1. PICK k \in 0..taken[c] :
                  Arrived(c, k) /\ UpLine(c, up[c], k, taken[c], link[c] = "open")
        BY Parts DEF UpInv
      <3>2. k \in Nat
        BY <1>4, <3>1
      <3>3. UpLine(c, SubSeq(up[c], 1, i), k, taken[c], FALSE)
        BY <1>4, <3>1, <3>2, UpCut, Zenon
      <3>4. UpLine(c, up'[c], k, taken[c], link'[c] = "open")
        BY <1>6, <1>12, <3>3, Zenon
      <3>5. Arrived(c, k)'
        BY <1>11, <3>1 DEF Arrived, Through
      <3> QED BY <1>1, <2>2, <3>1, <3>4, <3>5 DEF UpInv
    <2> QED BY <2>1, <2>2
  <1> QED BY <1>9, <1>10, <1>11, <1>13, <1>14 DEF IInv

(***************************************************************************)
(* The theorems.                                                             *)
(***************************************************************************)
LEMMA InitInv == Init => IInv
  <1> SUFFICES ASSUME Init PROVE IInv
    OBVIOUS
  <1>1. /\ PointInit /\ reading = {Server} /\ taken = [d \in Points |-> 0]
        /\ link = [c \in Clients |-> "none"]
        /\ up = [c \in Clients |-> <<>>] /\ down = [c \in Clients |-> <<>>]
        /\ outbox = [c \in Clients |-> <<>>] /\ backlog = <<>> /\ accepting = TRUE
        /\ clients = {} /\ closing = {} /\ running = Points /\ failures = 0
        /\ joined = [c \in Clients |-> 0]
    BY DEF Init
  <1>2. PointInv
    <2>1. /\ posted = [d \in Points |-> <<>>] /\ queue = [d \in Points |-> <<>>]
          /\ total = [d \in Points |-> NoOp] /\ bytes = [d \in Points |-> NoOp]
          /\ given = [d \in Points |-> <<>>] /\ settled = [d \in Points |-> <<>>]
          /\ out = [d \in Points |-> <<>>]
      BY <1>1 DEF PointInit
    <2>2. PointTyped
      BY <2>1, NoOpIs DEF PointTyped
    <2>3. ASSUME NEW d \in Points PROVE Operation(d) /\ InLine(d)
      BY <2>1 DEF Operation, IsOperation, InLine, IsLine
    <2> QED BY <2>2, <2>3 DEF PointInv
  <1>3. /\ \A d \in Points : given[d] = <<>>
        /\ Server \in Points /\ Clients \subseteq Points
    BY <1>1, ClientIs DEF PointInit
  <1>4. TunnelTyped
    <2>1. \A d \in Points : taken[d] <= Reads[d]
      <3>1. \A d \in Points : Reads[d] \in Nat /\ taken[d] = 0
        BY <1>1, BoundsAssumption, Zenon
      <3>2. \A n \in Nat : 0 <= n
        OBVIOUS
      <3> QED BY <3>1, <3>2, Zenon
    <2>2. 0 \in 0..MaxFailures
      BY BoundsAssumption
    <2> QED BY <1>1, <1>3, <2>1, <2>2 DEF TunnelTyped
  <1>5. Links
    BY <1>1, ClientIs DEF Links, InBacklog
  <1>6. GivenInOrder(given[Server])
    BY <1>3 DEF GivenInOrder
  <1>7. ASSUME NEW c \in Clients PROVE DownInv(c) /\ UpInv(c)
    <2>1. /\ given[c] = <<>> /\ given[Server] = <<>> /\ up[c] = <<>> /\ down[c] = <<>>
          /\ outbox[c] = <<>> /\ joined[c] = 0 /\ taken[Server] = 0 /\ taken[c] = 0
          /\ link[c] = "none"
      BY <1>1, <1>3
    <2>2. DownInv(c)
      BY <2>1, DownStart DEF DownInv
    <2>3. Arrived(c, 0)
      BY <2>1 DEF Arrived, Through
    <2>4. Waiting(<<>>) = <<>>
      BY DEF Waiting
    <2>5. UpLine(c, <<>>, 0, 0, FALSE)
      BY <2>4 DEF UpLine, Numbered
    <2>6. UpLine(c, up[c], 0, taken[c], link[c] = "open") /\ 0 \in 0..taken[c]
      BY <2>1, <2>5 DEF UpLine
    <2> QED BY <2>2, <2>3, <2>6 DEF UpInv
  <1> QED BY <1>2, <1>4, <1>5, <1>6, <1>7 DEF IInv

LEMMA NextInv ==
    ASSUME IInv, [Next]_vars
    PROVE  IInv' /\ (UNCHANGED pointVars \/ \A d \in Points : Moves(d))
  <1>1. CASE UNCHANGED vars
    <2>1. /\ UNCHANGED pointVars /\ reading' = reading /\ taken' = taken /\ link' = link
          /\ up' = up /\ down' = down /\ outbox' = outbox /\ backlog' = backlog
          /\ accepting' = accepting /\ clients' = clients /\ closing' = closing
          /\ running' = running /\ failures' = failures /\ joined' = joined
      BY <1>1 DEF vars, tunnelVars
    <2>2. TunnelTyped'
      BY <2>1, Parts DEF TunnelTyped
    <2> QED BY <2>1, <2>2, Quiet, AllSame
  <1>2. ASSUME NEW c \in Clients, ClientStep(c)
        PROVE  IInv' /\ \A d \in Points : Moves(d)
    <2>1. OnConnect(c) \/ ClientDeviceRead(c) \/ ClientOnMessage(c) \/ ClientError(c)
      BY <1>2 DEF ClientStep
    <2> QED BY <2>1, OnConnectInv, ClientDeviceReadInv, ClientOnMessageInv, ClientErrorInv
  <1>3. ASSUME NEW c \in Clients, ServerStep(c)
        PROVE  IInv' /\ \A d \in Points : Moves(d)
    <2>1. \/ ServerOnMessage(c) \/ ServerReadError(c) \/ ServerWriteError(c)
          \/ OnClose(c) \/ StaleHandler(c) \/ Send(c)
      BY <1>3 DEF ServerStep
    <2> QED BY <2>1, ServerOnMessageInv, ServerReadErrorInv, ServerWriteErrorInv, OnCloseInv,
               StaleHandlerInv, SendInv
  <1>4. ASSUME NEW c \in Clients, OnConnectError(c) \/ Lose(c)
        PROVE  IInv' /\ \A d \in Points : Moves(d)
    BY <1>4, OnConnectErrorInv, LoseInv
  <1>5. ASSUME OnAcceptClient \/ AcceptThrows \/ OnAcceptError \/ ServerDeviceRead
        PROVE  IInv' /\ \A d \in Points : Moves(d)
    BY <1>5, OnAcceptClientInv, AcceptThrowsInv, OnAcceptErrorInv, ServerDeviceReadInv
  <1>6. ASSUME NEW d \in Points, DeviceReadError(d) \/ DeviceStep(d) \/ DeviceWriteError(d)
        PROVE  IInv' /\ \A e \in Points : Moves(e)
    BY <1>6, DeviceReadErrorInv, DeviceStepInv, DeviceWriteErrorInv
  <1>7. CASE Next
    BY <1>2, <1>3, <1>4, <1>5, <1>6, <1>7 DEF Next
  <1> QED BY <1>1, <1>7

\* The invariant holds, of every step.
THEOREM Invariance == Spec => []IInv
  <1>1. IInv /\ [Next]_vars => IInv'
    BY NextInv
  <1> QED BY <1>1, InitInv, PTL DEF Spec

LEMMA BacklogRange ==
    ASSUME backlog \in Seq(Clients)
    PROVE  \A c : InBacklog(c) => c \in Range(backlog)
  BY DEF InBacklog, Range

\* Of a client's packets, so many are on the way or arrived.
AllThere(g, v, o, j, t) == t - j = Len(g) + Len(v) + Len(o)

LEMMA InAll ==
    ASSUME NEW S, NEW T, NEW g \in Seq(S), NEW v \in Seq(T), NEW o \in Seq(T),
           NEW j \in Nat, NEW t \in Nat, t = j + Len(g) + Len(v) + Len(o)
    PROVE  AllThere(g, v, o, j, t)
  <1>1. Len(g) \in Nat /\ Len(v) \in Nat /\ Len(o) \in Nat
    OBVIOUS
  <1> QED BY <1>1 DEF AllThere

LEMMA InvSays == IInv => EachGetsItsPackets
  <1> SUFFICES ASSUME IInv PROVE EachGetsItsPackets
    OBVIOUS
  <1>1. TunnelTyped /\ PointInv /\ PointTyped /\ Links /\ GivenInOrder(given[Server])
    BY Parts
  <1>2. TypeOK
    <2>1. ASSUME NEW d \in Points
          PROVE  /\ total[d] \in NoOp..(Length[d] - 1) /\ bytes[d] \in NoOp..Length[d]
                 /\ given[d] \in Seq(Packets) /\ queue[d] \in Seq(Packets)
      <3>1. IsOperation(total[d], bytes[d], queue[d], Length[d])
        BY <1>1 DEF PointInv, Operation
      <3>2. /\ total[d] \in Int /\ bytes[d] \in Int /\ Length[d] \in Nat /\ Length[d] > 0
            /\ given[d] \in Seq(Packets) /\ queue[d] \in Seq(Packets)
        BY <1>1, PointTypes
      <3> QED BY <3>1, <3>2, NoOpIs DEF IsOperation
    <2>2. ASSUME NEW c \in Clients
          PROVE  up[c] \in Seq(Message) /\ down[c] \in Seq(Message) /\ outbox[c] \in Seq(Message)
      BY <1>1, TunnelTypes
    <2> QED BY <1>1, <2>1, <2>2 DEF TypeOK, TunnelTyped
  <1>3. ASSUME NEW c \in Clients
        PROVE  DownLine(given[c], down[c], outbox[c], joined[c], taken[Server],
                        link[c] = "open", c \in clients)
    BY Parts DEF DownInv
  <1>4. PacketsInOrder
    <2>1. \A c \in Clients : \A i \in 1..Len(given[c]) : given[c][i] = <<Server, joined[c] + i>>
      BY <1>3 DEF DownLine
    <2>2. ASSUME NEW i \in 1..Len(given[Server])
          PROVE  LET p == given[Server][i]
                     before == {given[Server][j] : j \in 1..(i - 1)} IN
                 /\ p[1] \in Clients
                 /\ p[2] > 1 => <<p[1], p[2] - 1>> \in before
                 /\ \A q \in before : q[1] = p[1] => q[2] < p[2]
      <3>1. InOrder(given[Server], i)
        BY <1>1 DEF GivenInOrder
      <3> QED BY <3>1 DEF InOrder
    <2> QED BY <2>1, <2>2 DEF PacketsInOrder
  <1>5. ServedWhileConnected
    <2>1. \A c \in Clients : link[c] = "open" => c \in clients \/ InBacklog(c)
      BY <1>1 DEF Links
    <2>2. \A c : InBacklog(c) => c \in Range(backlog)
      BY <1>1, BacklogRange DEF TunnelTyped
    <2>3. closing \subseteq {c \in Clients : link[c] = "lost"}
      BY <1>1 DEF TunnelTyped, Links
    <2> QED BY <2>1, <2>2, <2>3 DEF ServedWhileConnected
  <1>6. NothingSkipped
    <2>1. ASSUME NEW c \in clients, link[c] = "open"
          PROVE  taken[Server] - joined[c] = Len(given[c]) + Len(down[c]) + Len(outbox[c])
      <3>1. c \in Clients
        BY <1>1 DEF TunnelTyped
      <3>2. taken[Server] = joined[c] + Len(given[c]) + Len(down[c]) + Len(outbox[c])
        BY <1>3, <2>1, <3>1 DEF DownLine
      <3>3. /\ joined[c] \in Nat /\ taken[Server] \in Nat
            /\ given[c] \in Seq(Packets) /\ down[c] \in Seq(Message) /\ outbox[c] \in Seq(Message)
        BY <1>1, <3>1, TunnelTypes, ClientIs, PointTypes
      <3>4. AllThere(given[c], down[c], outbox[c], joined[c], taken[Server])
        BY <3>2, <3>3, InAll
      <3> QED BY <3>4 DEF AllThere
    <2> QED BY <2>1 DEF NothingSkipped
  <1> QED BY <1>2, <1>4, <1>5, <1>6 DEF EachGetsItsPackets

\* Whatever is lost, refused or late, each device is given what was read from the
\* others, in order and without a gap: a client's from its accept to the end of
\* its connection, the server's from each client alike.
THEOREM PacketsArriveInOrder == Spec => []EachGetsItsPackets
  BY Invariance, InvSays, PTL

\* Every point_iface, in every step of the tunnel, does what the channel of
\* WriteChannel may do, or nothing.
THEOREM EachDeviceIsAChannel == Spec => DevicesAreChannels
  <1>1. Init => \A d \in Points : Channel(d)!Init
    <2> SUFFICES ASSUME Init, NEW d \in Points PROVE Channel(d)!Init
      BY Zenon
    <2>1. given[d] = <<>> /\ settled[d] = <<>> /\ out[d] = <<>> /\ total[d] = NoOp
      BY DEF Init, PointInit
    <2> QED BY <2>1 DEF Channel!Init
  <1>2. IInv /\ [Next]_vars =>
          [\A d \in Points :
              UNCHANGED Channel(d)!channelVars \/ Channel(d)!Next]_pointVars
    BY NextInv DEF Moves
  <1> QED BY <1>1, <1>2, Invariance, PTL DEF Spec, DevicesAreChannels
=============================================================================
