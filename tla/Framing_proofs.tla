--------------------------- MODULE Framing_proofs ---------------------------
(***************************************************************************)
(* Proofs about the framing of messages, for either prefix, sizes of any     *)
(* width, bytes of any number of bits, and any messages that are not empty:  *)
(* pack and unpack are inverse; both delegates cut what comes where the peer *)
(* put it together; and errors stop what the binary protocol hands on.       *)
(***************************************************************************)
EXTENDS BinaryProtocol, SequenceTheorems, WellFoundedInduction, TLAPS

----------------------------------------------------------------------------
(* Induction, and functions defined by recursion.                            *)

\* A set that has 0, and the successor of what it has below n, has all up to n.
LEMMA Climb ==
    ASSUME NEW n \in Nat, NEW S,
           0 \in S, \A i \in 0..n : i \in S /\ i < n => i + 1 \in S
    PROVE  0..n \subseteq S
  <1> DEFINE T == (0..n) \ S
             R == OpToRel(<, Nat)
  <1> SUFFICES ASSUME T # {} PROVE FALSE
    OBVIOUS
  <1>1. T \in SUBSET Nat
    OBVIOUS
  <1>2. IsWellFoundedOn(R, Nat)
    BY NatLessThanWellFounded
  <1>3. \A x, y \in Nat : x < y => <<x, y>> \in R
    BY DEF OpToRel
  <1> HIDE DEF R
  <1>4. \E k \in T : \A m \in T : <<m, k>> \notin R
    <2> HIDE DEF T
    <2> QED BY <1>1, <1>2, WFMin
  <1>5. PICK k \in T : \A m \in T : <<m, k>> \notin R
    BY <1>4
  <1>6. k \in 0..n /\ k # 0 /\ k \notin S
    BY <1>5
  <1>7. k - 1 \in 0..n /\ k - 1 < n /\ k - 1 < k /\ k - 1 \in Nat /\ k \in Nat /\ (k - 1) + 1 = k
    BY <1>6
  <1>8. k - 1 \notin T
    BY <1>3, <1>5, <1>7, Zenon
  <1>9. k - 1 \in S
    BY <1>7, <1>8
  <1> QED BY <1>6, <1>7, <1>9

\* f begins with x and goes on from place to place by F.
Follows(f, x, F, n) == f[0] = x /\ \A i \in 1..n : f[i] = F[i][f[i - 1]]

\* There is such a function.
LEMMA Recursion ==
    ASSUME NEW S, NEW x \in S, NEW n \in Nat, NEW F \in [1..n -> [S -> S]]
    PROVE  \E f \in [0..n -> S] : Follows(f, x, F, n)
  <1> DEFINE Upto(k) == \E f \in [0..k -> S] : Follows(f, x, F, k)
             T == {k \in 0..n : Upto(k)}
  <1>1. 0 \in T
    <2> DEFINE f == [i \in 0..0 |-> x]
    <2>1. f \in [0..0 -> S] /\ Follows(f, x, F, 0)
      BY DEF Follows
    <2>2. Upto(0)
      <3> HIDE DEF f
      <3> QED BY <2>1
    <2> QED BY <2>2
  <1>2. ASSUME NEW k \in 0..n, k \in T, k < n PROVE k + 1 \in T
    <2>1. PICK f \in [0..k -> S] : Follows(f, x, F, k)
      BY <1>2
    <2>2. k \in Nat /\ k + 1 \in 1..n /\ k + 1 \in 0..n /\ k \in 0..k
      BY <1>2
    <2>3. F[k + 1][f[k]] \in S
      BY <2>2
    <2> DEFINE v == F[k + 1][f[k]]
               g == [i \in 0..(k + 1) |-> IF i = k + 1 THEN v ELSE f[i]]
    <2> HIDE DEF v
    <2>4. \A i \in 0..(k + 1) : i # k + 1 => i \in 0..k
      BY <2>2
    <2>5. g \in [0..(k + 1) -> S]
      BY <2>3, <2>4 DEF v
    <2>6. g[0] = x
      BY <2>1, <2>2, <2>4 DEF Follows
    <2>7. ASSUME NEW i \in 1..(k + 1) PROVE g[i] = F[i][g[i - 1]]
      <3>1. i \in 0..(k + 1) /\ i - 1 \in 0..(k + 1) /\ i - 1 # k + 1
        BY <2>2
      <3>2. g[i - 1] = f[i - 1]
        BY <3>1
      <3>3. CASE i = k + 1
        <4>1. i - 1 = k /\ g[i] = v
          BY <2>2, <3>1, <3>3
        <4> QED BY <3>2, <3>3, <4>1 DEF v
      <3>4. CASE i # k + 1
        <4>1. i \in 1..k /\ g[i] = f[i]
          BY <2>2, <3>1, <3>4
        <4> QED BY <2>1, <3>2, <4>1 DEF Follows
      <3> QED BY <3>3, <3>4
    <2> HIDE DEF g
    <2>8. Follows(g, x, F, k + 1)
      BY <2>6, <2>7 DEF Follows
    <2> QED BY <2>2, <2>5, <2>8
  <1>3. 0..n \subseteq T
    <2> HIDE DEF T
    <2> QED BY <1>1, <1>2, Climb
  <1>4. n \in 0..n
    OBVIOUS
  <1> QED BY <1>3, <1>4

\* There is one only.
LEMMA RecursionOnce ==
    ASSUME NEW n \in Nat, NEW x, NEW F, NEW f, NEW g, Follows(f, x, F, n), Follows(g, x, F, n)
    PROVE  \A i \in 0..n : f[i] = g[i]
  <1> DEFINE T == {i \in 0..n : f[i] = g[i]}
  <1>1. 0 \in T
    BY DEF Follows
  <1>2. ASSUME NEW k \in 0..n, k \in T, k < n PROVE k + 1 \in T
    <2>1. k + 1 \in 1..n /\ (k + 1) - 1 = k /\ k + 1 \in 0..n
      BY <1>2
    <2>2. f[k + 1] = F[k + 1][f[k]] /\ g[k + 1] = F[k + 1][g[k]]
      BY <2>1 DEF Follows
    <2> QED BY <1>2, <2>1, <2>2
  <1>3. 0..n \subseteq T
    <2> HIDE DEF T
    <2> QED BY <1>1, <1>2, Climb
  <1> QED BY <1>3

----------------------------------------------------------------------------
(* Powers of two.                                                            *)

IsTwoTo(f) == f = [n \in Nat |-> IF n = 0 THEN 1 ELSE 2 * f[n - 1]]

LEMMA TwoToIs ==
    /\ TwoTo \in [Nat -> Nat]
    /\ TwoTo[0] = 1
    /\ \A n \in Nat : TwoTo[n + 1] = 2 * TwoTo[n] /\ TwoTo[n] > 0
  <1> DEFINE D(n) == [i \in 1..n |-> [v \in Nat |-> 2 * v]]
             P(f, n) == f \in [0..n -> Nat] /\ Follows(f, 1, D(n), n)
             h == [n \in Nat |-> (CHOOSE f : P(f, n))[n]]
  <1>1. ASSUME NEW n \in Nat PROVE \E f : P(f, n)
    <2>1. D(n) \in [1..n -> [Nat -> Nat]] /\ 1 \in Nat
      OBVIOUS
    <2>2. \E f \in [0..n -> Nat] : Follows(f, 1, D(n), n)
      <3> HIDE DEF D
      <3> QED BY <2>1, Recursion
    <2> QED BY <2>2
  <1>2. ASSUME NEW n \in Nat PROVE P(CHOOSE f : P(f, n), n)
    <2> HIDE DEF P
    <2> QED BY <1>1
  <1>3. ASSUME NEW n \in Nat, NEW f, P(f, n)
        PROVE  /\ f[0] = 1
               /\ \A i \in 1..n : f[i - 1] \in Nat /\ f[i] = 2 * f[i - 1]
    <2>1. ASSUME NEW i \in 1..n PROVE f[i - 1] \in Nat /\ f[i] = 2 * f[i - 1]
      <3>1. i - 1 \in 0..n
        OBVIOUS
      <3>2. f[i - 1] \in Nat /\ f[i] = D(n)[i][f[i - 1]]
        <4>1. f \in [0..n -> Nat] /\ Follows(f, 1, D(n), n)
          BY <1>3
        <4> HIDE DEF D
        <4> QED BY <3>1, <4>1 DEF Follows
      <3>3. \A v \in Nat : D(n)[i][v] = 2 * v
        OBVIOUS
      <3> HIDE DEF D
      <3> QED BY <3>2, <3>3
    <2> QED BY <1>3, <2>1 DEF Follows
  <1>4. ASSUME NEW n \in Nat, NEW f, P(f, n + 1) PROVE h[n] = f[n]
    <2> DEFINE g == CHOOSE e : P(e, n)
    <2>1. P(g, n)
      BY <1>2
    <2> HIDE DEF g
    <2>2. Follows(g, 1, D(n), n)
      BY <2>1
    <2>3. Follows(f, 1, D(n), n)
      <3>1. \A i \in 1..n : i \in 1..(n + 1) /\ D(n)[i] = D(n + 1)[i]
        OBVIOUS
      <3>2. Follows(f, 1, D(n + 1), n + 1)
        BY <1>4
      <3> QED BY <3>1, <3>2 DEF Follows
    <2>4. \A i \in 0..n : g[i] = f[i]
      <3> HIDE DEF D
      <3> QED BY <2>2, <2>3, RecursionOnce
    <2>5. h[n] = g[n]
      <3> HIDE DEF P
      <3> QED BY DEF g
    <2>6. n \in 0..n
      OBVIOUS
    <2> HIDE DEF h
    <2> QED BY <2>4, <2>5, <2>6
  <1>5. h[0] = 1
    <2>1. P(CHOOSE f : P(f, 0), 0)
      BY <1>2
    <2> QED BY <2>1 DEF Follows
  <1>6. ASSUME NEW n \in Nat PROVE h[n] \in Nat /\ h[n + 1] = 2 * h[n]
    <2> DEFINE f == CHOOSE e : P(e, n + 1)
    <2>1. n + 1 \in Nat /\ n + 1 \in 1..(n + 1) /\ (n + 1) - 1 = n
      OBVIOUS
    <2>2. P(f, n + 1)
      BY <1>2, <2>1
    <2>3. h[n + 1] = f[n + 1]
      BY <2>1
    <2> HIDE DEF f
    <2>4. h[n] = f[n]
      BY <1>4, <2>2
    <2> HIDE DEF P, h
    <2>5. f[(n + 1) - 1] \in Nat /\ f[n + 1] = 2 * f[(n + 1) - 1]
      BY <1>3, <2>1, <2>2
    <2> QED BY <2>1, <2>3, <2>4, <2>5
  <1>7. IsTwoTo(h)
    <2> DEFINE e == [n \in Nat |-> IF n = 0 THEN 1 ELSE 2 * h[n - 1]]
    <2>1. h = [n \in Nat |-> h[n]] /\ e = [n \in Nat |-> e[n]]
      OBVIOUS
    <2>2. ASSUME NEW n \in Nat PROVE h[n] = e[n]
      <3>1. CASE n = 0
        BY <1>5, <3>1
      <3>2. CASE n # 0
        <4>1. n - 1 \in Nat /\ (n - 1) + 1 = n
          BY <3>2
        <4> HIDE DEF h
        <4> QED BY <1>6, <3>2, <4>1
      <3> QED BY <3>1, <3>2
    <2>3. h = e
      <3> HIDE DEF h, e
      <3> QED BY <2>1, <2>2
    <2> QED BY <2>3 DEF IsTwoTo
  <1> HIDE DEF h
  <1>8. IsTwoTo(TwoTo)
    <2>1. TwoTo = CHOOSE f : IsTwoTo(f)
      BY DEF TwoTo, IsTwoTo
    <2> QED BY <1>7, <2>1
  <1>9. TwoTo[0] = 1 /\ \A n \in Nat : TwoTo[n + 1] = 2 * TwoTo[n]
    BY <1>8 DEF IsTwoTo
  <1>10. ASSUME NEW n \in Nat PROVE TwoTo[n] \in Nat /\ TwoTo[n] > 0
    <2> DEFINE T == {i \in 0..n : TwoTo[i] \in Nat /\ TwoTo[i] > 0}
    <2>1. 0 \in T
      BY <1>9
    <2>2. ASSUME NEW k \in 0..n, k \in T, k < n PROVE k + 1 \in T
      <3>1. k \in Nat /\ k + 1 \in 0..n
        BY <2>2
      <3> QED BY <1>9, <2>2, <3>1
    <2>3. 0..n \subseteq T
      <3> HIDE DEF T
      <3> QED BY <2>1, <2>2, Climb
    <2> QED BY <2>3
  <1>11. TwoTo = [n \in Nat |-> TwoTo[n]]
    BY <1>8 DEF IsTwoTo
  <1> QED BY <1>9, <1>10, <1>11

LEMMA TwoToTyped ==
    ASSUME NEW n \in Nat
    PROVE  TwoTo[n] \in Nat /\ TwoTo[n] > 0 /\ TwoTo[n + 1] = 2 * TwoTo[n]
  <1>1. TwoTo[n] \in Nat
    BY TwoToIs
  <1> QED BY <1>1, TwoToIs

LEMMA TwoToSum ==
    ASSUME NEW a \in Nat, NEW b \in Nat
    PROVE  TwoTo[a + b] = TwoTo[a] * TwoTo[b]
  <1> DEFINE T == {i \in 0..b : TwoTo[a + i] = TwoTo[a] * TwoTo[i]}
  <1>0. TwoTo[a] \in Nat /\ TwoTo[0] = 1 /\ a + 0 = a
    BY TwoToIs, TwoToTyped
  <1>1. 0 \in T
    <2>1. TwoTo[a] * 1 = TwoTo[a]
      BY <1>0
    <2> QED BY <1>0, <2>1
  <1>2. ASSUME NEW k \in 0..b, k \in T, k < b PROVE k + 1 \in T
    <2>1. k \in Nat /\ k + 1 \in 0..b /\ a + k \in Nat /\ a + (k + 1) = (a + k) + 1
      BY <1>2
    <2>2. TwoTo[(a + k) + 1] = 2 * TwoTo[a + k] /\ TwoTo[k + 1] = 2 * TwoTo[k] /\ TwoTo[k] \in Nat
      BY <2>1, TwoToTyped
    <2>3. TwoTo[a + k] = TwoTo[a] * TwoTo[k]
      BY <1>2
    <2> DEFINE u == TwoTo[a]
               v == TwoTo[k]
    <2>4. u \in Nat /\ v \in Nat
      BY <1>0, <2>2
    <2> HIDE DEF u, v
    <2>5. 2 * (u * v) = u * (2 * v)
      BY ONLY <2>4
    <2>6. TwoTo[a + (k + 1)] = TwoTo[a] * TwoTo[k + 1]
      BY <2>1, <2>2, <2>3, <2>5 DEF u, v
    <2> QED BY <2>1, <2>6
  <1>3. 0..b \subseteq T
    <2> HIDE DEF T
    <2> QED BY <1>1, <1>2, Climb
  <1>4. b \in 0..b
    OBVIOUS
  <1> QED BY <1>3, <1>4

LEMMA TwoToGrows ==
    ASSUME NEW a \in Nat, NEW b \in Nat, a <= b
    PROVE  TwoTo[a] <= TwoTo[b]
  <1> DEFINE u == TwoTo[a]
             v == TwoTo[b - a]
  <1>1. b - a \in Nat /\ a + (b - a) = b
    OBVIOUS
  <1>2. TwoTo[b] = u * v
    BY <1>1, TwoToSum
  <1>3. u \in Nat /\ v \in Nat /\ v > 0
    BY <1>1, TwoToTyped
  <1> HIDE DEF u, v
  <1>4. u <= u * v
    BY ONLY <1>3
  <1> QED BY <1>2, <1>4 DEF u

\* What a number is, in terms of its quotient and its remainder.
LEMMA DivMod ==
    ASSUME NEW s \in Nat, NEW b \in Nat, b > 0
    PROVE  /\ s \div b \in Nat
           /\ s % b \in 0..(b - 1)
           /\ s = (s % b) + b * (s \div b)
  <1>1. s \div b \in Nat
    OBVIOUS
  <1>2. s % b \in 0..(b - 1)
    OBVIOUS
  <1>3. s = (s % b) + b * (s \div b)
    OBVIOUS
  <1> QED BY <1>1, <1>2, <1>3

LEMMA SmallMod ==
    ASSUME NEW s \in Nat, NEW b \in Nat, s < b
    PROVE  s % b = s
  OBVIOUS

LEMMA Constants ==
    /\ Shift \in Nat /\ Bits \in Nat
    /\ Base \in Nat /\ Base >= 2 /\ Base = TwoTo[Shift]
    /\ Carried \in Nat /\ Radix \in Nat /\ Radix >= 2 /\ Radix = TwoTo[Carried]
    /\ MaxPrefix \in Nat /\ MaxPrefix >= 1 /\ MinPrefix \in 1..MaxPrefix
    /\ Bits <= Carried * MaxPrefix
    /\ TwoTo[Bits] \in Nat /\ TwoTo[Bits] > 0
    /\ Policy # "fixint" => Policy = "varint" /\ Carried = Shift /\ Radix = Base /\ MinPrefix = 1
    /\ Policy = "fixint" => /\ Carried = Shift + 1 /\ Radix = 2 * Base /\ MinPrefix = MaxPrefix
                            /\ Policy # "varint"
  <1>1. Shift \in Nat /\ Shift >= 1 /\ Bits \in Nat /\ Bits >= 1
    BY SizepackAssumption
  <1>2. Policy # "fixint" => Policy = "varint"
    BY SizepackAssumption
  <1>3. Policy = "fixint" => Policy # "varint"
    OBVIOUS
  <1>4. \A n \in Nat : n >= 1 => TwoTo[n] \in Nat /\ TwoTo[n] >= 2
    <2> TAKE n \in Nat
    <2>1. TwoTo[n] \in Nat
      BY TwoToTyped
    <2>2. TwoTo[1] = 2
      <3>1. TwoTo[0 + 1] = 2 * TwoTo[0] /\ TwoTo[0] = 1 /\ 0 + 1 = 1
        BY TwoToIs
      <3> QED BY <3>1
    <2>3. n >= 1 => TwoTo[1] <= TwoTo[n]
      BY TwoToGrows
    <2> QED BY <2>1, <2>2, <2>3
  <1>5. Base \in Nat /\ Base >= 2 /\ Base = TwoTo[Shift]
    BY <1>1, <1>4 DEF Base
  <1>6. Carried \in Nat /\ Carried >= 1
    BY <1>1 DEF Carried
  <1>7. Radix \in Nat /\ Radix >= 2 /\ Radix = TwoTo[Carried]
    BY <1>4, <1>6 DEF Radix
  <1>8. CASE Policy = "varint"
    <2>1. Carried = Shift /\ Radix = Base /\ MinPrefix = 1 /\ MaxPrefix = Bits \div Shift + 1
      BY <1>8 DEF Carried, Radix, Base, MinPrefix, MaxPrefix
    <2>2. /\ Bits \div Shift \in Nat /\ Bits % Shift \in 0..(Shift - 1)
          /\ Bits = (Bits % Shift) + Shift * (Bits \div Shift)
      BY <1>1, DivMod
    <2> DEFINE q == Bits \div Shift
    <2>3. q \in Nat /\ Bits <= Shift + Shift * q
      BY <1>1, <2>2
    <2> HIDE DEF q
    <2>4. Shift * (q + 1) = Shift + Shift * q
      BY ONLY <1>1, <2>3
    <2>5. MaxPrefix \in Nat /\ MaxPrefix >= 1 /\ MinPrefix \in 1..MaxPrefix
      BY <2>1, <2>3 DEF q
    <2>6. Bits <= Carried * MaxPrefix
      BY <2>1, <2>3, <2>4 DEF q
    <2> QED BY <1>1, <1>5, <1>6, <1>7, <1>8, <2>1, <2>5, <2>6, TwoToTyped
  <1>9. CASE Policy = "fixint"
    <2>1. /\ Carried = Shift + 1 /\ Radix = TwoTo[Shift + 1] /\ MinPrefix = MaxPrefix
          /\ MaxPrefix = Bits \div (Shift + 1) /\ Bits % (Shift + 1) = 0
      BY <1>9, SizepackAssumption DEF Carried, Radix, MinPrefix, MaxPrefix
    <2>2. Radix = 2 * Base
      BY <1>1, <2>1, TwoToTyped DEF Base
    <2>3. Shift + 1 \in Nat /\ Shift + 1 > 0
      BY <1>1
    <2>4. /\ Bits \div (Shift + 1) \in Nat
          /\ Bits = (Bits % (Shift + 1)) + (Shift + 1) * (Bits \div (Shift + 1))
      BY <1>1, <2>3, DivMod
    <2>5. MaxPrefix \in Nat /\ Bits = Carried * MaxPrefix
      BY <2>1, <2>4
    <2>6. MaxPrefix # 0
      <3> SUFFICES ASSUME MaxPrefix = 0 PROVE FALSE
        OBVIOUS
      <3>1. Carried * MaxPrefix = 0
        BY <1>6
      <3> QED BY <1>1, <2>5, <3>1
    <2>7. MaxPrefix >= 1 /\ MinPrefix \in 1..MaxPrefix
      BY <2>1, <2>5, <2>6
    <2> QED BY <1>1, <1>3, <1>5, <1>6, <1>7, <1>9, <2>1, <2>2, <2>5, <2>7, TwoToTyped
  <1> QED BY <1>2, <1>8, <1>9

----------------------------------------------------------------------------
(* What the turns of the loops leave of a size.                              *)

IsRest(f, size) == f = [n \in 0..MaxPrefix |-> IF n = 0 THEN size ELSE f[n - 1] \div Radix]

LEMMA RestIs ==
    ASSUME NEW size \in Nat
    PROVE  /\ Rest(size) \in [0..MaxPrefix -> Nat]
           /\ Rest(size)[0] = size
           /\ \A n \in 1..MaxPrefix : Rest(size)[n] = Rest(size)[n - 1] \div Radix
  <1> DEFINE M == MaxPrefix
             F == [i \in 1..M |-> [v \in Nat |-> v \div Radix]]
  <1>0. M \in Nat /\ Radix \in Nat /\ Radix > 0
    BY Constants
  <1>1. F \in [1..M -> [Nat -> Nat]]
    <2>1. \A v \in Nat : v \div Radix \in Nat
      BY <1>0, DivMod
    <2> QED BY <2>1
  <1>2. \A i \in 1..M, v \in Nat : F[i][v] = v \div Radix
    OBVIOUS
  <1>3. PICK f \in [0..M -> Nat] : Follows(f, size, F, M)
    <2> HIDE DEF F, M
    <2> QED BY <1>0, <1>1, Recursion
  <1> HIDE DEF F
  <1>4. f[0] = size /\ \A n \in 1..M : f[n] = f[n - 1] \div Radix
    <2>1. \A n \in 1..M : n - 1 \in 0..M
      BY <1>0
    <2> QED BY <1>2, <1>3, <2>1 DEF Follows
  <1>5. IsRest(f, size)
    <2> DEFINE h == [n \in 0..M |-> IF n = 0 THEN size ELSE f[n - 1] \div Radix]
    <2>1. ASSUME NEW n \in 0..M PROVE f[n] = h[n]
      <3>1. CASE n = 0
        BY <1>4, <3>1
      <3>2. CASE n # 0
        <4>1. n \in 1..M
          BY <1>0, <3>2
        <4> QED BY <1>4, <3>2, <4>1
      <3> QED BY <3>1, <3>2
    <2>2. f = [n \in 0..M |-> f[n]] /\ h = [n \in 0..M |-> h[n]]
      OBVIOUS
    <2>3. f = h
      <3> HIDE DEF h, M
      <3> QED BY <2>1, <2>2
    <2> QED BY <2>3 DEF IsRest
  <1>6. IsRest(Rest(size), size)
    <2>1. Rest(size) = CHOOSE h : IsRest(h, size)
      BY DEF Rest, IsRest
    <2> QED BY <1>5, <2>1
  <1> DEFINE g == Rest(size)
  <1>7. g = [n \in 0..M |-> IF n = 0 THEN size ELSE g[n - 1] \div Radix]
    BY <1>6 DEF IsRest
  <1> HIDE DEF g
  <1>8. g[0] = size /\ \A n \in 1..M : g[n] = g[n - 1] \div Radix
    <2>1. 0 \in 0..M /\ \A n \in 1..M : n \in 0..M /\ n # 0
      BY <1>0
    <2> HIDE DEF M
    <2> QED BY <1>7, <2>1
  <1>9. \A n \in 0..M : g[n] \in Nat
    <2> DEFINE T == {n \in 0..M : g[n] \in Nat}
    <2>1. 0 \in T
      BY <1>0, <1>8
    <2>2. ASSUME NEW k \in 0..M, k \in T, k < M PROVE k + 1 \in T
      <3>1. k + 1 \in 1..M /\ (k + 1) - 1 = k /\ k + 1 \in 0..M /\ g[k] \in Nat
        BY <1>0, <2>2
      <3>2. g[k + 1] = g[k] \div Radix
        BY <1>8, <3>1
      <3>3. g[k] \div Radix \in Nat
        BY <1>0, <3>1, DivMod
      <3> QED BY <3>1, <3>2, <3>3
    <2>3. 0..M \subseteq T
      <3> HIDE DEF T, M
      <3> QED BY <1>0, <2>1, <2>2, Climb
    <2> QED BY <2>3
  <1>10. g \in [0..M -> Nat]
    <2>1. g = [n \in 0..M |-> g[n]]
      BY <1>7
    <2> QED BY <1>9, <2>1
  <1> QED BY <1>8, <1>10 DEF g

LEMMA RestAt ==
    ASSUME NEW size \in Nat, NEW n \in 0..MaxPrefix, n < MaxPrefix
    PROVE  /\ Rest(size)[n] \in Nat /\ Rest(size)[n + 1] \in Nat
           /\ Rest(size)[n] % Radix \in 0..(Radix - 1)
           /\ Rest(size)[n + 1] = Rest(size)[n] \div Radix
           /\ Rest(size)[n] = (Rest(size)[n] % Radix) + Radix * Rest(size)[n + 1]
  <1>1. n + 1 \in 1..MaxPrefix /\ (n + 1) - 1 = n /\ n + 1 \in 0..MaxPrefix
    BY Constants
  <1>2. Rest(size)[n] \in Nat /\ Rest(size)[n + 1] \in Nat
    BY <1>1, RestIs
  <1>3. Rest(size)[n + 1] = Rest(size)[n] \div Radix
    BY <1>1, RestIs
  <1>4. Radix \in Nat /\ Radix > 0
    BY Constants
  <1>5. /\ Rest(size)[n] % Radix \in 0..(Radix - 1)
        /\ Rest(size)[n] = (Rest(size)[n] % Radix) + Radix * (Rest(size)[n] \div Radix)
    BY <1>2, <1>4, DivMod
  <1> QED BY <1>2, <1>3, <1>5

\* The weight of what n turns leave.
LEMMA Weights ==
    ASSUME NEW n \in Nat
    PROVE  /\ Carried * n \in Nat /\ TwoTo[Carried * n] \in Nat /\ TwoTo[Carried * n] > 0
           /\ TwoTo[Carried * (n + 1)] = TwoTo[Carried * n] * Radix
  <1>1. Carried \in Nat /\ Carried * n \in Nat /\ Carried * (n + 1) = Carried * n + Carried
    BY Constants
  <1>2. TwoTo[Carried * n + Carried] = TwoTo[Carried * n] * TwoTo[Carried]
    BY <1>1, TwoToSum
  <1>3. TwoTo[Carried] = Radix
    BY Constants
  <1> QED BY <1>1, <1>2, <1>3, TwoToTyped

LEMMA RestWeighs ==
    ASSUME NEW size \in Nat
    PROVE  \A n \in 0..MaxPrefix : Rest(size)[n] * TwoTo[Carried * n] <= size
  <1> DEFINE M == MaxPrefix
             T == {n \in 0..M : Rest(size)[n] * TwoTo[Carried * n] <= size}
  <1>0. M \in Nat
    BY Constants
  <1>1. 0 \in T
    <2>1. Carried * 0 = 0 /\ TwoTo[0] = 1
      BY Constants, TwoToIs
    <2>2. Rest(size)[0] = size /\ size * 1 = size
      BY RestIs
    <2> QED BY <1>0, <2>1, <2>2
  <1>2. ASSUME NEW k \in 0..M, k \in T, k < M PROVE k + 1 \in T
    <2>1. k \in Nat /\ k + 1 \in 0..M
      BY <1>0, <1>2
    <2> DEFINE r == Rest(size)[k]
               q == Rest(size)[k + 1]
               w == TwoTo[Carried * k]
    <2>2. r \in Nat /\ q \in Nat /\ r % Radix \in Nat /\ r = (r % Radix) + Radix * q
      BY <1>2, RestAt
    <2>3. w \in Nat /\ TwoTo[Carried * (k + 1)] = w * Radix
      BY <2>1, Weights
    <2>4. r * w <= size
      BY <1>2
    <2>5. Radix \in Nat
      BY Constants
    <2> HIDE DEF r, q, w
    <2>6. Radix * q <= r
      BY ONLY <2>2, <2>5
    <2>7. (Radix * q) * w <= r * w
      BY ONLY <2>2, <2>3, <2>5, <2>6
    <2>8. q * (w * Radix) = (Radix * q) * w
      BY ONLY <2>2, <2>3, <2>5
    <2>9. q * (w * Radix) \in Nat /\ r * w \in Nat /\ (Radix * q) * w \in Nat
      BY ONLY <2>2, <2>3, <2>5
    <2>10. q * (w * Radix) <= size
      BY <2>4, <2>7, <2>8, <2>9
    <2> QED BY <2>1, <2>3, <2>10 DEF q
  <1>3. 0..M \subseteq T
    <2> HIDE DEF T, M
    <2> QED BY <1>0, <1>1, <1>2, Climb
  <1> QED BY <1>3

\* No size needs more than max_length bytes.
LEMMA NothingLeft ==
    ASSUME NEW size \in Sizes
    PROVE  size \in Nat /\ size % TwoTo[Bits] = size /\ Rest(size)[MaxPrefix] = 0
  <1>1. TwoTo[Bits] \in Nat /\ Bits \in Nat /\ MaxPrefix \in Nat /\ Carried * MaxPrefix \in Nat
    BY Constants, Weights
  <1>2. size \in Nat /\ size < TwoTo[Bits]
    BY <1>1 DEF Sizes
  <1>3. size % TwoTo[Bits] = size
    BY <1>1, <1>2, SmallMod
  <1> DEFINE r == Rest(size)[MaxPrefix]
             w == TwoTo[Carried * MaxPrefix]
  <1>4. r \in Nat /\ w \in Nat
    <2>1. Rest(size) \in [0..MaxPrefix -> Nat]
      BY <1>2, RestIs, Zenon
    <2>2. MaxPrefix \in 0..MaxPrefix
      BY <1>1
    <2>4. r \in Nat
      BY <2>1, <2>2
    <2>3. w \in Nat
      BY <1>1, Weights
    <2> QED BY <2>3, <2>4
  <1>5. TwoTo[Bits] <= w
    BY <1>1, Constants, TwoToGrows
  <1>6. r * w <= size
    BY <1>1, <1>2, RestWeighs
  <1> HIDE DEF r, w
  <1>7. r = 0
    <2> SUFFICES ASSUME r >= 1 PROVE FALSE
      BY <1>4
    <2>1. w <= r * w
      BY ONLY <1>4, r >= 1
    <2>2. r * w \in Nat
      BY ONLY <1>4
    <2> QED BY <1>1, <1>2, <1>4, <1>5, <1>6, <2>1, <2>2
  <1> QED BY <1>2, <1>3, <1>7 DEF r

\* n is the first number of turns that leaves less than limit of size.
FirstBelow(size, limit, n) ==
    /\ n \in 0..MaxPrefix
    /\ Rest(size)[n] < limit
    /\ \A k \in 0..(n - 1) : Rest(size)[k] >= limit

LEMMA TurnsIs ==
    ASSUME NEW size \in Nat, NEW limit \in Nat, Rest(size)[MaxPrefix] < limit
    PROVE  FirstBelow(size, limit, Turns(size, limit))
  <1> DEFINE M == MaxPrefix
             T == {n \in 0..M : \A k \in 0..n : Rest(size)[k] >= limit}
  <1>0. M \in Nat /\ \A n \in 0..M : Rest(size)[n] \in Nat
    BY Constants, RestIs
  <1>1. \E n \in 0..M : FirstBelow(size, limit, n)
    <2> SUFFICES ASSUME \A n \in 0..M : ~FirstBelow(size, limit, n) PROVE FALSE
      OBVIOUS
    <2>1. 0 \in T
      <3>1. 0 \in 0..M /\ \A k \in 0..(0 - 1) : Rest(size)[k] >= limit
        BY <1>0
      <3>2. ~(Rest(size)[0] < limit)
        BY <3>1 DEF FirstBelow
      <3> QED BY <1>0, <3>1, <3>2
    <2>2. ASSUME NEW n \in 0..M, n \in T, n < M PROVE n + 1 \in T
      <3>1. n + 1 \in 0..M /\ \A k \in 0..((n + 1) - 1) : k \in 0..n
        BY <1>0, <2>2
      <3>2. \A k \in 0..((n + 1) - 1) : Rest(size)[k] >= limit
        BY <2>2, <3>1
      <3>3. ~(Rest(size)[n + 1] < limit)
        BY <3>1, <3>2 DEF FirstBelow
      <3>4. Rest(size)[n + 1] >= limit
        BY <1>0, <3>1, <3>3
      <3>5. \A k \in 0..(n + 1) : k = n + 1 \/ k \in 0..((n + 1) - 1)
        BY <2>2
      <3>6. \A k \in 0..(n + 1) : Rest(size)[k] >= limit
        BY <3>2, <3>4, <3>5
      <3> QED BY <3>1, <3>6
    <2>3. 0..M \subseteq T
      <3> HIDE DEF T, M
      <3> QED BY <1>0, <2>1, <2>2, Climb
    <2>4. M \in T
      BY <1>0, <2>3
    <2>5. Rest(size)[M] >= limit
      BY <1>0, <2>4
    <2> QED BY <1>0, <2>5
  <1>2. Turns(size, limit) = CHOOSE n \in 0..M : FirstBelow(size, limit, n)
    <2>1. \A n \in 0..M : FirstBelow(size, limit, n) <=>
             Rest(size)[n] < limit /\ \A k \in 0..(n - 1) : Rest(size)[k] >= limit
      BY DEF FirstBelow
    <2> QED BY <2>1 DEF Turns
  <1> QED BY <1>1, <1>2

LEMMA FirstOnce ==
    ASSUME NEW size \in Nat, NEW limit \in Nat, NEW m, NEW n,
           FirstBelow(size, limit, m), FirstBelow(size, limit, n)
    PROVE  m = n
  <1>1. m \in 0..MaxPrefix /\ n \in 0..MaxPrefix /\ MaxPrefix \in Nat
    BY Constants DEF FirstBelow
  <1>2. Rest(size)[m] \in Nat /\ Rest(size)[n] \in Nat
    BY <1>1, RestIs
  <1>3. ~(m < n)
    <2>1. m < n => m \in 0..(n - 1)
      BY <1>1
    <2> QED BY <1>2, <2>1 DEF FirstBelow
  <1>4. ~(n < m)
    <2>1. n < m => n \in 0..(m - 1)
      BY <1>1
    <2> QED BY <1>2, <2>1 DEF FirstBelow
  <1> QED BY <1>1, <1>3, <1>4

----------------------------------------------------------------------------
(* The prefix of a message of that size.                                     *)

PrefixOf(size) == SubSeq(Pack(size), 1, PackedLength(size))

\* pack writes as many bytes of a varint as packed_length says, but for 0.
LEMMA VarintLast ==
    ASSUME NEW size \in Sizes, size > 0, Policy = "varint"
    PROVE  /\ PackedLength(size) \in 1..MaxPrefix /\ Turns(size, Base) \in Nat
           /\ PackedLength(size) = Turns(size, Base) + 1
           /\ FirstBelow(size, Base, PackedLength(size) - 1)
           /\ Rest(size)[PackedLength(size)] = 0
  <1>0. size \in Nat /\ size % TwoTo[Bits] = size /\ Rest(size)[MaxPrefix] = 0
    BY NothingLeft
  <1>1. Base \in Nat /\ Base >= 2 /\ Radix = Base /\ MaxPrefix \in Nat
    BY Constants
  <1> DEFINE n == Turns(size, Base)
  <1>2. FirstBelow(size, Base, n)
    BY <1>0, <1>1, TurnsIs
  <1>3. PackedLength(size) = Turns(size, 1)
    BY <1>0 DEF PackedLength, VarintPackedLength
  <1>4. FirstBelow(size, 1, Turns(size, 1))
    BY <1>0, TurnsIs
  <1> HIDE DEF n
  <1>5. n \in 0..MaxPrefix /\ n \in Nat /\ Rest(size)[n] \in Nat /\ Rest(size)[n] < Base
    <2>1. n \in 0..MaxPrefix /\ Rest(size)[n] < Base
      BY <1>2 DEF FirstBelow
    <2>2. Rest(size) \in [0..MaxPrefix -> Nat]
      BY <1>0, RestIs
    <2> QED BY <1>1, <2>1, <2>2
  <1>6. Rest(size)[n] > 0
    <2>1. CASE n = 0
      BY <1>0, <2>1, RestIs
    <2>2. CASE n # 0
      <3>1. n - 1 \in 0..(n - 1) /\ n - 1 \in 0..MaxPrefix /\ n - 1 < MaxPrefix /\ (n - 1) + 1 = n
        BY <1>1, <1>5, <2>2
      <3>2. Rest(size)[n - 1] >= Base
        BY <1>2, <3>1 DEF FirstBelow
      <3>3. /\ Rest(size)[n - 1] % Base \in 0..(Base - 1)
            /\ Rest(size)[n - 1] = (Rest(size)[n - 1] % Base) + Base * Rest(size)[n]
        BY <1>0, <1>1, <3>1, RestAt
      <3>4. Rest(size)[n] # 0
        <4> SUFFICES ASSUME Rest(size)[n] = 0 PROVE FALSE
          OBVIOUS
        <4>1. Base * Rest(size)[n] = 0
          BY <1>1
        <4> QED BY <1>1, <3>2, <3>3, <4>1
      <3> QED BY <1>5, <3>4
    <2> QED BY <2>1, <2>2
  <1>7. n < MaxPrefix /\ n + 1 \in 1..MaxPrefix /\ n + 1 \in 0..MaxPrefix /\ (n + 1) - 1 = n
    <2>1. n # MaxPrefix
      BY <1>0, <1>6
    <2> QED BY <1>1, <1>5, <2>1
  <1>8. Rest(size)[n + 1] = 0
    <2>1. /\ Rest(size)[n] % Base \in 0..(Base - 1)
          /\ Rest(size)[n] = (Rest(size)[n] % Base) + Base * Rest(size)[n + 1]
          /\ Rest(size)[n + 1] \in Nat
      BY <1>0, <1>1, <1>5, <1>7, RestAt
    <2> SUFFICES ASSUME Rest(size)[n + 1] >= 1 PROVE FALSE
      BY <2>1
    <2> DEFINE q == Rest(size)[n + 1]
    <2> HIDE DEF q
    <2>2. q \in Nat /\ q >= 1
      BY <2>1 DEF q
    <2>3. Base * q >= Base
      BY ONLY <1>1, <2>2
    <2>4. Base * q \in Nat
      BY ONLY <1>1, <2>2
    <2> QED BY <1>1, <1>5, <2>1, <2>3, <2>4 DEF q
  <1>9. FirstBelow(size, 1, n + 1)
    <2>1. ASSUME NEW k \in 0..n PROVE Rest(size)[k] >= 1
      <3>1. CASE k = n
        BY <1>5, <1>6, <3>1
      <3>2. CASE k # n
        <4>1. k \in 0..(n - 1) /\ k \in 0..MaxPrefix
          BY <1>1, <1>5, <3>2
        <4>2. Rest(size)[k] >= Base /\ Rest(size)[k] \in Nat
          BY <1>0, <1>2, <4>1, RestIs DEF FirstBelow
        <4> QED BY <1>1, <4>2
      <3> QED BY <3>1, <3>2
    <2> QED BY <1>7, <1>8, <2>1 DEF FirstBelow
  <1>10. PackedLength(size) = n + 1
    BY <1>0, <1>3, <1>4, <1>9, FirstOnce
  <1> QED BY <1>2, <1>5, <1>7, <1>8, <1>10 DEF n

\* A sequence given place by place.
LEMMA Placed ==
    ASSUME NEW S, NEW n \in Nat, NEW p, p = [i \in 1..n |-> p[i]], \A i \in 1..n : p[i] \in S
    PROVE  p \in Seq(S) /\ Len(p) = n /\ SubSeq(p, 1, n) = p
  <1>1. p \in Seq(S) /\ Len(p) = n
    OBVIOUS
  <1>2. SubSeq(p, 1, Len(p)) = p
    BY <1>1, SubSeqFull
  <1> QED BY <1>1, <1>2

LEMMA VarintPrefix ==
    ASSUME NEW size \in Sizes, size > 0, Policy = "varint"
    PROVE  /\ PrefixOf(size) = Pack(size)
           /\ PrefixOf(size) \in Seq(Byte) /\ Len(PrefixOf(size)) = PackedLength(size)
           /\ \A i \in 1..PackedLength(size) :
                 /\ PrefixOf(size)[i] % Base = Rest(size)[i - 1] % Base
                 /\ PrefixOf(size)[i] < Base <=> i = PackedLength(size)
  <1> DEFINE L == PackedLength(size)
             r == Rest(size)
             p == [i \in 1..L |-> IF i <= L - 1 THEN (r[i - 1] % Base) + Base ELSE r[L - 1]]
  <1>0. size \in Nat /\ size % TwoTo[Bits] = size
    BY NothingLeft
  <1>1. L \in 1..MaxPrefix /\ L \in Nat /\ Turns(size, Base) = L - 1 /\ FirstBelow(size, Base, L - 1)
    <2>1. /\ L \in 1..MaxPrefix /\ Turns(size, Base) \in Nat
          /\ L = Turns(size, Base) + 1 /\ FirstBelow(size, Base, L - 1)
      BY VarintLast
    <2> HIDE DEF L
    <2>2. L \in Nat /\ Turns(size, Base) = L - 1
      BY <2>1, Constants
    <2> QED BY <2>1, <2>2
  <1>2. Base \in Nat /\ Base >= 2 /\ MaxPrefix \in Nat
    BY Constants
  <1>3. Pack(size) = p
    <2>1. Pack(size) = VarintPack(size)
      BY <1>0 DEF Pack
    <2>2. VarintPack(size) = [i \in 1..((L - 1) + 1) |->
                                IF i <= L - 1 THEN (r[i - 1] % Base) + Base ELSE r[L - 1]]
      <3> HIDE DEF L
      <3> QED BY <1>1 DEF VarintPack
    <2>3. (L - 1) + 1 = L
      BY <1>1
    <2> QED BY <2>1, <2>2, <2>3
  <1>4. ASSUME NEW i \in 1..L
        PROVE  /\ p[i] \in Byte
               /\ p[i] % Base = r[i - 1] % Base
               /\ p[i] < Base <=> i = L
    <2>1. i - 1 \in 0..MaxPrefix /\ i - 1 \in 0..(L - 1)
      BY <1>1, <1>2
    <2>2. r[i - 1] \in Nat
      BY <1>0, <2>1, RestIs
    <2>3. r[i - 1] % Base \in 0..(Base - 1)
      BY <1>2, <2>2, DivMod
    <2>4. CASE i = L
      <3>1. p[i] = r[i - 1] /\ r[i - 1] < Base
        BY <1>1, <2>4 DEF FirstBelow
      <3> HIDE DEF p, r, L
      <3> QED BY <1>2, <2>2, <2>4, <3>1 DEF Byte
    <2>5. CASE i # L
      <3>1. p[i] = (r[i - 1] % Base) + Base
        BY <1>1, <2>5
      <3> DEFINE v == r[i - 1] % Base
      <3>2. v \in 0..(Base - 1)
        BY <2>3
      <3>3. v % Base = v
        <4> HIDE DEF v
        <4> QED BY <1>2, <3>2, SmallMod
      <3>4. (v + Base) % Base = v
        <4> HIDE DEF v
        <4>1. v + Base \in Nat
          BY <1>2, <3>2
        <4>2. /\ (v + Base) \div Base \in Nat /\ (v + Base) % Base \in 0..(Base - 1)
              /\ v + Base = ((v + Base) % Base) + Base * ((v + Base) \div Base)
          BY <1>2, <4>1, DivMod
        <4> DEFINE q == (v + Base) \div Base
                   m == (v + Base) % Base
        <4>3. q \in Nat /\ m \in 0..(Base - 1) /\ v + Base = m + Base * q
          BY <4>2
        <4> HIDE DEF q, m
        <4>4. q = 1
          <5>1. q # 0
            <6> SUFFICES ASSUME q = 0 PROVE FALSE
              OBVIOUS
            <6>1. Base * q = 0
              BY <1>2
            <6> QED BY <1>2, <3>2, <4>3, <6>1
          <5>2. ~(q >= 2)
            <6> SUFFICES ASSUME q >= 2 PROVE FALSE
              OBVIOUS
            <6>1. Base * q >= 2 * Base
              BY <1>2, <4>3
            <6>2. Base * q \in Nat
              BY <1>2, <4>3
            <6> QED BY <1>2, <3>2, <4>3, <6>1, <6>2
          <5> QED BY <4>3, <5>1, <5>2
        <4>5. Base * q = Base
          BY <1>2, <4>4
        <4>6. m = v
          BY <1>2, <3>2, <4>3, <4>5
        <4> QED BY <4>6 DEF m
      <3> HIDE DEF p
      <3>5. p[i] = v + Base /\ p[i] \in Byte /\ ~(p[i] < Base)
        <4>1. p[i] = v + Base
          BY <3>1
        <4> HIDE DEF v
        <4> QED BY <1>2, <3>2, <4>1 DEF Byte
      <3> QED BY <2>5, <3>4, <3>5
    <2> QED BY <2>4, <2>5
  <1>5. p = [i \in 1..L |-> p[i]]
    OBVIOUS
  <1> HIDE DEF p, r
  <1>6. p \in Seq(Byte) /\ Len(p) = L /\ SubSeq(p, 1, L) = p
    <2> HIDE DEF L
    <2> QED BY <1>1, <1>4, <1>5, Placed
  <1>7. PrefixOf(size) = p
    BY <1>3, <1>6 DEF PrefixOf
  <1> QED BY <1>3, <1>4, <1>6, <1>7 DEF r

LEMMA FixintPrefix ==
    ASSUME NEW size \in Sizes, Policy = "fixint"
    PROVE  /\ PrefixOf(size) = Pack(size)
           /\ PrefixOf(size) \in Seq(Byte) /\ Len(PrefixOf(size)) = MaxPrefix
           /\ PackedLength(size) = MaxPrefix
           /\ \A i \in 1..MaxPrefix : PrefixOf(size)[i] = Rest(size)[MaxPrefix - i] % Radix
  <1> DEFINE M == MaxPrefix
             p == [i \in 1..M |-> Rest(size)[M - i] % (2 * Base)]
  <1>0. size \in Nat /\ size % TwoTo[Bits] = size
    BY NothingLeft
  <1>1. M \in Nat /\ Radix = 2 * Base /\ Radix \in Nat /\ Radix > 0 /\ Policy # "varint"
    BY Constants
  <1>2. Pack(size) = p
    BY <1>0, <1>1 DEF Pack, FixintPack
  <1>3. ASSUME NEW i \in 1..M PROVE p[i] \in Byte
    <2>1. M - i \in 0..M
      BY <1>1
    <2>2. Rest(size)[M - i] \in Nat
      BY <1>0, <2>1, RestIs
    <2>3. Rest(size)[M - i] % Radix \in 0..(Radix - 1)
      BY <1>1, <2>2, DivMod
    <2> QED BY <1>1, <2>3 DEF Byte
  <1>4. p = [i \in 1..M |-> p[i]]
    OBVIOUS
  <1>5. \A i \in 1..M : p[i] = Rest(size)[M - i] % Radix
    BY <1>1
  <1> HIDE DEF p
  <1>6. p \in Seq(Byte) /\ Len(p) = M /\ SubSeq(p, 1, M) = p
    <2> HIDE DEF M
    <2> QED BY <1>1, <1>3, <1>4, Placed
  <1>7. PackedLength(size) = M
    BY <1>1 DEF PackedLength
  <1>8. PrefixOf(size) = p
    BY <1>2, <1>6, <1>7 DEF PrefixOf
  <1> QED BY <1>2, <1>5, <1>6, <1>7, <1>8

----------------------------------------------------------------------------
(* What unpack reads.                                                        *)

\* f adds d up, place by place.
IsRead(f, d, n) == f = [i \in 0..n |-> IF i = 0 THEN 0 ELSE f[i - 1] + d[i]]

LEMMA ReadIs ==
    ASSUME NEW n \in Nat, NEW d \in [1..n -> Nat], NEW g, g = CHOOSE f : IsRead(f, d, n)
    PROVE  /\ \A i \in 0..n : g[i] \in Nat
           /\ g[0] = 0 /\ \A i \in 1..n : g[i] = g[i - 1] + d[i]
  <1> DEFINE F == [i \in 1..n |-> [v \in Nat |-> v + d[i]]]
  <1>1. F \in [1..n -> [Nat -> Nat]] /\ \A i \in 1..n, v \in Nat : F[i][v] = v + d[i]
    OBVIOUS
  <1>2. PICK f \in [0..n -> Nat] : Follows(f, 0, F, n)
    <2> HIDE DEF F
    <2> QED BY <1>1, Recursion
  <1> HIDE DEF F
  <1>3. f[0] = 0 /\ \A i \in 1..n : f[i] = f[i - 1] + d[i]
    <2>1. \A i \in 1..n : i - 1 \in 0..n
      OBVIOUS
    <2> QED BY <1>1, <1>2, <2>1 DEF Follows
  <1>4. IsRead(f, d, n)
    <2> DEFINE h == [i \in 0..n |-> IF i = 0 THEN 0 ELSE f[i - 1] + d[i]]
    <2>1. ASSUME NEW i \in 0..n PROVE f[i] = h[i]
      <3>1. CASE i = 0
        BY <1>3, <3>1
      <3>2. CASE i # 0
        <4>1. i \in 1..n
          BY <3>2
        <4> QED BY <1>3, <3>2, <4>1
      <3> QED BY <3>1, <3>2
    <2>2. f = [i \in 0..n |-> f[i]] /\ h = [i \in 0..n |-> h[i]]
      OBVIOUS
    <2>3. f = h
      <3> HIDE DEF h
      <3> QED BY <2>1, <2>2
    <2> QED BY <2>3 DEF IsRead
  <1>5. IsRead(g, d, n)
    BY <1>4
  <1>6. g[0] = 0 /\ \A i \in 1..n : g[i] = g[i - 1] + d[i]
    <2>1. 0 \in 0..n /\ \A i \in 1..n : i \in 0..n /\ i # 0
      OBVIOUS
    <2>2. g = [i \in 0..n |-> IF i = 0 THEN 0 ELSE g[i - 1] + d[i]]
      BY <1>5 DEF IsRead
    <2> QED BY ONLY <2>1, <2>2
  <1>7. \A i \in 0..n : g[i] \in Nat
    <2> DEFINE T == {i \in 0..n : g[i] \in Nat}
    <2>1. 0 \in T
      BY <1>6
    <2>2. ASSUME NEW k \in 0..n, k \in T, k < n PROVE k + 1 \in T
      <3>1. k + 1 \in 1..n /\ (k + 1) - 1 = k /\ k + 1 \in 0..n /\ g[k] \in Nat /\ d[k + 1] \in Nat
        BY <2>2
      <3>2. g[k + 1] = g[k] + d[k + 1]
        BY <1>6, <3>1
      <3> QED BY <3>1, <3>2
    <2>3. 0..n \subseteq T
      <3> HIDE DEF T
      <3> QED BY <2>1, <2>2, Climb
    <2> QED BY <2>3
  <1> QED BY <1>6, <1>7

LEMMA ByteIs ==
    ASSUME NEW b \in Byte
    PROVE  b \in Nat /\ b % Base \in Nat /\ b % Base < Base
  <1>1. Base \in Nat /\ Base >= 2
    BY Constants
  <1>2. b \in Nat
    BY <1>1 DEF Byte
  <1> QED BY <1>1, <1>2, DivMod

LEMMA VarintReadIs ==
    ASSUME NEW bytes \in Seq(Byte)
    PROVE  /\ \A i \in 0..Len(bytes) : VarintRead(bytes)[i] \in Nat
           /\ VarintRead(bytes)[0] = 0
           /\ \A i \in 1..Len(bytes) :
                 VarintRead(bytes)[i] = VarintRead(bytes)[i - 1]
                                          + (bytes[i] % Base) * TwoTo[Shift * (i - 1)]
  <1> DEFINE n == Len(bytes)
             w(i) == (bytes[i] % Base) * TwoTo[Shift * (i - 1)]
             d == [i \in 1..n |-> w(i)]
             g == VarintRead(bytes)
  <1>0. n \in Nat
    OBVIOUS
  <1>1. ASSUME NEW i \in 1..n PROVE w(i) \in Nat
    <2>1. bytes[i] \in Byte /\ i - 1 \in Nat
      BY <1>0
    <2>2. bytes[i] % Base \in Nat
      BY <2>1, ByteIs
    <2>3. Shift * (i - 1) \in Nat
      BY <2>1, Constants
    <2>4. TwoTo[Shift * (i - 1)] \in Nat
      BY <2>3, TwoToTyped
    <2> QED BY <2>2, <2>4
  <1>2. d \in [1..n -> Nat]
    <2> HIDE DEF w, n
    <2> QED BY <1>1
  <1>3. g = CHOOSE f : f = [i \in 0..n |-> IF i = 0 THEN 0 ELSE f[i - 1] + w(i)]
    BY DEF VarintRead
  <1>4. \A f : f = [i \in 0..n |-> IF i = 0 THEN 0 ELSE f[i - 1] + w(i)] <=> IsRead(f, d, n)
    <2> TAKE f
    <2>1. \A i \in 0..n : i # 0 => i \in 1..n
      BY <1>0
    <2> HIDE DEF w, n
    <2>2. \A i \in 0..n : (IF i = 0 THEN 0 ELSE f[i - 1] + w(i)) = (IF i = 0 THEN 0 ELSE f[i - 1] + d[i])
      BY <2>1
    <2> QED BY <2>2 DEF IsRead
  <1>5. g = CHOOSE f : IsRead(f, d, n)
    <2> HIDE DEF g, w, n, d
    <2> QED BY <1>3, <1>4
  <1>6. \A i \in 1..n : d[i] = w(i)
    <2> HIDE DEF w, n
    <2> QED OBVIOUS
  <1> HIDE DEF g, d, n
  <1>7. /\ \A i \in 0..n : g[i] \in Nat
        /\ g[0] = 0 /\ \A i \in 1..n : g[i] = g[i - 1] + d[i]
    BY <1>0, <1>2, <1>5, ReadIs, ZenonT(60)
  <1> QED BY <1>6, <1>7 DEF g, n

LEMMA FixintReadIs ==
    ASSUME NEW bytes \in Seq(Byte), Len(bytes) >= MaxPrefix
    PROVE  /\ \A i \in 0..MaxPrefix : FixintRead(bytes)[i] \in Nat
           /\ FixintRead(bytes)[0] = 0
           /\ \A i \in 1..MaxPrefix :
                 FixintRead(bytes)[i] = FixintRead(bytes)[i - 1]
                                          + bytes[i] * TwoTo[(Shift + 1) * (MaxPrefix - i)]
  <1> DEFINE n == MaxPrefix
             w(i) == bytes[i] * TwoTo[(Shift + 1) * (n - i)]
             d == [i \in 1..n |-> w(i)]
             g == FixintRead(bytes)
  <1>0. n \in Nat
    BY Constants
  <1>1. ASSUME NEW i \in 1..n PROVE w(i) \in Nat
    <2>1. bytes[i] \in Byte /\ n - i \in Nat
      BY <1>0
    <2>2. bytes[i] \in Nat
      BY <2>1, ByteIs
    <2>3. (Shift + 1) * (n - i) \in Nat
      BY <2>1, Constants
    <2>4. TwoTo[(Shift + 1) * (n - i)] \in Nat
      BY <2>3, TwoToTyped
    <2> QED BY <2>2, <2>4
  <1>2. d \in [1..n -> Nat]
    <2> HIDE DEF w, n
    <2> QED BY <1>1
  <1>3. g = CHOOSE f : f = [i \in 0..n |-> IF i = 0 THEN 0 ELSE f[i - 1] + w(i)]
    BY DEF FixintRead
  <1>4. \A f : f = [i \in 0..n |-> IF i = 0 THEN 0 ELSE f[i - 1] + w(i)] <=> IsRead(f, d, n)
    <2> TAKE f
    <2>1. \A i \in 0..n : i # 0 => i \in 1..n
      BY <1>0
    <2> HIDE DEF w, n
    <2>2. \A i \in 0..n : (IF i = 0 THEN 0 ELSE f[i - 1] + w(i)) = (IF i = 0 THEN 0 ELSE f[i - 1] + d[i])
      BY <2>1
    <2> QED BY <2>2 DEF IsRead
  <1>5. g = CHOOSE f : IsRead(f, d, n)
    <2> HIDE DEF g, w, n, d
    <2> QED BY <1>3, <1>4
  <1>6. \A i \in 1..n : d[i] = w(i)
    <2> HIDE DEF w, n
    <2> QED OBVIOUS
  <1> HIDE DEF g, d, n
  <1>7. /\ \A i \in 0..n : g[i] \in Nat
        /\ g[0] = 0 /\ \A i \in 1..n : g[i] = g[i - 1] + d[i]
    BY <1>0, <1>2, <1>5, ReadIs, ZenonT(60)
  <1> QED BY <1>6, <1>7 DEF g, n

----------------------------------------------------------------------------
(* The end of a prefix, and what it says.                                    *)

LEMMA MinIs ==
    ASSUME NEW T \in SUBSET Nat, NEW k \in T
    PROVE  Min(T) \in T /\ \A m \in T : Min(T) <= m
  <1> DEFINE R == OpToRel(<, Nat)
  <1>1. IsWellFoundedOn(R, Nat)
    BY NatLessThanWellFounded
  <1>2. \A x, y \in Nat : x < y => <<x, y>> \in R
    BY DEF OpToRel
  <1> HIDE DEF R
  <1>3. PICK n \in T : \A m \in T : <<m, n>> \notin R
    BY <1>1, WFMin
  <1>4. ASSUME NEW m \in T PROVE n <= m
    <2>1. m \in Nat /\ n \in Nat
      OBVIOUS
    <2>2. ~(m < n)
      BY <1>2, <1>3, <2>1, Zenon
    <2> QED BY <2>1, <2>2
  <1>5. Min(T) = CHOOSE x \in T : \A m \in T : x <= m
    BY DEF Min
  <1> QED BY <1>4, <1>5

LEMMA EndIs ==
    ASSUME NEW bytes \in Seq(Byte)
    PROVE  VarintEnd(bytes) \in 0..Len(bytes)
  <1> DEFINE T == {i \in 1..Len(bytes) : bytes[i] < Base}
  <1>1. VarintEnd(bytes) = IF T = {} THEN 0 ELSE Min(T)
    BY DEF VarintEnd
  <1>2. T # {} => Min(T) \in 1..Len(bytes)
    <2>1. T \in SUBSET Nat /\ T \subseteq 1..Len(bytes)
      OBVIOUS
    <2> HIDE DEF T
    <2> QED BY <2>1, MinIs
  <1>3. Len(bytes) \in Nat
    OBVIOUS
  <1> HIDE DEF T
  <1> QED BY <1>1, <1>2, <1>3

LEMMA EndAt ==
    ASSUME NEW bytes \in Seq(Byte), NEW n \in 1..Len(bytes),
           \A i \in 1..n : bytes[i] < Base <=> i = n
    PROVE  VarintEnd(bytes) = n
  <1> DEFINE T == {i \in 1..Len(bytes) : bytes[i] < Base}
  <1>1. VarintEnd(bytes) = IF T = {} THEN 0 ELSE Min(T)
    BY DEF VarintEnd
  <1>2. T \in SUBSET Nat /\ n \in T /\ n \in Nat
    OBVIOUS
  <1>3. ASSUME NEW i \in T PROVE n <= i
    <2> SUFFICES ASSUME i < n PROVE FALSE
      BY <1>2
    <2>1. i \in 1..n /\ i # n /\ bytes[i] < Base
      OBVIOUS
    <2> QED BY <2>1
  <1> HIDE DEF T
  <1>4. Min(T) \in T /\ Min(T) <= n
    BY <1>2, MinIs
  <1>5. n <= Min(T) /\ Min(T) \in Nat
    BY <1>2, <1>3, <1>4
  <1> QED BY <1>1, <1>2, <1>4, <1>5

LEMMA NoEnd ==
    ASSUME NEW bytes \in Seq(Byte), \A i \in 1..Len(bytes) : ~(bytes[i] < Base)
    PROVE  VarintEnd(bytes) = 0
  BY DEF VarintEnd

\* What unpack returns is a size.
LEMMA UnpackedTyped ==
    ASSUME NEW bytes \in Seq(Byte), SizeLength(bytes) >= MinPrefix
    PROVE  Unpacked(bytes) \subseteq Sizes
  <1>1. TwoTo[Bits] \in Nat /\ TwoTo[Bits] > 0
    BY Constants
  <1>2. \A v \in Nat : v % TwoTo[Bits] \in Sizes
    BY <1>1, DivMod DEF Sizes
  <1>3. CASE Policy = "varint"
    <2>1. VarintRead(bytes)[VarintEnd(bytes)] \in Nat
      BY EndIs, VarintReadIs
    <2>2. VarintUnpack(bytes) \in Sizes
      BY <1>2, <2>1 DEF VarintUnpack
    <2> QED BY <1>3, <2>2 DEF Unpacked
  <1>4. CASE Policy = "fixint"
    <2>1. MaxPrefix \in Nat /\ MaxPrefix >= 1 /\ MinPrefix = MaxPrefix /\ Policy # "varint"
      BY <1>4, Constants
    <2>2. Len(bytes) >= MaxPrefix
      <3>1. Len(bytes) \in Nat
        OBVIOUS
      <3> QED BY <2>1, <3>1 DEF SizeLength
    <2>3. FixintRead(bytes)[MaxPrefix] \in Nat
      BY <2>1, <2>2, FixintReadIs
    <2>4. FixintUnpack(bytes) \in Sizes
      BY <1>2, <2>3 DEF FixintUnpack
    <2> QED BY <2>1, <2>4 DEF Unpacked
  <1> QED BY <1>3, <1>4, Constants

\* Bytes that begin as p, as far as they go.
Agree(bytes, p) == \A i \in 1..Len(bytes) : i <= Len(p) => bytes[i] = p[i]

LEMMA VarintValue ==
    ASSUME NEW size \in Sizes, size > 0, Policy = "varint", NEW bytes \in Seq(Byte),
           Agree(bytes, PrefixOf(size)), Len(bytes) >= PackedLength(size)
    PROVE  VarintRead(bytes)[PackedLength(size)] = size
  <1> DEFINE L == PackedLength(size)
             r == Rest(size)
             v == VarintRead(bytes)
             w(n) == TwoTo[Carried * n]
             T == {n \in 0..L : v[n] + r[n] * w(n) = size}
  <1>0. size \in Nat
    BY NothingLeft
  <1>1. L \in Nat /\ L \in 1..MaxPrefix /\ r[L] = 0 /\ Len(PrefixOf(size)) = L /\ Len(bytes) \in Nat
    BY VarintLast, VarintPrefix
  <1>2. Base \in Nat /\ Radix = Base /\ Carried = Shift /\ MaxPrefix \in Nat
    BY Constants
  <1>3. 0 \in T
    <2>1. Carried * 0 = 0 /\ w(0) = 1
      BY Constants, TwoToIs
    <2>2. r[0] = size /\ v[0] = 0 /\ size * 1 = size
      BY <1>0, RestIs, VarintReadIs
    <2> QED BY <1>0, <1>1, <2>1, <2>2
  <1>4. ASSUME NEW n \in 0..L, n \in T, n < L PROVE n + 1 \in T
    <2>1. /\ n \in Nat /\ n + 1 \in 1..L /\ (n + 1) - 1 = n /\ n + 1 \in 1..Len(bytes)
          /\ n \in 0..MaxPrefix /\ n < MaxPrefix /\ n + 1 \in 0..L /\ n \in 0..Len(bytes)
      BY <1>1, <1>2, <1>4
    <2>2. bytes[n + 1] % Base = r[n] % Base
      <3>1. bytes[n + 1] = PrefixOf(size)[n + 1]
        BY <1>1, <2>1 DEF Agree
      <3> QED BY <2>1, <3>1, VarintPrefix
    <2>3. v[n + 1] = v[n] + (r[n] % Base) * w(n)
      BY <1>2, <2>1, <2>2, VarintReadIs
    <2>4. /\ r[n] \in Nat /\ r[n + 1] \in Nat /\ r[n] % Base \in Nat
          /\ r[n] = (r[n] % Base) + Base * r[n + 1]
      BY <1>0, <1>2, <2>1, RestAt
    <2>5. w(n) \in Nat /\ w(n + 1) = w(n) * Base
      BY <1>2, <2>1, Weights
    <2>6. v[n] \in Nat
      BY <2>1, VarintReadIs
    <2>7. v[n] + r[n] * w(n) = size
      BY <1>4
    <2> DEFINE a == v[n]
               b == r[n]
               c == b % Base
               d == r[n + 1]
               e == w(n)
    <2>8. a \in Nat /\ b \in Nat /\ c \in Nat /\ d \in Nat /\ e \in Nat /\ b = c + Base * d /\ a + b * e = size
      BY <2>4, <2>5, <2>6, <2>7
    <2>9. v[n + 1] = a + c * e /\ w(n + 1) = e * Base
      BY <2>3, <2>5
    <2> HIDE DEF a, b, c, d, e, v, r, w
    <2>10. (a + c * e) + d * (e * Base) = a + (c + Base * d) * e
      BY ONLY <1>2, <2>8
    <2>11. v[n + 1] + d * w(n + 1) = size
      BY <2>8, <2>9, <2>10
    <2> QED BY <2>1, <2>11 DEF d
  <1>5. 0..L \subseteq T
    <2> HIDE DEF T, L
    <2> QED BY <1>1, <1>3, <1>4, Climb
  <1>6. v[L] + r[L] * w(L) = size
    BY <1>1, <1>5
  <1>7. v[L] \in Nat /\ w(L) \in Nat
    <2>1. v[L] \in Nat
      BY <1>1, VarintReadIs
    <2>2. w(L) \in Nat
      BY <1>1, Weights
    <2> QED BY <2>1, <2>2
  <1> HIDE DEF v, r, w
  <1> QED BY <1>1, <1>6, <1>7 DEF v

LEMMA FixintValue ==
    ASSUME NEW size \in Sizes, Policy = "fixint", NEW bytes \in Seq(Byte),
           Agree(bytes, PrefixOf(size)), Len(bytes) >= MaxPrefix
    PROVE  FixintRead(bytes)[MaxPrefix] = size
  <1> DEFINE M == MaxPrefix
             r == Rest(size)
             v == FixintRead(bytes)
             w(n) == TwoTo[Carried * n]
             T == {n \in 0..M : v[n] = r[M - n] * w(M - n)}
  <1>0. size \in Nat /\ r[M] = 0
    BY NothingLeft
  <1>1. M \in Nat /\ Len(PrefixOf(size)) = M /\ Len(bytes) \in Nat
    BY Constants, FixintPrefix
  <1>2. Radix \in Nat /\ Carried = Shift + 1
    BY Constants
  <1>3. 0 \in T
    <2>0. M - 0 = M
      BY <1>1
    <2>1. w(M) \in Nat
      BY <1>1, Weights
    <2>2. v[0] = 0
      BY FixintReadIs
    <2>3. r[M] * w(M) = 0
      BY <1>0, <2>1
    <2> QED BY <1>1, <2>0, <2>1, <2>2, <2>3
  <1>4. ASSUME NEW n \in 0..M, n \in T, n < M PROVE n + 1 \in T
    <2> DEFINE k == M - (n + 1)
    <2>1. /\ n + 1 \in 1..M /\ (n + 1) - 1 = n /\ n + 1 \in 1..Len(bytes) /\ n + 1 \in 0..M
          /\ k \in Nat /\ k \in 0..M /\ k < M /\ k + 1 = M - n
      BY <1>1, <1>4
    <2> HIDE DEF k
    <2>2. bytes[n + 1] = r[k] % Radix
      <3>1. bytes[n + 1] = PrefixOf(size)[n + 1]
        BY <1>1, <2>1 DEF Agree
      <3> QED BY <2>1, <3>1, FixintPrefix DEF k
    <2>3. v[n + 1] = v[n] + (r[k] % Radix) * w(k)
      BY <1>2, <2>1, <2>2, FixintReadIs DEF k
    <2>4. /\ r[k] \in Nat /\ r[k + 1] \in Nat /\ r[k] % Radix \in Nat
          /\ r[k] = (r[k] % Radix) + Radix * r[k + 1]
      BY <1>0, <1>2, <2>1, RestAt
    <2>5. w(k) \in Nat /\ w(k + 1) = w(k) * Radix
      BY <2>1, Weights
    <2>6. v[n] = r[k + 1] * w(k + 1)
      BY <1>4, <2>1
    <2> DEFINE b == r[k]
               c == b % Radix
               d == r[k + 1]
               e == w(k)
    <2>7. b \in Nat /\ c \in Nat /\ d \in Nat /\ e \in Nat /\ b = c + Radix * d
      BY <2>4, <2>5
    <2>8. v[n + 1] = d * (e * Radix) + c * e
      BY <2>3, <2>5, <2>6
    <2>9. M - (n + 1) = k
      BY DEF k
    <2> HIDE DEF b, c, d, e, v, r, w
    <2>10. d * (e * Radix) + c * e = (c + Radix * d) * e
      BY ONLY <1>2, <2>7
    <2>11. v[n + 1] = b * e
      BY <2>7, <2>8, <2>10
    <2> QED BY <2>1, <2>9, <2>11 DEF b, e
  <1>5. 0..M \subseteq T
    <2> HIDE DEF T, M
    <2> QED BY <1>1, <1>3, <1>4, Climb
  <1>6. v[M] = r[M - M] * w(M - M) /\ M - M = 0
    BY <1>1, <1>5
  <1>7. r[0] = size /\ w(0) = 1
    <2>1. Carried * 0 = 0
      BY Constants
    <2> QED BY <1>0, <2>1, RestIs, TwoToIs
  <1> HIDE DEF v, r, w
  <1> QED BY <1>0, <1>6, <1>7 DEF v

\* The sizes that get a prefix: a varint of 0 has none.
Framed == {size \in Sizes : size > 0 \/ Policy = "fixint"}

\* What is read of the front of a frame: the whole prefix, and its size; or that
\* the prefix is not all there.
LEMMA PrefixRead ==
    ASSUME NEW size \in Framed, NEW bytes \in Seq(Byte), Agree(bytes, PrefixOf(size))
    PROVE  /\ PrefixOf(size) \in Seq(Byte) /\ Len(PrefixOf(size)) \in MinPrefix..MaxPrefix
           /\ Len(PrefixOf(size)) \in Nat \ {0}
           /\ Len(bytes) >= Len(PrefixOf(size)) =>
                 /\ SizeLength(bytes) = Len(PrefixOf(size)) /\ SizeLength(bytes) >= MinPrefix
                 /\ Unpacked(bytes) = {size}
           /\ Len(bytes) < Len(PrefixOf(size)) => SizeLength(bytes) < MinPrefix
  <1> DEFINE p == PrefixOf(size)
  <1>0. /\ size \in Sizes /\ size \in Nat /\ size % TwoTo[Bits] = size /\ Len(bytes) \in Nat
        /\ MaxPrefix \in Nat /\ MaxPrefix >= 1 /\ MinPrefix \in 1..MaxPrefix
    BY NothingLeft, Constants DEF Framed
  <1>1. CASE Policy = "varint"
    <2> DEFINE L == PackedLength(size)
    <2>0. size > 0 /\ MinPrefix = 1 /\ Policy # "fixint"
      BY <1>1, Constants DEF Framed
    <2>1. L \in 1..MaxPrefix /\ p \in Seq(Byte) /\ Len(p) = L
      BY <1>0, <1>1, <2>0, VarintLast, VarintPrefix
    <2>2. \A i \in 1..L : p[i] < Base <=> i = L
      BY <1>0, <1>1, <2>0, VarintPrefix
    <2>3. SizeLength(bytes) = VarintEnd(bytes)
      BY <1>1 DEF SizeLength
    <2>4. ASSUME Len(bytes) >= L
          PROVE  SizeLength(bytes) = L /\ Unpacked(bytes) = {size}
      <3>1. L \in 1..Len(bytes) /\ L \in Nat
        BY <1>0, <2>1, <2>4
      <3> HIDE DEF L, p
      <3>2. \A i \in 1..L : bytes[i] = p[i]
        BY <1>0, <2>1, <3>1 DEF Agree, p
      <3>3. VarintEnd(bytes) = L
        BY <2>2, <3>1, <3>2, EndAt
      <3>4. VarintRead(bytes)[L] = size
        BY <1>0, <1>1, <2>0, <2>4, VarintValue DEF L
      <3>5. VarintUnpack(bytes) = size
        BY <1>0, <3>3, <3>4 DEF VarintUnpack
      <3>6. ~(SizeLength(bytes) > MaxPrefix)
        BY <1>0, <2>1, <2>3, <3>3
      <3> QED BY <1>1, <2>3, <3>3, <3>5, <3>6 DEF Unpacked
    <2>5. ASSUME Len(bytes) < L
          PROVE  SizeLength(bytes) < MinPrefix
      <3>1. L \in Nat
        BY <2>1
      <3> HIDE DEF L, p
      <3>2. ASSUME NEW i \in 1..Len(bytes) PROVE ~(bytes[i] < Base)
        <4>1. i \in 1..L /\ i # L /\ i <= L
          BY <1>0, <2>5, <3>1
        <4>2. bytes[i] = p[i]
          BY <2>1, <4>1 DEF Agree, p
        <4> QED BY <2>2, <4>1, <4>2
      <3>3. VarintEnd(bytes) = 0
        BY <3>2, NoEnd
      <3> QED BY <2>0, <2>3, <3>3
    <2> HIDE DEF L
    <2> QED BY <1>0, <2>0, <2>1, <2>4, <2>5 DEF p
  <1>2. CASE Policy = "fixint"
    <2>0. Policy # "varint" /\ MinPrefix = MaxPrefix
      BY <1>2, Constants
    <2>1. p \in Seq(Byte) /\ Len(p) = MaxPrefix
      BY <1>0, <1>2, FixintPrefix
    <2>2. ASSUME Len(bytes) >= MaxPrefix
          PROVE  SizeLength(bytes) = MaxPrefix /\ Unpacked(bytes) = {size}
      <3>1. SizeLength(bytes) = MaxPrefix
        BY <1>0, <2>0, <2>2 DEF SizeLength
      <3>2. FixintRead(bytes)[MaxPrefix] = size
        BY <1>0, <1>2, <2>2, FixintValue
      <3>3. FixintUnpack(bytes) = size
        BY <1>0, <3>2 DEF FixintUnpack
      <3> QED BY <1>0, <2>0, <3>1, <3>3 DEF Unpacked
    <2>3. ASSUME Len(bytes) < MaxPrefix
          PROVE  SizeLength(bytes) < MinPrefix
      BY <1>0, <2>0, <2>3 DEF SizeLength
    <2> HIDE DEF p
    <2> QED BY <1>0, <2>0, <2>1, <2>2, <2>3 DEF p
  <1> QED BY <1>1, <1>2, Constants

\* varint and fixint: pack writes as many bytes as packed_length says; whatever
\* bytes follow them, size_length finds these, and unpack reads the size that was
\* packed.
THEOREM PackRoundTrips ==
    \A size \in Framed : \A bytes \in Seq(Byte) :
        /\ Len(Pack(size)) = PackedLength(size)
        /\ SizeLength(Pack(size) \o bytes) = PackedLength(size)
        /\ Unpacked(Pack(size) \o bytes) = {size}
  <1> TAKE size \in Framed
  <1> TAKE bytes \in Seq(Byte)
  <1> DEFINE p == PrefixOf(size)
             b == p \o bytes
  <1>1. Len(<<>>) = 0 /\ <<>> \in Seq(Byte)
    OBVIOUS
  <1>2. Agree(<<>>, p)
    BY <1>1 DEF Agree
  <1>3. p \in Seq(Byte) /\ Len(p) \in Nat
    BY <1>1, <1>2, PrefixRead
  <1>4. p = Pack(size) /\ Len(p) = PackedLength(size)
    BY VarintPrefix, FixintPrefix, Constants DEF Framed
  <1> HIDE DEF p
  <1>5. /\ b \in Seq(Byte) /\ Len(b) = Len(p) + Len(bytes)
        /\ \A i \in 1..(Len(p) + Len(bytes)) : b[i] = IF i <= Len(p) THEN p[i] ELSE bytes[i - Len(p)]
    BY <1>3, ConcatProperties
  <1> HIDE DEF b
  <1>6. Agree(b, p)
    BY <1>3, <1>5 DEF Agree
  <1>7. Len(b) >= Len(p)
    BY <1>3, <1>5
  <1>8. SizeLength(b) = Len(p) /\ Unpacked(b) = {size}
    BY <1>5, <1>6, <1>7, PrefixRead DEF p
  <1> QED BY <1>4, <1>8 DEF b

----------------------------------------------------------------------------
(* Frames, one after the other.                                              *)

\* What the peer may send, so that it arrives.
Sendable == {m \in Seq(Byte) : Len(m) \in Framed}

LEMMA FrameIs ==
    ASSUME NEW m \in Sendable
    PROVE  /\ m \in Seq(Byte) /\ Len(m) \in Framed /\ Len(m) \in Nat
           /\ Frame(m) = PrefixOf(Len(m)) \o m
           /\ Frame(m) \in Seq(Byte)
           /\ PrefixOf(Len(m)) \in Seq(Byte) /\ Len(PrefixOf(Len(m))) \in Nat \ {0}
           /\ Len(Frame(m)) = Len(PrefixOf(Len(m))) + Len(m)
  <1>1. m \in Seq(Byte) /\ Len(m) \in Framed /\ Len(m) \in Nat
    BY DEF Sendable
  <1>2. Frame(m) = PrefixOf(Len(m)) \o m
    BY DEF Frame, PrefixOf
  <1>3. PrefixOf(Len(m)) \in Seq(Byte) /\ Len(PrefixOf(Len(m))) \in Nat \ {0}
    <2>1. <<>> \in Seq(Byte) /\ Agree(<<>>, PrefixOf(Len(m)))
      BY DEF Agree
    <2> QED BY <1>1, <2>1, PrefixRead
  <1>4. Frame(m) \in Seq(Byte) /\ Len(Frame(m)) = Len(PrefixOf(Len(m))) + Len(m)
    BY <1>1, <1>2, <1>3, ConcatProperties
  <1> QED BY <1>1, <1>2, <1>3, <1>4

IsFrames(f, s) == f = [n \in 0..Len(s) |-> IF n = 0 THEN <<>> ELSE f[n - 1] \o Frame(s[n])]
FramesUpto(s) == CHOOSE f : IsFrames(f, s)

LEMMA UptoIs ==
    ASSUME NEW s \in Seq(Sendable)
    PROVE  /\ \A n \in 0..Len(s) : FramesUpto(s)[n] \in Seq(Byte)
           /\ FramesUpto(s)[0] = <<>>
           /\ \A n \in 1..Len(s) : FramesUpto(s)[n] = FramesUpto(s)[n - 1] \o Frame(s[n])
           /\ Frames(s) = FramesUpto(s)[Len(s)]
  <1> DEFINE L == Len(s)
             F == [i \in 1..L |-> [v \in Seq(Byte) |-> v \o Frame(s[i])]]
             g == FramesUpto(s)
  <1>0. L \in Nat /\ <<>> \in Seq(Byte)
    OBVIOUS
  <1>1. \A i \in 1..L : Frame(s[i]) \in Seq(Byte)
    <2>1. \A i \in 1..L : s[i] \in Sendable
      OBVIOUS
    <2> QED BY <2>1, FrameIs
  <1>2. F \in [1..L -> [Seq(Byte) -> Seq(Byte)]]
    <2>1. \A i \in 1..L, v \in Seq(Byte) : v \o Frame(s[i]) \in Seq(Byte)
      BY <1>1, ConcatProperties
    <2> HIDE DEF L
    <2> QED BY <2>1
  <1>3. \A i \in 1..L, v \in Seq(Byte) : F[i][v] = v \o Frame(s[i])
    <2> HIDE DEF L
    <2> QED OBVIOUS
  <1>4. PICK f \in [0..L -> Seq(Byte)] : Follows(f, <<>>, F, L)
    <2> HIDE DEF F, L
    <2> QED BY <1>0, <1>2, Recursion
  <1> HIDE DEF F
  <1>5. f[0] = <<>> /\ \A n \in 1..L : f[n] = f[n - 1] \o Frame(s[n])
    <2>1. \A n \in 1..L : n - 1 \in 0..L
      BY <1>0
    <2> HIDE DEF L
    <2> QED BY <1>3, <1>4, <2>1 DEF Follows
  <1>6. IsFrames(f, s)
    <2> DEFINE h == [n \in 0..L |-> IF n = 0 THEN <<>> ELSE f[n - 1] \o Frame(s[n])]
    <2>1. ASSUME NEW n \in 0..L PROVE f[n] = h[n]
      <3>1. CASE n = 0
        BY <1>5, <3>1
      <3>2. CASE n # 0
        <4>1. n \in 1..L
          BY <1>0, <3>2
        <4> QED BY <1>5, <3>2, <4>1
      <3> QED BY <3>1, <3>2
    <2>2. f = [n \in 0..L |-> f[n]] /\ h = [n \in 0..L |-> h[n]]
      OBVIOUS
    <2>3. f = h
      <3> HIDE DEF h, L
      <3> QED BY <2>1, <2>2
    <2> QED BY <2>3 DEF IsFrames
  <1>7. IsFrames(g, s)
    BY <1>6 DEF FramesUpto
  <1>8. Frames(s) = g[L]
    BY DEF Frames, FramesUpto, IsFrames
  <1> HIDE DEF g
  <1>9. g[0] = <<>> /\ \A n \in 1..L : g[n] = g[n - 1] \o Frame(s[n])
    <2>1. 0 \in 0..L /\ \A n \in 1..L : n \in 0..L /\ n # 0
      BY <1>0
    <2>2. g = [n \in 0..L |-> IF n = 0 THEN <<>> ELSE g[n - 1] \o Frame(s[n])]
      BY <1>7 DEF IsFrames
    <2> HIDE DEF L
    <2> QED BY ONLY <2>1, <2>2
  <1>10. \A n \in 0..L : g[n] \in Seq(Byte)
    <2> DEFINE T == {n \in 0..L : g[n] \in Seq(Byte)}
    <2>1. 0 \in T
      BY <1>0, <1>9
    <2>2. ASSUME NEW k \in 0..L, k \in T, k < L PROVE k + 1 \in T
      <3>1. k + 1 \in 1..L /\ (k + 1) - 1 = k /\ k + 1 \in 0..L /\ g[k] \in Seq(Byte)
        BY <1>0, <2>2
      <3>2. g[k + 1] = g[k] \o Frame(s[k + 1])
        BY <1>9, <3>1
      <3>3. g[k] \o Frame(s[k + 1]) \in Seq(Byte)
        BY <1>1, <3>1, ConcatProperties
      <3> QED BY <3>1, <3>2, <3>3
    <2>3. 0..L \subseteq T
      <3> HIDE DEF T, L
      <3> QED BY <1>0, <2>1, <2>2, Climb
    <2> QED BY <2>3
  <1> QED BY <1>8, <1>9, <1>10 DEF g

LEMMA FramesNone == Frames(<<>>) = <<>>
  <1>1. <<>> \in Seq(Sendable) /\ Len(<<>>) = 0
    OBVIOUS
  <1> QED BY <1>1, UptoIs

LEMMA FramesTyped ==
    ASSUME NEW s \in Seq(Sendable)
    PROVE  Frames(s) \in Seq(Byte)
  <1>1. Len(s) \in 0..Len(s)
    OBVIOUS
  <1> QED BY <1>1, UptoIs

LEMMA FramesAppend ==
    ASSUME NEW s \in Seq(Sendable), NEW m \in Sendable
    PROVE  Frames(Append(s, m)) = Frames(s) \o Frame(m)
  <1> DEFINE L == Len(s)
             t == Append(s, m)
             f == FramesUpto(s)
             g == FramesUpto(t)
             T == {n \in 0..L : f[n] = g[n]}
  <1>0. /\ L \in Nat /\ t \in Seq(Sendable) /\ Len(t) = L + 1 /\ t[L + 1] = m
        /\ \A n \in 1..L : t[n] = s[n]
    BY AppendProperties
  <1> HIDE DEF t
  <1>1. 0 \in T
    <2>1. f[0] = <<>> /\ g[0] = <<>>
      BY <1>0, UptoIs
    <2>2. 0 \in 0..L
      BY <1>0
    <2> QED BY <2>1, <2>2
  <1>2. ASSUME NEW k \in 0..L, k \in T, k < L PROVE k + 1 \in T
    <2>1. k + 1 \in 1..L /\ k + 1 \in 1..Len(t) /\ (k + 1) - 1 = k /\ k + 1 \in 0..L
      BY <1>0, <1>2
    <2>2. f[k + 1] = f[k] \o Frame(s[k + 1])
      BY <2>1, UptoIs
    <2>3. g[k + 1] = g[k] \o Frame(t[k + 1])
      BY <1>0, <2>1, UptoIs
    <2>4. t[k + 1] = s[k + 1] /\ f[k] = g[k]
      BY <1>0, <1>2, <2>1
    <2> QED BY <2>1, <2>2, <2>3, <2>4
  <1>3. 0..L \subseteq T
    <2> HIDE DEF T, L
    <2> QED BY <1>0, <1>1, <1>2, Climb
  <1>4. f[L] = g[L]
    BY <1>0, <1>3
  <1>5. L + 1 \in 1..Len(t) /\ (L + 1) - 1 = L
    BY <1>0
  <1>6. g[L + 1] = g[L] \o Frame(m)
    BY <1>0, <1>5, UptoIs
  <1>7. Frames(s) = f[L] /\ Frames(t) = g[L + 1]
    BY <1>0, UptoIs
  <1> QED BY <1>4, <1>6, <1>7 DEF t

LEMMA FramesCat ==
    ASSUME NEW s \in Seq(Sendable), NEW t \in Seq(Sendable)
    PROVE  s \o t \in Seq(Sendable) /\ Frames(s \o t) = Frames(s) \o Frames(t)
  <1> DEFINE L == Len(t)
             c(n) == SubSeq(t, 1, n)
             T == {n \in 0..L : Frames(s \o c(n)) = Frames(s) \o Frames(c(n))}
  <1>0. L \in Nat /\ c(L) = t
    BY SubSeqFull
  <1>1. \A n \in 0..L : c(n) \in Seq(Sendable) /\ s \o c(n) \in Seq(Sendable)
    <2> SUFFICES ASSUME NEW n \in 0..L PROVE c(n) \in Seq(Sendable)
      BY ConcatProperties
    <2>1. \A i \in 1..n : t[i] \in Sendable
      BY ElementOfSeq
    <2> QED BY <2>1, SubSeqProperties
  <1>2. 0 \in T
    <2>1. c(0) = <<>>
      BY SubSeqEmpty
    <2>2. Frames(s) \in Seq(Byte) /\ s \o <<>> = s
      BY FramesTyped, ConcatEmptySeq
    <2>3. Frames(s) \o <<>> = Frames(s)
      BY <2>2, ConcatEmptySeq
    <2>4. 0 \in 0..L
      BY <1>0
    <2> QED BY <2>1, <2>2, <2>3, <2>4, FramesNone
  <1>3. ASSUME NEW k \in 0..L, k \in T, k < L PROVE k + 1 \in T
    <2> DEFINE m == t[k + 1]
    <2>1. k + 1 \in 1..L /\ k + 1 \in 0..L /\ k \in 0..L /\ (k + 1) - 1 = k /\ 1 \in 1..Len(t)
      BY <1>0, <1>3
    <2>2. m \in Sendable
      BY <2>1, ElementOfSeq
    <2>3. c(k + 1) = c(k) \o <<m>>
      BY <2>1, SubSeqRecursiveSecond
    <2>4. c(k) \in Seq(Sendable) /\ <<m>> \in Seq(Sendable) /\ s \o c(k) \in Seq(Sendable)
      BY <1>1, <2>1, <2>2
    <2>5. Frames(s \o c(k)) = Frames(s) \o Frames(c(k))
      BY <1>3
    <2> HIDE DEF m, c
    <2>6. s \o c(k + 1) = Append(s \o c(k), m) /\ c(k + 1) = Append(c(k), m)
      <3>1. Append(s \o c(k), m) = (s \o c(k)) \o <<m>> /\ Append(c(k), m) = c(k) \o <<m>>
        BY ONLY <2>2, <2>4, AppendIsConcat, SMT
      <3>2. (s \o c(k)) \o <<m>> = s \o (c(k) \o <<m>>)
        <4> DEFINE a == c(k)
                   b == <<m>>
        <4>1. a \in Seq(Sendable) /\ b \in Seq(Sendable)
          BY <2>4
        <4> HIDE DEF a, b
        <4>2. (s \o a) \o b = s \o (a \o b)
          BY ONLY <4>1, ConcatAssociative, s \in Seq(Sendable)
        <4> QED BY <4>2 DEF a, b
      <3> QED BY ONLY <2>3, <3>1, <3>2, Zenon
    <2>7. /\ Frames(s \o c(k + 1)) = Frames(s \o c(k)) \o Frame(m)
          /\ Frames(c(k + 1)) = Frames(c(k)) \o Frame(m)
      BY <2>2, <2>4, <2>6, FramesAppend
    <2>8. Frames(s) \in Seq(Byte) /\ Frames(c(k)) \in Seq(Byte) /\ Frame(m) \in Seq(Byte)
      BY <2>2, <2>4, FramesTyped, FrameIs
    <2>9. Frames(s \o c(k + 1)) = Frames(s) \o Frames(c(k + 1))
      <3>1. (Frames(s) \o Frames(c(k))) \o Frame(m) = Frames(s) \o (Frames(c(k)) \o Frame(m))
        <4> DEFINE a == Frames(s)
                   b == Frames(c(k))
                   d == Frame(m)
        <4>1. a \in Seq(Byte) /\ b \in Seq(Byte) /\ d \in Seq(Byte)
          BY <2>8
        <4> HIDE DEF a, b, d
        <4>2. (a \o b) \o d = a \o (b \o d)
          BY ONLY <4>1, ConcatAssociative
        <4> QED BY <4>2 DEF a, b, d
      <3> QED BY ONLY <2>5, <2>7, <3>1, Zenon
    <2> QED BY <2>1, <2>9
  <1>4. 0..L \subseteq T
    <2> HIDE DEF T, L
    <2> QED BY <1>0, <1>2, <1>3, Climb
  <1>5. L \in T
    BY <1>0, <1>4
  <1>6. s \o t \in Seq(Sendable)
    BY ConcatProperties
  <1> QED BY <1>0, <1>5, <1>6

\* What is on the way when the first j messages have been cut off.
After(s, j) == Frames(SubSeq(s, j + 1, Len(s)))

LEMMA AfterTyped ==
    ASSUME NEW s \in Seq(Sendable), NEW j \in 0..Len(s)
    PROVE  /\ SubSeq(s, j + 1, Len(s)) \in Seq(Sendable)
           /\ SubSeq(s, 1, j) \in Seq(Sendable) /\ Len(SubSeq(s, 1, j)) = j
           /\ After(s, j) \in Seq(Byte)
  <1>1. \A i \in 1..Len(s) : s[i] \in Sendable
    BY ElementOfSeq
  <1>2. SubSeq(s, j + 1, Len(s)) \in Seq(Sendable)
    BY <1>1, SubSeqProperties
  <1>3. SubSeq(s, 1, j) \in Seq(Sendable) /\ Len(SubSeq(s, 1, j)) = j
    BY <1>1, SubSeqProperties
  <1> QED BY <1>2, <1>3, FramesTyped DEF After

LEMMA AfterAll ==
    ASSUME NEW s \in Seq(Sendable)
    PROVE  After(s, Len(s)) = <<>>
  <1>1. SubSeq(s, Len(s) + 1, Len(s)) = <<>>
    BY SubSeqEmpty
  <1> QED BY <1>1, FramesNone DEF After

LEMMA AfterNext ==
    ASSUME NEW s \in Seq(Sendable), NEW j \in 0..Len(s), j < Len(s)
    PROVE  /\ s[j + 1] \in Sendable /\ j + 1 \in 0..Len(s)
           /\ After(s, j) = Frame(s[j + 1]) \o After(s, j + 1)
  <1> DEFINE m == s[j + 1]
             t == SubSeq(s, j + 2, Len(s))
  <1>1. j + 1 \in 1..Len(s) /\ j + 1 \in 0..Len(s) /\ (j + 1) + 1 = j + 2 /\ Len(s) \in (j + 1)..Len(s)
    OBVIOUS
  <1>2. m \in Sendable /\ t \in Seq(Sendable)
    BY <1>1, ElementOfSeq, AfterTyped
  <1>3. SubSeq(s, j + 1, Len(s)) = <<m>> \o t
    BY <1>1, SubSeqRecursiveFirst
  <1> HIDE DEF m, t
  <1>4. <<m>> \in Seq(Sendable) /\ <<>> \in Seq(Sendable) /\ <<m>> = Append(<<>>, m)
    BY <1>2
  <1>5. Frames(<<m>>) = Frame(m)
    <2>1. Frames(<<m>>) = <<>> \o Frame(m)
      BY <1>2, <1>4, FramesAppend, FramesNone
    <2> QED BY <1>2, <2>1, FrameIs, ConcatEmptySeq
  <1>6. Frames(<<m>> \o t) = Frame(m) \o Frames(t)
    <2>1. Frames(<<m>> \o t) = Frames(<<m>>) \o Frames(t)
      BY <1>2, <1>4, FramesCat, Zenon
    <2> QED BY ONLY <1>5, <2>1, Zenon
  <1>7. After(s, j) = Frame(m) \o Frames(t) /\ After(s, j + 1) = Frames(t)
    BY <1>1, <1>3, <1>6 DEF After, t
  <1> QED BY <1>1, <1>2, <1>7 DEF m

LEMMA AfterAppend ==
    ASSUME NEW s \in Seq(Sendable), NEW m \in Sendable, NEW j \in 0..Len(s)
    PROVE  After(Append(s, m), j) = After(s, j) \o Frame(m)
  <1> DEFINE t == SubSeq(s, j + 1, Len(s))
             u == SubSeq(Append(s, m), j + 1, Len(s) + 1)
  <1>1. t \in Seq(Sendable) /\ Append(s, m) \in Seq(Sendable) /\ Len(Append(s, m)) = Len(s) + 1
    BY AfterTyped, AppendProperties
  <1>2. u = Append(t, m)
    <2>1. j + 1 \in 1..Len(Append(s, m)) /\ Len(s) + 1 \in (j + 1)..Len(Append(s, m)) /\ (Len(s) + 1) - 1 = Len(s)
      BY <1>1
    <2>2. u = SubSeq(Append(s, m), j + 1, Len(s)) \o <<Append(s, m)[Len(s) + 1]>>
      BY <1>1, <2>1, SubSeqRecursiveSecond
    <2>3. Append(s, m)[Len(s) + 1] = m
      BY AppendProperties
    <2>4. SubSeq(Append(s, m), j + 1, Len(s)) = t
      <3>1. CASE j = Len(s)
        BY <3>1, SubSeqEmpty
      <3>2. CASE j # Len(s)
        <4>1. j + 1 \in 1..Len(s) /\ Len(s) \in 1..Len(s)
          BY <3>2
        <4>2. Append(s, m) = s \o <<m>> /\ <<m>> \in Seq(Sendable)
          BY AppendIsConcat
        <4> QED BY <4>1, <4>2, SubSeqOfConcat1
      <3> QED BY <3>1, <3>2
    <2> QED BY <1>1, <2>2, <2>3, <2>4, AppendIsConcat
  <1> HIDE DEF t
  <1>3. Frames(Append(t, m)) = Frames(t) \o Frame(m)
    BY <1>1, FramesAppend
  <1> QED BY <1>1, <1>2, <1>3 DEF After, t

LEMMA AfterBefore ==
    ASSUME NEW s \in Seq(Sendable), NEW j \in 0..Len(s)
    PROVE  Frames(s) = Frames(SubSeq(s, 1, j)) \o After(s, j)
  <1> DEFINE a == SubSeq(s, 1, j)
             b == SubSeq(s, j + 1, Len(s))
  <1>1. 1 \in 1..(Len(s) + 1) /\ j \in (1 - 1)..Len(s) /\ Len(s) \in j..Len(s)
    OBVIOUS
  <1>2. a \o b = SubSeq(s, 1, Len(s))
    BY <1>1, ConcatAdjacentSubSeq
  <1>3. SubSeq(s, 1, Len(s)) = s
    BY SubSeqFull
  <1>4. a \in Seq(Sendable) /\ b \in Seq(Sendable)
    BY AfterTyped
  <1> HIDE DEF a, b
  <1>5. Frames(a \o b) = Frames(a) \o Frames(b)
    BY <1>4, FramesCat
  <1> QED BY <1>2, <1>3, <1>5 DEF After, a, b

----------------------------------------------------------------------------
(* Cutting.                                                                  *)

LEMMA Split ==
    ASSUME NEW S, NEW a \in Seq(S), NEW n \in 0..Len(a)
    PROVE  /\ SubSeq(a, 1, n) \in Seq(S) /\ Len(SubSeq(a, 1, n)) = n
           /\ SubSeq(a, n + 1, Len(a)) \in Seq(S) /\ Len(SubSeq(a, n + 1, Len(a))) = Len(a) - n
           /\ SubSeq(a, 1, n) \o SubSeq(a, n + 1, Len(a)) = a
  <1>1. \A i \in 1..Len(a) : a[i] \in S
    BY ElementOfSeq
  <1>2. SubSeq(a, 1, n) \in Seq(S) /\ Len(SubSeq(a, 1, n)) = n
    BY <1>1, SubSeqProperties
  <1>3. SubSeq(a, n + 1, Len(a)) \in Seq(S) /\ Len(SubSeq(a, n + 1, Len(a))) = Len(a) - n
    BY <1>1, SubSeqProperties
  <1>4. 1 \in 1..(Len(a) + 1) /\ n \in (1 - 1)..Len(a) /\ Len(a) \in n..Len(a)
    OBVIOUS
  <1>5. SubSeq(a, 1, n) \o SubSeq(a, n + 1, Len(a)) = SubSeq(a, 1, Len(a))
    BY <1>4, ConcatAdjacentSubSeq
  <1>6. SubSeq(a, 1, Len(a)) = a
    BY SubSeqFull
  <1> QED BY <1>2, <1>3, <1>5, <1>6

LEMMA Assoc == \A a, b, c \in Seq(Byte) : (a \o b) \o c = a \o (b \o c)
  BY ConcatAssociative

LEMMA Joined ==
    \A a, b \in Seq(Byte) : a \o b \in Seq(Byte) /\ Len(a \o b) = Len(a) + Len(b)
  BY ConcatProperties

LEMMA CancelLeft == \A a, b, c \in Seq(Byte) : a \o b = a \o c => b = c
  BY ONLY ConcatSimplifications

LEMMA CancelRight == \A a, b, c \in Seq(Byte) : a \o c = b \o c => a = b
  BY ONLY ConcatSimplifications

\* Two ways to put the same bytes together, cut behind the first n.
LEMMA BothCut ==
    \A a, b, c, d \in Seq(Byte) : \A n \in 0..Len(a) :
        a \o b = c \o d /\ n <= Len(c) =>
            /\ SubSeq(a, 1, n) = SubSeq(c, 1, n)
            /\ SubSeq(a, n + 1, Len(a)) \o b = SubSeq(c, n + 1, Len(c)) \o d
  <1> TAKE a, b, c, d \in Seq(Byte)
  <1> TAKE n \in 0..Len(a)
  <1> HAVE a \o b = c \o d /\ n <= Len(c)
  <1> DEFINE a1 == SubSeq(a, 1, n)
             a2 == SubSeq(a, n + 1, Len(a))
             c1 == SubSeq(c, 1, n)
             c2 == SubSeq(c, n + 1, Len(c))
  <1>1. a1 \in Seq(Byte) /\ a2 \in Seq(Byte) /\ Len(a1) = n /\ a1 \o a2 = a
    BY Split
  <1>2. c1 \in Seq(Byte) /\ c2 \in Seq(Byte) /\ Len(c1) = n /\ c1 \o c2 = c
    <2>1. n \in 0..Len(c)
      OBVIOUS
    <2> QED BY <2>1, Split
  <1> HIDE DEF a1, a2, c1, c2
  <1>3. a1 \o (a2 \o b) = c1 \o (c2 \o d)
    <2>1. a \o b = a1 \o (a2 \o b)
      <3>0. a1 \in Seq(Byte) /\ a2 \in Seq(Byte)
        BY ONLY <1>1
      <3>1. (a1 \o a2) \o b = a1 \o (a2 \o b)
        BY ONLY <3>0, b \in Seq(Byte), Assoc, ZenonT(60)
      <3> QED BY ONLY <1>1, <3>1
    <2>2. c \o d = c1 \o (c2 \o d)
      <3>0. c1 \in Seq(Byte) /\ c2 \in Seq(Byte)
        BY ONLY <1>2
      <3>1. (c1 \o c2) \o d = c1 \o (c2 \o d)
        BY ONLY <3>0, d \in Seq(Byte), Assoc, ZenonT(60)
      <3> QED BY ONLY <1>2, <3>1
    <2> QED BY ONLY <2>1, <2>2, a \o b = c \o d
  <1> DEFINE x == a2 \o b
             y == c2 \o d
  <1>4. x \in Seq(Byte) /\ y \in Seq(Byte)
    BY <1>1, <1>2, ConcatProperties
  <1>5. a1 \o x = c1 \o y
    BY ONLY <1>3
  <1> HIDE DEF x, y
  <1>6. Len(x) \in Nat /\ Len(y) \in Nat
    BY <1>4
  <1>7. a1 = c1
    <2>1. ASSUME NEW i \in 1..n PROVE a1[i] = c1[i]
      <3>1. i \in 1..(Len(a1) + Len(x)) /\ i <= Len(a1) /\ i \in 1..(Len(c1) + Len(y)) /\ i <= Len(c1)
        BY <1>1, <1>2, <1>6
      <3>2. (a1 \o x)[i] = a1[i]
        BY <1>1, <1>4, <3>1, ConcatProperties
      <3>3. (c1 \o y)[i] = c1[i]
        BY <1>2, <1>4, <3>1, ConcatProperties
      <3> QED BY ONLY <1>5, <3>2, <3>3
    <2> QED BY <1>1, <1>2, <2>1, SeqEqual
  <1>8. x = y
    <2>1. a1 \o x = a1 \o y
      BY ONLY <1>5, <1>7
    <2> QED BY ONLY <1>1, <1>4, <2>1, CancelLeft, Zenon
  <1> QED BY <1>7, <1>8 DEF a1, a2, c1, c2, x, y

LEMMA FrontCut ==
    \A a, b, c, d \in Seq(Byte) :
        a \o b = c \o d /\ Len(a) >= Len(c) =>
            SubSeq(a, 1, Len(c)) = c /\ SubSeq(a, Len(c) + 1, Len(a)) \o b = d
  <1> TAKE a, b, c, d \in Seq(Byte)
  <1> HAVE a \o b = c \o d /\ Len(a) >= Len(c)
  <1> DEFINE n == Len(c)
  <1>1. n \in 0..Len(a) /\ n <= Len(c)
    OBVIOUS
  <1>2. /\ SubSeq(a, 1, n) = SubSeq(c, 1, n)
        /\ SubSeq(a, n + 1, Len(a)) \o b = SubSeq(c, n + 1, Len(c)) \o d
    <2> HIDE DEF n
    <2>1. a \o b = c \o d /\ n <= Len(c) =>
              /\ SubSeq(a, 1, n) = SubSeq(c, 1, n)
              /\ SubSeq(a, n + 1, Len(a)) \o b = SubSeq(c, n + 1, Len(c)) \o d
      <3>1. \A e, f \in Seq(Byte) : \A k \in 0..Len(a) :
              a \o b = e \o f /\ k <= Len(e) =>
                  /\ SubSeq(a, 1, k) = SubSeq(e, 1, k)
                  /\ SubSeq(a, k + 1, Len(a)) \o b = SubSeq(e, k + 1, Len(e)) \o f
        BY ONLY BothCut, Zenon, a \in Seq(Byte), b \in Seq(Byte)
      <3>2. n \in 0..Len(a)
        BY <1>1
      <3> QED BY ONLY <3>1, <3>2, c \in Seq(Byte), d \in Seq(Byte), Zenon
    <2>2. a \o b = c \o d /\ n <= Len(c)
      BY ONLY <1>1, a \o b = c \o d
    <2> QED BY ONLY <2>1, <2>2, Zenon
  <1>3. SubSeq(c, 1, n) = c
    BY SubSeqFull
  <1>4. SubSeq(c, n + 1, Len(c)) = <<>>
    BY SubSeqEmpty
  <1>5. <<>> \o d = d
    BY ConcatEmptySeq
  <1> QED BY ONLY <1>2, <1>3, <1>4, <1>5, Zenon DEF n

LEMMA Agreeing ==
    ASSUME NEW a \in Seq(Byte), NEW b \in Seq(Byte), NEW c \in Seq(Byte), NEW d \in Seq(Byte),
           a \o b = c \o d
    PROVE  Agree(a, c)
  <1> SUFFICES ASSUME NEW i \in 1..Len(a), i <= Len(c) PROVE a[i] = c[i]
    BY DEF Agree
  <1>1. i \in 1..(Len(a) + Len(b)) /\ i \in 1..(Len(c) + Len(d))
    OBVIOUS
  <1>2. (a \o b)[i] = a[i] /\ (c \o d)[i] = c[i]
    BY <1>1, ConcatProperties
  <1> QED BY <1>2

\* What the delegates see of a frame in front of them.
Seen(m, u, w, r) ==
    LET p == Len(PrefixOf(Len(m))) IN
    /\ p \in Nat \ {0} /\ p <= MaxPrefix /\ Len(Frame(m)) = p + Len(m)
    /\ Len(u) < p <=> SizeLength(u) < MinPrefix
    /\ Len(u) >= p => SizeLength(u) = p /\ Unpacked(u) = {Len(m)}
    /\ Len(u) >= p => SubSeq(u, p + 1, Len(u)) \o w = m \o r
    /\ Len(u) >= Len(Frame(m)) =>
          /\ SubSeq(u, p + 1, p + Len(m)) = m
          /\ SubSeq(u, p + Len(m) + 1, Len(u)) \o w = r

LEMMA FrameCut ==
    ASSUME NEW m \in Sendable, NEW u \in Seq(Byte), NEW w \in Seq(Byte), NEW r \in Seq(Byte),
           u \o w = Frame(m) \o r
    PROVE  Seen(m, u, w, r)
  <1> DEFINE pre == PrefixOf(Len(m))
             p == Len(pre)
             f == Frame(m)
  <1>1. /\ m \in Seq(Byte) /\ Len(m) \in Framed /\ Len(m) \in Nat
        /\ f = pre \o m /\ f \in Seq(Byte) /\ pre \in Seq(Byte) /\ p \in Nat \ {0}
        /\ Len(f) = p + Len(m)
    BY FrameIs
  <1>2. Len(u) \in Nat /\ MaxPrefix \in Nat /\ MinPrefix \in Nat
    BY Constants
  <1> HIDE DEF f, pre
  <1>3. u \o w = pre \o (m \o r) /\ m \o r \in Seq(Byte)
    <2>1. (pre \o m) \o r = pre \o (m \o r)
      BY <1>1, Assoc, ZenonT(60)
    <2>2. u \o w = f \o r
      BY DEF f
    <2>3. m \o r \in Seq(Byte)
      BY <1>1, ConcatProperties
    <2> QED BY ONLY <1>1, <2>1, <2>2, <2>3
  <1>4. Agree(u, pre)
    <2> DEFINE d == m \o r
    <2>1. d \in Seq(Byte) /\ u \o w = pre \o d
      BY <1>3
    <2> HIDE DEF d
    <2> QED BY ONLY <1>1, <2>1, u \in Seq(Byte), w \in Seq(Byte), Agreeing
  <1>5. /\ p \in MinPrefix..MaxPrefix
        /\ Len(u) >= p => SizeLength(u) = p /\ SizeLength(u) >= MinPrefix /\ Unpacked(u) = {Len(m)}
        /\ Len(u) < p => SizeLength(u) < MinPrefix
    BY <1>1, <1>4, PrefixRead DEF pre
  <1> HIDE DEF p
  <1>6. Len(u) < p <=> SizeLength(u) < MinPrefix
    BY <1>1, <1>2, <1>5
  <1>7. Len(u) >= p => SubSeq(u, p + 1, Len(u)) \o w = m \o r
    <2> HAVE Len(u) >= p
    <2> DEFINE d == m \o r
    <2>1. d \in Seq(Byte) /\ u \o w = pre \o d /\ Len(u) >= Len(pre)
      BY <1>3 DEF p
    <2> HIDE DEF d
    <2>2. SubSeq(u, Len(pre) + 1, Len(u)) \o w = d
      BY <1>1, <2>1, FrontCut, Zenon
    <2> QED BY ONLY <2>2, Zenon DEF d, p
  <1>8. Len(u) >= Len(f) =>
          SubSeq(u, p + 1, p + Len(m)) = m /\ SubSeq(u, p + Len(m) + 1, Len(u)) \o w = r
    <2> SUFFICES ASSUME Len(u) >= Len(f)
                 PROVE  SubSeq(u, p + 1, p + Len(m)) = m /\ SubSeq(u, p + Len(m) + 1, Len(u)) \o w = r
      OBVIOUS
    <2> DEFINE n == Len(f)
    <2>1. n \in 0..Len(u) /\ n <= Len(f) /\ n = p + Len(m) /\ u \o w = f \o r
      BY <1>1, <1>2 DEF f
    <2>2. SubSeq(u, 1, n) = f /\ SubSeq(u, n + 1, Len(u)) \o w = r
      BY <1>1, <2>1, FrontCut, Zenon
    <2>3. SubSeq(u, p + Len(m) + 1, Len(u)) \o w = r
      BY ONLY <2>1, <2>2, Zenon
    <2>4. SubSeq(u, p + 1, p + Len(m)) = m
      <3> DEFINE q == SubSeq(u, p + 1, p + Len(m))
      <3>1. p \in Nat /\ p + Len(m) \in Nat /\ p + Len(m) <= Len(u)
        BY <1>1
      <3>2. \A i \in (p + 1)..(p + Len(m)) : u[i] \in Byte
        BY <1>1, <1>2, <3>1, ElementOfSeq
      <3>3. q \in Seq(Byte) /\ Len(q) = Len(m) /\ \A i \in 1..Len(m) : q[i] = u[p + i]
        BY <1>1, <3>1, <3>2, SubSeqProperties
      <3>4. ASSUME NEW i \in 1..Len(m) PROVE u[p + i] = m[i]
        <4>1. p + i \in 1..n /\ p + i \in 1..(Len(pre) + Len(m)) /\ ~(p + i <= Len(pre)) /\ (p + i) - Len(pre) = i
              /\ 1 <= n /\ n \in Int
          BY <1>1, <2>1 DEF p
        <4>2. f[p + i] = m[i]
          BY <1>1, <4>1, ConcatProperties
        <4>3. \A k \in 1..n : u[k] \in Byte
          BY <2>1, <1>2, ElementOfSeq
        <4>4. SubSeq(u, 1, n)[p + i] = u[p + i]
          <5> DEFINE k == p + i
          <5>1. k \in 1..(n - 1 + 1) /\ 1 + k - 1 = k
            BY <4>1
          <5> HIDE DEF k, n
          <5>2. SubSeq(u, 1, n)[k] = u[1 + k - 1]
            BY <4>1, <4>3, <5>1, SubSeqProperties
          <5> QED BY <5>1, <5>2 DEF k
        <4> QED BY <2>2, <4>2, <4>4
      <3> HIDE DEF q
      <3>5. q = m
        BY <1>1, <3>3, <3>4, SeqEqual
      <3> QED BY <3>5 DEF q
    <2> QED BY <2>3, <2>4
  <1>9. p <= MaxPrefix
    BY <1>2, <1>5
  <1>10. Len(u) >= p => SizeLength(u) = p /\ Unpacked(u) = {Len(m)}
    BY <1>5
  <1>11. p \in Nat \ {0} /\ Len(f) = p + Len(m)
    BY <1>1
  <1> QED BY ONLY <1>6, <1>7, <1>8, <1>9, <1>10, <1>11, Zenon DEF p, f, pre, Seen

\* A prefix that is complete only with more bytes ends among these.
LEMMA LongerPrefix ==
    ASSUME NEW a \in Seq(Byte), NEW b \in Seq(Byte),
           SizeLength(a) < MinPrefix, SizeLength(a \o b) >= MinPrefix
    PROVE  SizeLength(a \o b) \in Nat /\ SizeLength(a \o b) > Len(a)
  <1> DEFINE c == a \o b
  <1>1. c \in Seq(Byte) /\ Len(a) \in Nat /\ MaxPrefix \in Nat /\ MaxPrefix >= 1
        /\ \A i \in 1..Len(a) : c[i] = a[i]
    BY ConcatProperties, Constants
  <1>2. SizeLength(a) < MinPrefix /\ SizeLength(c) >= MinPrefix
    OBVIOUS
  <1> HIDE DEF c
  <1>3. CASE Policy = "varint"
    <2> DEFINE e == VarintEnd(c)
               A == {i \in 1..Len(a) : a[i] < Base}
               C == {i \in 1..Len(c) : c[i] < Base}
    <2>1. MinPrefix = 1 /\ SizeLength(a) = VarintEnd(a) /\ SizeLength(c) = e
      BY <1>3, Constants DEF SizeLength
    <2>2. e \in 0..Len(c) /\ VarintEnd(a) \in 0..Len(a)
      BY <1>1, EndIs
    <2>3. VarintEnd(a) = 0 /\ e >= 1
      BY <1>2, <2>1, <2>2
    <2>4. A = {}
      <3>1. VarintEnd(a) = IF A = {} THEN 0 ELSE Min(A)
        BY DEF VarintEnd
      <3>2. A # {} => Min(A) \in A
        <4>1. A \in SUBSET Nat
          OBVIOUS
        <4> HIDE DEF A
        <4> QED BY <4>1, MinIs
      <3>3. 0 \notin A
        OBVIOUS
      <3> HIDE DEF A
      <3> QED BY ONLY <2>3, <3>1, <3>2, <3>3
    <2>5. e \in C
      <3>1. e = IF C = {} THEN 0 ELSE Min(C)
        BY DEF VarintEnd
      <3>2. C # {} => Min(C) \in C
        <4>1. C \in SUBSET Nat
          BY <1>1
        <4> HIDE DEF C
        <4> QED BY <4>1, MinIs
      <3> HIDE DEF C, e
      <3> QED BY ONLY <2>3, <3>1, <3>2
    <2>6. ~(e <= Len(a))
      <3> SUFFICES ASSUME e <= Len(a) PROVE FALSE
        OBVIOUS
      <3>1. e \in 1..Len(a) /\ c[e] < Base
        BY <1>1, <2>2, <2>3, <2>5
      <3>2. e \in A
        BY <1>1, <3>1
      <3> QED BY <2>4, <3>2
    <2> HIDE DEF e
    <2> QED BY <1>1, <2>1, <2>2, <2>6 DEF c
  <1>4. CASE Policy = "fixint"
    <2>1. MinPrefix = MaxPrefix /\ Policy # "varint"
      BY <1>4, Constants
    <2>2. Len(a) < MaxPrefix
      BY <1>1, <1>2, <2>1 DEF SizeLength
    <2>3. SizeLength(c) = MaxPrefix
      BY <1>1, <1>2, <2>1 DEF SizeLength
    <2> QED BY <1>1, <2>2, <2>3 DEF c
  <1> QED BY <1>3, <1>4, Constants

----------------------------------------------------------------------------
(* The types, and the one read that is under way.                            *)

LEMMA LengthTyped ==
    ASSUME NEW bytes \in Seq(Byte)
    PROVE  SizeLength(bytes) \in Nat
  <1>1. VarintEnd(bytes) \in 0..Len(bytes) /\ Len(bytes) \in Nat
    BY EndIs
  <1>2. VarintEnd(bytes) \in Nat
    BY <1>1
  <1>3. MaxPrefix \in Nat
    BY Constants
  <1> QED BY <1>2, <1>3 DEF SizeLength

\* The messages get a prefix: none is empty.
LEMMA MessagesAre ==
    /\ Messages \subseteq Sendable
    /\ \A m \in Messages : m \in Seq(Byte) /\ Len(m) \in Nat /\ Len(m) >= 1
  <1> SUFFICES ASSUME NEW m \in Messages
               PROVE  m \in Sendable /\ m \in Seq(Byte) /\ Len(m) \in Nat /\ Len(m) >= 1
    OBVIOUS
  <1>1. m \in Seq(Byte) /\ Len(m) \in Sizes /\ m # <<>>
    BY FramingAssumption, ProtocolAssumption
  <1>2. Len(m) \in Nat /\ Len(m) >= 1
    BY <1>1
  <1> QED BY <1>1, <1>2 DEF Sendable, Framed

LEMMA SentAre ==
    ASSUME TypeOK
    PROVE  sent \in Seq(Sendable) /\ Len(sent) \in Nat
  BY MessagesAre, SeqMonotonic DEF TypeOK

Tasks == [kind : {"data", "close", "error"}, bytes : 0..BufferSize]

\* What comes of a read.
Answer(task) == task.kind \in {"data", "error"}

NoAnswer(q) == \A i \in 1..Len(q) : ~Answer(q[i])
OneAnswer(q) == \A i, k \in 1..Len(q) : Answer(q[i]) /\ Answer(q[k]) => i = k
DataFits(q, n) == \A i \in 1..Len(q) : q[i].kind = "data" => q[i].bytes \in 1..n

LEMMA Posted ==
    ASSUME NEW q \in Seq(Tasks), NEW t \in Tasks
    PROVE  /\ Append(q, t) \in Seq(Tasks) /\ Len(Append(q, t)) = Len(q) + 1
           /\ \A i \in 1..Len(q) : Append(q, t)[i] = q[i]
           /\ Append(q, t)[Len(q) + 1] = t
           /\ NoAnswer(q) => OneAnswer(Append(q, t))
           /\ NoAnswer(q) /\ ~Answer(t) => NoAnswer(Append(q, t))
           /\ OneAnswer(q) /\ ~Answer(t) => OneAnswer(Append(q, t))
           /\ \A n \in Nat : DataFits(q, n) /\ (t.kind = "data" => t.bytes \in 1..n) =>
                                 DataFits(Append(q, t), n)
  <1> DEFINE p == Append(q, t)
  <1>1. /\ p \in Seq(Tasks) /\ Len(p) = Len(q) + 1 /\ Len(q) \in Nat
        /\ \A i \in 1..Len(q) : p[i] = q[i]
        /\ p[Len(q) + 1] = t
    BY AppendProperties
  <1> HIDE DEF p
  <1>2. \A i \in 1..Len(p) : i \in 1..Len(q) \/ i = Len(q) + 1
    BY <1>1
  <1>3. NoAnswer(q) => OneAnswer(p)
    BY <1>1, <1>2 DEF NoAnswer, OneAnswer
  <1>4. NoAnswer(q) /\ ~Answer(t) => NoAnswer(p)
    BY <1>1, <1>2 DEF NoAnswer
  <1>5. OneAnswer(q) /\ ~Answer(t) => OneAnswer(p)
    BY <1>1, <1>2 DEF OneAnswer
  <1>6. ASSUME NEW n \in Nat, DataFits(q, n), t.kind = "data" => t.bytes \in 1..n
        PROVE  DataFits(p, n)
    BY <1>1, <1>2, <1>6 DEF DataFits
  <1> QED BY <1>1, <1>3, <1>4, <1>5, <1>6 DEF p

LEMMA Taken ==
    ASSUME NEW q \in Seq(Tasks), q # <<>>
    PROVE  /\ Tail(q) \in Seq(Tasks) /\ Head(q) \in Tasks /\ Len(Tail(q)) = Len(q) - 1
           /\ Head(q) = q[1] /\ 1 \in 1..Len(q)
           /\ \A i \in 1..Len(Tail(q)) : Tail(q)[i] = q[i + 1] /\ i + 1 \in 1..Len(q)
           /\ OneAnswer(q) => OneAnswer(Tail(q))
           /\ OneAnswer(q) /\ Answer(Head(q)) => NoAnswer(Tail(q))
           /\ NoAnswer(q) => NoAnswer(Tail(q))
           /\ \A n \in Nat : DataFits(q, n) => DataFits(Tail(q), n)
  <1> DEFINE p == Tail(q)
  <1>1. /\ p \in Seq(Tasks) /\ Head(q) \in Tasks /\ Len(p) = Len(q) - 1
        /\ Head(q) = q[1] /\ 1 \in 1..Len(q)
        /\ \A i \in 1..Len(p) : p[i] = q[i + 1] /\ i + 1 \in 1..Len(q)
    BY HeadTailProperties
  <1> HIDE DEF p
  <1>2. OneAnswer(q) => OneAnswer(p)
    BY <1>1 DEF OneAnswer
  <1>3. OneAnswer(q) /\ Answer(Head(q)) => NoAnswer(p)
    BY <1>1 DEF OneAnswer, NoAnswer
  <1>4. NoAnswer(q) => NoAnswer(p)
    BY <1>1 DEF NoAnswer
  <1>5. ASSUME NEW n \in Nat, DataFits(q, n)
        PROVE  DataFits(p, n)
    BY <1>1, <1>5 DEF DataFits
  <1> QED BY <1>1, <1>2, <1>3, <1>4, <1>5 DEF p

\* One read at most is under way or has been answered, and none while on_data runs.
OneRead ==
    /\ phase = "reading" => buff = <<>>
    /\ pending => phase = "reading" /\ NoAnswer(strand)
    /\ phase = "cutting" => NoAnswer(strand)
    /\ OneAnswer(strand)
    /\ DataFits(strand, Len(wire))

Core ==
    /\ TypeOK
    /\ strand \in Seq(Tasks) /\ pending \in BOOLEAN /\ active \in BOOLEAN /\ gone \in BOOLEAN
    /\ OneRead

LEMMA CoreInit == ProtocolInit => Core
  <1> SUFFICES ASSUME ProtocolInit PROVE Core
    OBVIOUS
  <1>1. TypeOK
    <2>1. sent = <<>> /\ wire = <<>> /\ unpacked = <<>> /\ delivered = <<>> /\ phase = "reading"
      BY DEF ProtocolInit, Init
    <2>2. corrupt \in BOOLEAN /\ failed \in BOOLEAN
      BY Zenon DEF ProtocolInit, Init
    <2>3. sent \in Seq(Messages) /\ Len(sent) = 0
      BY <2>1
    <2>4. wire \in Seq(Byte) /\ unpacked \in Seq(Byte) /\ delivered \in Seq(Seq(Byte))
      BY <2>1
    <2> QED BY <2>1, <2>2, <2>3, <2>4, FramingAssumption DEF TypeOK
  <1>2. strand = <<>> /\ phase = "reading" /\ buff = <<>>
    BY DEF ProtocolInit, Init, StreamInit
  <1>3. pending \in BOOLEAN /\ active \in BOOLEAN /\ gone \in BOOLEAN
    BY Zenon DEF ProtocolInit
  <1>4. strand \in Seq(Tasks) /\ Len(strand) = 0
    BY <1>2
  <1>5. OneRead
    <2>1. 1..Len(strand) = {}
      BY <1>4
    <2> QED BY <1>2, <2>1 DEF OneRead, NoAnswer, OneAnswer, DataFits
  <1> QED BY <1>1, <1>3, <1>4, <1>5 DEF Core

\* What CutMessage does, whatever the bytes are.
LEMMA CutTyped ==
    ASSUME TypeOK, CutMessage
    PROVE  TypeOK'
  <1>1. unpacked \in Seq(Byte) /\ SizeLength(unpacked) >= MinPrefix /\ delivered \in Seq(Seq(Byte))
    BY DEF TypeOK, CutMessage, HasPrefix
  <1>2. PICK size \in Unpacked(unpacked) :
              /\ IsComplete(size)
              /\ delivered' = Append(delivered, SubSeq(unpacked, SizeLength(unpacked) + 1,
                                                       SizeLength(unpacked) + size))
              /\ unpacked' = SubSeq(unpacked, Erased(size) + 1, Len(unpacked))
    BY DEF CutMessage
  <1> DEFINE from == SizeLength(unpacked)
             m == SubSeq(unpacked, from + 1, from + size)
  <1>3. size \in Nat /\ from \in Nat
    <2>1. size \in Sizes
      BY <1>1, <1>2, UnpackedTyped
    <2>2. size \in Nat
      BY <2>1 DEF Sizes
    <2> QED BY <1>1, <2>2, LengthTyped
  <1>4. Len(unpacked) >= from + size /\ Len(unpacked) \in Nat
    BY <1>1, <1>2, <1>3 DEF IsComplete
  <1> HIDE DEF from
  <1>5. m \in Seq(Byte)
    <2>1. \A i \in (from + 1)..(from + size) : unpacked[i] \in Byte
      BY <1>1, <1>3, <1>4, ElementOfSeq
    <2> QED BY <1>3, <2>1, SubSeqProperties
  <1>6. unpacked' \in Seq(Byte)
    <2> DEFINE n == from + size
    <2>1. n \in 0..Len(unpacked) /\ unpacked' = SubSeq(unpacked, n + 1, Len(unpacked))
      BY <1>2, <1>3, <1>4 DEF Erased, from
    <2> HIDE DEF n
    <2> QED BY <1>1, <2>1, Split
  <1> HIDE DEF m
  <1>7. delivered' = Append(delivered, m)
    BY <1>2 DEF m, from
  <1>8. delivered' \in Seq(Seq(Byte))
    BY <1>1, <1>5, <1>7, AppendProperties
  <1>9. UNCHANGED <<sent, corrupt, wire, phase, failed>>
    BY DEF CutMessage
  <1> QED BY <1>6, <1>8, <1>9 DEF TypeOK

LEMMA TasksAre ==
    /\ CloseImpl \in Tasks /\ ReadError \in Tasks
    /\ ~Answer(CloseImpl) /\ Answer(ReadError) /\ CloseImpl.kind # "data" /\ ReadError.kind # "data"
    /\ \A n \in 0..BufferSize : Data(n) \in Tasks /\ Data(n).kind = "data" /\ Data(n).bytes = n
  <1>1. 0 \in 0..BufferSize
    BY FramingAssumption
  <1> QED BY <1>1 DEF CloseImpl, ReadError, Data, Tasks, Answer

LEMMA MinTwo ==
    ASSUME NEW a \in Nat, NEW b \in Nat
    PROVE  Min({a, b}) = IF a <= b THEN a ELSE b
  <1> DEFINE T == {a, b}
  <1>1. T \in SUBSET Nat /\ a \in T /\ b \in T
    OBVIOUS
  <1>2. \A x \in T : x = a \/ x = b
    OBVIOUS
  <1> HIDE DEF T
  <1>3. Min(T) \in T /\ Min(T) <= a /\ Min(T) <= b
    BY <1>1, MinIs
  <1>4. Min(T) = a \/ Min(T) = b
    BY <1>2, <1>3
  <1>5. Min(T) = IF a <= b THEN a ELSE b
    BY <1>3, <1>4
  <1> QED BY <1>5 DEF T

\* How much a completed read may bring.
LEMMA ReadBrings ==
    ASSUME TypeOK, NEW n \in 1..Min({Len(wire), BufferSize})
    PROVE  n \in 1..Len(wire) /\ n \in 0..BufferSize
  <1>1. Len(wire) \in Nat /\ BufferSize \in Nat
    BY FramingAssumption DEF TypeOK
  <1>2. Min({Len(wire), BufferSize}) = IF Len(wire) <= BufferSize THEN Len(wire) ELSE BufferSize
    BY <1>1, MinTwo
  <1> QED BY <1>1, <1>2

\* What ReadHandler does to the wire.
LEMMA HandlerIs ==
    ASSUME Core, ReadHandler
    PROVE  LET n == Head(strand).bytes IN
           /\ strand # <<>> /\ Head(strand).kind = "data" /\ strand' = Tail(strand)
           /\ n \in 1..Len(wire) /\ Len(wire) \in Nat
           /\ SubSeq(wire, 1, n) \in Seq(Byte) /\ SubSeq(wire, 1, n) # <<>>
           /\ SubSeq(wire, n + 1, Len(wire)) \in Seq(Byte)
           /\ SubSeq(wire, 1, n) \o SubSeq(wire, n + 1, Len(wire)) = wire
           /\ unpacked' = unpacked \o SubSeq(wire, 1, n)
           /\ wire' = SubSeq(wire, n + 1, Len(wire))
           /\ buff' = SubSeq(wire, 1, n)
           /\ phase = "reading" /\ phase' = "cutting"
           /\ UNCHANGED <<sent, corrupt, delivered, failed, tmp, cursor, streams>>
           /\ UNCHANGED <<pending, active, gone, ready>>
  <1> DEFINE n == Head(strand).bytes
  <1>1. /\ strand # <<>> /\ Head(strand).kind = "data" /\ strand' = Tail(strand)
        /\ unpacked' = unpacked \o SubSeq(wire, 1, n)
        /\ wire' = SubSeq(wire, n + 1, Len(wire))
        /\ buff' = SubSeq(wire, 1, n)
        /\ phase = "reading" /\ phase' = "cutting"
        /\ UNCHANGED <<sent, corrupt, delivered, failed, tmp, cursor, streams>>
        /\ UNCHANGED <<pending, active, gone, ready>>
    BY DEF ReadHandler, Runs, OnDataOf, Insert, Feed
  <1>2. strand \in Seq(Tasks) /\ DataFits(strand, Len(wire)) /\ wire \in Seq(Byte)
    BY DEF Core, OneRead, TypeOK
  <1>3. Head(strand) = strand[1] /\ 1 \in 1..Len(strand)
    BY <1>1, <1>2, Taken
  <1>4. n \in 1..Len(wire) /\ Len(wire) \in Nat
    BY <1>1, <1>2, <1>3 DEF DataFits
  <1> HIDE DEF n
  <1>5. n \in 0..Len(wire)
    BY <1>4
  <1>6. /\ SubSeq(wire, 1, n) \in Seq(Byte) /\ Len(SubSeq(wire, 1, n)) = n
        /\ SubSeq(wire, n + 1, Len(wire)) \in Seq(Byte)
        /\ SubSeq(wire, 1, n) \o SubSeq(wire, n + 1, Len(wire)) = wire
    BY <1>2, <1>5, Split
  <1>7. SubSeq(wire, 1, n) # <<>>
    BY <1>4, <1>6
  <1> QED BY <1>1, <1>4, <1>6, <1>7 DEF n

\* What the peer puts on the wire stays at its end.
LEMMA Longer ==
    ASSUME NEW q, NEW w \in Seq(Byte), NEW f \in Seq(Byte), DataFits(q, Len(w))
    PROVE  w \o f \in Seq(Byte) /\ DataFits(q, Len(w \o f))
  <1>1. w \o f \in Seq(Byte) /\ Len(w \o f) = Len(w) + Len(f) /\ Len(w) \in Nat /\ Len(f) \in Nat
    BY ConcatProperties
  <1> QED BY <1>1 DEF DataFits

LEMMA CoreSends ==
    ASSUME Core, NEW m \in Messages, PeerSends(m)
    PROVE  Core'
  <1>1. /\ Len(sent) < MaxSent /\ sent' = Append(sent, m) /\ wire' = wire \o Frame(m)
        /\ UNCHANGED <<corrupt, unpacked, phase, delivered, failed>>
        /\ UNCHANGED <<buff, strand, pending, active, gone>>
    BY DEF PeerSends, Send, streamVars, protocolVars
  <1>2. Frame(m) \in Seq(Byte) /\ wire \in Seq(Byte) /\ DataFits(strand, Len(wire))
    BY MessagesAre, FrameIs DEF Core, TypeOK, OneRead
  <1>3. wire' \in Seq(Byte) /\ DataFits(strand, Len(wire'))
    BY <1>1, <1>2, Longer
  <1>4. sent' \in Seq(Messages) /\ Len(sent') <= MaxSent
    <2>1. sent \in Seq(Messages) /\ MaxSent \in Nat
      BY FramingAssumption DEF Core, TypeOK
    <2>2. sent' \in Seq(Messages) /\ Len(sent') = Len(sent) + 1 /\ Len(sent) \in Nat
      BY <1>1, <2>1, AppendProperties
    <2> QED BY <1>1, <2>1, <2>2
  <1>5. TypeOK'
    BY <1>1, <1>3, <1>4 DEF Core, TypeOK
  <1>6. OneRead'
    BY <1>1, <1>3 DEF Core, OneRead, NoAnswer, OneAnswer, DataFits
  <1> QED BY <1>1, <1>5, <1>6 DEF Core

LEMMA CoreGarbage ==
    ASSUME Core, PeerSendsGarbage
    PROVE  Core'
  <1>1. /\ corrupt' = TRUE /\ wire' = wire \o Garbage
        /\ UNCHANGED <<sent, unpacked, phase, delivered, failed>>
        /\ UNCHANGED <<buff, strand, pending, active, gone>>
    BY DEF PeerSendsGarbage, SendGarbage, streamVars, protocolVars
  <1>2. Garbage \in Seq(Byte) /\ wire \in Seq(Byte) /\ DataFits(strand, Len(wire))
    BY FramingAssumption DEF Core, TypeOK, OneRead
  <1>3. wire' \in Seq(Byte) /\ DataFits(strand, Len(wire'))
    BY <1>1, <1>2, Longer
  <1>4. corrupt' \in BOOLEAN
    BY <1>1
  <1>5. TypeOK'
    BY <1>1, <1>3, <1>4 DEF Core, TypeOK
  <1>6. OneRead'
    BY <1>1, <1>3 DEF Core, OneRead, NoAnswer, OneAnswer, DataFits
  <1> QED BY <1>1, <1>5, <1>6 DEF Core

LEMMA CoreHandler ==
    ASSUME Core, ReadHandler
    PROVE  Core'
  <1> DEFINE n == Head(strand).bytes
             p == SubSeq(wire, 1, n)
             w == SubSeq(wire, n + 1, Len(wire))
  <1>1. /\ strand # <<>> /\ Head(strand).kind = "data" /\ strand' = Tail(strand)
        /\ p \in Seq(Byte) /\ w \in Seq(Byte)
        /\ unpacked' = unpacked \o p /\ wire' = w
        /\ phase' = "cutting"
        /\ UNCHANGED <<sent, corrupt, delivered, failed>>
        /\ UNCHANGED <<pending, active, gone>> /\ phase = "reading"
    BY HandlerIs
  <1> HIDE DEF p, w
  <1>2. unpacked \in Seq(Byte) /\ strand \in Seq(Tasks) /\ OneAnswer(strand)
        /\ (pending => NoAnswer(strand))
    BY DEF Core, TypeOK, OneRead
  <1>3. unpacked' \in Seq(Byte)
    BY <1>1, <1>2, ConcatProperties
  <1>4. TypeOK'
    BY <1>1, <1>3 DEF Core, TypeOK
  <1>5. Answer(Head(strand)) /\ Head(strand) = strand[1] /\ 1 \in 1..Len(strand)
    BY <1>1, <1>2, Taken DEF Answer
  <1>6. ~pending
    BY <1>2, <1>5 DEF NoAnswer
  <1>7. strand' \in Seq(Tasks) /\ NoAnswer(strand')
    BY <1>1, <1>2, <1>5, Taken
  <1>8. OneRead'
    BY <1>1, <1>6, <1>7 DEF OneRead, OneAnswer, NoAnswer, DataFits, Answer
  <1> QED BY <1>1, <1>4, <1>7, <1>8 DEF Core

LEMMA CoreNext ==
    ASSUME Core, [ProtocolNext]_allVars
    PROVE  Core'
  <1>0. /\ TypeOK /\ strand \in Seq(Tasks) /\ OneRead
        /\ pending \in BOOLEAN /\ active \in BOOLEAN /\ gone \in BOOLEAN
        /\ wire \in Seq(Byte) /\ Len(wire) \in Nat
    BY DEF Core, TypeOK
  <1>1. ASSUME NEW m \in Messages, PeerSends(m) PROVE Core'
    BY <1>1, CoreSends
  <1>2. CASE PeerSendsGarbage
    BY <1>2, CoreGarbage
  <1>3. CASE PeerCloses
    <2>1. UNCHANGED <<sent, corrupt, wire, unpacked, phase, delivered, failed, buff, strand, pending, active>>
          /\ gone' = TRUE
      BY <1>3 DEF PeerCloses, vars, streamVars
    <2>2. gone' \in BOOLEAN
      BY <2>1
    <2> QED BY <2>1, <2>2 DEF Core, TypeOK, OneRead, NoAnswer, OneAnswer, DataFits
  <1>4. CASE ReadCompletes
    <2>1. PICK n \in 1..Min({Len(wire), BufferSize}) : strand' = Append(strand, Data(n))
      BY <1>4 DEF ReadCompletes, Post
    <2>2. n \in 1..Len(wire) /\ n \in 0..BufferSize
      BY <1>0, ReadBrings
    <2>3. /\ pending /\ pending' = FALSE
          /\ UNCHANGED <<sent, corrupt, wire, unpacked, phase, delivered, failed, buff, active, gone>>
      BY <1>4 DEF ReadCompletes, vars, streamVars
    <2>4. NoAnswer(strand) /\ phase = "reading" /\ buff = <<>> /\ DataFits(strand, Len(wire))
      BY <1>0, <2>3 DEF OneRead
    <2>5. Data(n) \in Tasks /\ Data(n).kind = "data" /\ Data(n).bytes = n
      BY <2>2, TasksAre
    <2>6. strand' \in Seq(Tasks) /\ OneAnswer(strand') /\ DataFits(strand', Len(wire))
      BY <1>0, <2>1, <2>2, <2>4, <2>5, Posted
    <2>7. OneRead'
      BY <2>3, <2>4, <2>6 DEF OneRead, OneAnswer, DataFits
    <2> QED BY <1>0, <2>3, <2>6, <2>7 DEF Core, TypeOK
  <1>5. CASE ReadFails
    <2>1. strand' = Append(strand, ReadError)
      BY <1>5 DEF ReadFails, Post
    <2>3. /\ pending /\ pending' = FALSE
          /\ UNCHANGED <<sent, corrupt, wire, unpacked, phase, delivered, failed, buff, active, gone>>
      BY <1>5 DEF ReadFails, vars, streamVars
    <2>4. NoAnswer(strand) /\ phase = "reading" /\ buff = <<>> /\ DataFits(strand, Len(wire))
      BY <1>0, <2>3 DEF OneRead
    <2>6. strand' \in Seq(Tasks) /\ OneAnswer(strand') /\ DataFits(strand', Len(wire))
      BY <1>0, <2>1, <2>4, TasksAre, Posted
    <2>7. OneRead'
      BY <2>3, <2>4, <2>6 DEF OneRead, OneAnswer, DataFits
    <2> QED BY <1>0, <2>3, <2>6, <2>7 DEF Core, TypeOK
  <1>6. CASE ReadHandler
    BY <1>6, CoreHandler
  <1>7. CASE StreamLoop
    <2>1. phase = "cutting"
          /\ UNCHANGED <<sent, corrupt, wire, unpacked, phase, delivered, failed, strand, pending, active, gone>>
      BY <1>7 DEF StreamLoop, vars, protocolVars
    <2> QED BY <1>0, <2>1 DEF Core, TypeOK, OneRead, NoAnswer, OneAnswer, DataFits
  <1>8. CASE OnMessage
    <2>1. TypeOK'
      BY <1>0, <1>8, CutTyped DEF OnMessage
    <2>2. /\ phase = "cutting"
          /\ UNCHANGED <<wire, phase, buff, pending, active, gone>>
          /\ strand' = Append(strand, CloseImpl) \/ strand' = strand
      BY <1>8 DEF OnMessage, CutMessage, Close, Post, streamVars
    <2>3. ~pending /\ NoAnswer(strand) /\ OneAnswer(strand) /\ DataFits(strand, Len(wire))
      BY <1>0, <2>2 DEF OneRead
    <2>4. strand' \in Seq(Tasks) /\ NoAnswer(strand') /\ OneAnswer(strand') /\ DataFits(strand', Len(wire))
      <3>1. CASE strand' = Append(strand, CloseImpl)
        BY <1>0, <2>3, <3>1, TasksAre, Posted
      <3>2. CASE strand' = strand
        BY ONLY <1>0, <2>3, <3>2
      <3> QED BY <2>2, <3>1, <3>2
    <2>5. OneRead'
      BY <2>2, <2>3, <2>4 DEF OneRead, NoAnswer, OneAnswer, DataFits
    <2> QED BY <1>0, <2>1, <2>2, <2>4, <2>5 DEF Core
  <1>9. CASE OnNeedRead
    <2>1. /\ buff = <<>> /\ phase = "cutting" /\ phase' = "reading" /\ pending' = TRUE
          /\ UNCHANGED <<sent, corrupt, wire, unpacked, delivered, failed, buff, strand, active, gone>>
      BY <1>9 DEF OnNeedRead, NeedRead, Read, streamVars
    <2>2. pending' \in BOOLEAN /\ phase' \in {"reading", "cutting"}
      BY <2>1
    <2>3. NoAnswer(strand)
      BY <1>0, <2>1 DEF OneRead
    <2>4. OneRead'
      BY <1>0, <2>1, <2>3 DEF OneRead, NoAnswer, OneAnswer, DataFits
    <2> QED BY <1>0, <2>1, <2>2, <2>4 DEF Core, TypeOK
  <1>10. CASE OnError
    <2>1. /\ buff = <<>> /\ phase = "cutting" /\ phase' = "reading" /\ pending' = TRUE /\ failed' = TRUE
          /\ UNCHANGED <<sent, corrupt, wire, unpacked, delivered, buff, active, gone>>
          /\ strand' = Append(strand, CloseImpl)
      BY <1>10 DEF OnError, RefusePrefix, Read, Close, Post, streamVars
    <2>2. pending' \in BOOLEAN /\ phase' \in {"reading", "cutting"} /\ failed' \in BOOLEAN
      BY <2>1
    <2>3. NoAnswer(strand) /\ OneAnswer(strand) /\ DataFits(strand, Len(wire))
      BY <1>0, <2>1 DEF OneRead
    <2>4. strand' \in Seq(Tasks) /\ NoAnswer(strand') /\ OneAnswer(strand') /\ DataFits(strand', Len(wire))
      BY <1>0, <2>1, <2>3, TasksAre, Posted
    <2>5. OneRead'
      BY <2>1, <2>4 DEF OneRead, NoAnswer, OneAnswer, DataFits
    <2> QED BY <1>0, <2>1, <2>2, <2>4, <2>5 DEF Core, TypeOK
  <1>11. CASE OnReadError
    <2>1. /\ phase = "reading" /\ strand # <<>> /\ Head(strand).kind = "error"
          /\ strand' = Append(Tail(strand), CloseImpl)
          /\ UNCHANGED <<sent, corrupt, wire, unpacked, phase, delivered, failed, buff, pending, active, gone>>
      BY <1>11 DEF OnReadError, Runs, vars, streamVars
    <2>2. OneAnswer(strand) /\ DataFits(strand, Len(wire)) /\ buff = <<>> /\ (pending => NoAnswer(strand))
      BY <1>0, <2>1 DEF OneRead
    <2>3. Answer(Head(strand)) /\ Head(strand) = strand[1] /\ 1 \in 1..Len(strand)
      BY <1>0, <2>1, Taken DEF Answer
    <2>4. ~pending
      BY <2>2, <2>3 DEF NoAnswer
    <2>5. Tail(strand) \in Seq(Tasks) /\ NoAnswer(Tail(strand)) /\ OneAnswer(Tail(strand))
          /\ DataFits(Tail(strand), Len(wire))
      BY <1>0, <2>1, <2>2, <2>3, Taken
    <2>6. strand' \in Seq(Tasks) /\ NoAnswer(strand') /\ OneAnswer(strand') /\ DataFits(strand', Len(wire))
      BY <1>0, <2>1, <2>5, TasksAre, Posted
    <2>7. OneRead'
      BY <2>1, <2>2, <2>4, <2>6 DEF OneRead, NoAnswer, OneAnswer, DataFits
    <2> QED BY <1>0, <2>1, <2>6, <2>7 DEF Core, TypeOK
  <1>12. CASE CloseTask
    <2>1. /\ phase = "reading" /\ strand # <<>> /\ strand' = Tail(strand) /\ active' = FALSE
          /\ UNCHANGED <<sent, corrupt, wire, unpacked, phase, delivered, failed, buff, pending, gone>>
      BY <1>12 DEF CloseTask, Runs, SocketAfterClose, vars, streamVars
    <2>2. OneAnswer(strand) /\ DataFits(strand, Len(wire)) /\ buff = <<>> /\ (pending => NoAnswer(strand))
      BY <1>0, <2>1 DEF OneRead
    <2>3. strand' \in Seq(Tasks) /\ OneAnswer(strand') /\ (NoAnswer(strand) => NoAnswer(strand'))
          /\ DataFits(strand', Len(wire))
      BY <1>0, <2>1, <2>2, Taken
    <2>4. active' \in BOOLEAN
      BY <2>1
    <2>5. OneRead'
      BY <2>1, <2>2, <2>3 DEF OneRead, NoAnswer, OneAnswer, DataFits
    <2> QED BY <1>0, <2>1, <2>3, <2>4, <2>5 DEF Core, TypeOK
  <1>13. CASE UNCHANGED allVars
    <2>1. UNCHANGED <<sent, corrupt, wire, unpacked, phase, delivered, failed, buff, strand, pending, active, gone>>
      BY <1>13 DEF allVars, vars, streamVars, protocolVars
    <2> QED BY <1>0, <2>1 DEF Core, TypeOK, OneRead, NoAnswer, OneAnswer, DataFits
  <1> QED BY <1>1, <1>2, <1>3, <1>4, <1>5, <1>6, <1>7, <1>8, <1>9, <1>10, <1>11, <1>12, <1>13
          DEF ProtocolNext, Work

----------------------------------------------------------------------------
(* The message delegate.                                                     *)

Trail == IF corrupt THEN Garbage ELSE <<>>

\* What is in the buffer and on the way are the frames of the messages not yet cut
\* off, in order, and the garbage behind them.
OnLine ==
    /\ Len(delivered) <= Len(sent)
    /\ delivered = SubSeq(sent, 1, Len(delivered))
    /\ unpacked \o wire = After(sent, Len(delivered)) \o Trail

\* Once the garbage is looked at, anything may be taken for a message.
Beyond ==
    /\ corrupt
    /\ Len(sent) <= Len(delivered)
    /\ sent = SubSeq(delivered, 1, Len(sent))

Line ==
    /\ OnLine \/ Beyond
    /\ failed => corrupt
    /\ WaitsOnlyForBytes

LEMMA TrailIs == Trail \in Seq(Byte) /\ (~corrupt => Trail = <<>>)
  BY FramingAssumption DEF Trail

\* The frame in front, when there is one.
LEMMA Front1 ==
    ASSUME TypeOK, OnLine, Len(delivered) < Len(sent)
    PROVE  LET d == Len(delivered)
               m == sent[d + 1]
           IN  /\ d \in Nat /\ d + 1 \in 1..Len(sent) /\ m \in Sendable /\ m \in Messages
               /\ After(sent, d + 1) \o Trail \in Seq(Byte)
               /\ unpacked \o wire = Frame(m) \o (After(sent, d + 1) \o Trail)
  <1> DEFINE d == Len(delivered)
             m == sent[d + 1]
             r == After(sent, d + 1)
             f == Frame(m)
             t == Trail
  <1>1. sent \in Seq(Sendable) /\ Len(sent) \in Nat /\ d \in Nat /\ d < Len(sent) /\ sent \in Seq(Messages)
    BY SentAre DEF TypeOK
  <1>2. d \in 0..Len(sent) /\ d + 1 \in 1..Len(sent) /\ d + 1 \in 0..Len(sent)
    BY <1>1
  <1>3. m \in Sendable /\ After(sent, d) = f \o r /\ m \in Messages
    BY <1>1, <1>2, AfterNext, ElementOfSeq
  <1>4. f \in Seq(Byte) /\ r \in Seq(Byte) /\ t \in Seq(Byte)
    BY <1>1, <1>2, <1>3, AfterTyped, FrameIs, TrailIs
  <1>5. unpacked \o wire = After(sent, d) \o t
    BY DEF OnLine
  <1> HIDE DEF f, r, t, m
  <1>6. (f \o r) \o t = f \o (r \o t)
    BY ONLY <1>4, Assoc, Zenon
  <1>7. r \o t \in Seq(Byte)
    BY ONLY <1>4, Joined, Zenon
  <1>8. unpacked \o wire = f \o (r \o t)
    BY ONLY <1>3, <1>5, <1>6
  <1> QED BY <1>1, <1>2, <1>3, <1>7, <1>8 DEF f, r, t, m, d

\* All is cut off, and nothing else was sent.
LEMMA NothingInFront ==
    ASSUME TypeOK, OnLine, ~corrupt, Len(delivered) = Len(sent)
    PROVE  unpacked = <<>> /\ wire = <<>>
  <1>1. sent \in Seq(Sendable) /\ unpacked \in Seq(Byte) /\ wire \in Seq(Byte)
    BY SentAre DEF TypeOK
  <1>2. After(sent, Len(sent)) = <<>> /\ Trail = <<>>
    BY <1>1, AfterAll, TrailIs
  <1>3. unpacked \o wire = <<>> \o <<>>
    BY <1>2 DEF OnLine
  <1>4. <<>> \o <<>> = <<>>
    OBVIOUS
  <1>5. unpacked \o wire = <<>>
    BY ONLY <1>3, <1>4
  <1> QED BY <1>1, <1>5, ConcatEqualIffEmpty

LEMMA LineInit == ProtocolInit => Line
  <1> SUFFICES ASSUME ProtocolInit PROVE Line
    OBVIOUS
  <1>1. sent = <<>> /\ delivered = <<>> /\ unpacked = <<>> /\ wire = <<>> /\ corrupt = FALSE /\ failed = FALSE
    BY DEF ProtocolInit, Init
  <1>2. sent \in Seq(Sendable) /\ Len(sent) = 0 /\ Len(delivered) = 0
    BY <1>1
  <1>3. After(sent, 0) = <<>>
    BY <1>2, AfterAll
  <1>4. <<>> \o <<>> = <<>> /\ SubSeq(sent, 1, 0) = <<>>
    BY <1>1
  <1>5. Trail = <<>>
    BY <1>1 DEF Trail
  <1>6. OnLine
    BY <1>1, <1>2, <1>3, <1>4, <1>5 DEF OnLine
  <1>7. WaitsOnlyForBytes
    BY <1>2 DEF WaitsOnlyForBytes
  <1> QED BY <1>1, <1>6, <1>7 DEF Line

\* OnLine and Beyond for steps that leave the wire and the messages alone.
LEMMA LineKept ==
    ASSUME Line, UNCHANGED <<sent, corrupt, delivered>>, unpacked' \o wire' = unpacked \o wire
    PROVE  OnLine' \/ Beyond'
  BY DEF Line, OnLine, Beyond, Trail, After

LEMMA LineSends ==
    ASSUME Core, Line, NEW m \in Messages, PeerSends(m)
    PROVE  Line'
  <1>1. /\ ~corrupt /\ sent' = Append(sent, m) /\ wire' = wire \o Frame(m)
        /\ UNCHANGED <<corrupt, unpacked, phase, delivered, failed>>
    BY DEF PeerSends, Send
  <1>2. TypeOK /\ sent \in Seq(Sendable) /\ Len(sent) \in Nat /\ m \in Sendable /\ Len(delivered) \in Nat
        /\ unpacked \in Seq(Byte) /\ wire \in Seq(Byte) /\ Frame(m) \in Seq(Byte)
    BY SentAre, MessagesAre, FrameIs DEF Core, TypeOK
  <1>3. OnLine /\ Trail = <<>> /\ Trail' = <<>>
    BY <1>1 DEF Line, Beyond, Trail
  <1> DEFINE d == Len(delivered)
  <1>4. /\ Append(sent, m) \in Seq(Sendable) /\ Len(Append(sent, m)) = Len(sent) + 1
        /\ \A i \in 1..Len(sent) : Append(sent, m)[i] = sent[i]
        /\ Append(sent, m)[Len(sent) + 1] = m
    BY <1>2, AppendProperties
  <1>5. d \in 0..Len(sent) /\ delivered = SubSeq(sent, 1, d)
    BY <1>2, <1>3 DEF OnLine
  <1>6. SubSeq(Append(sent, m), 1, d) = SubSeq(sent, 1, d)
    <2> DEFINE a == SubSeq(Append(sent, m), 1, d)
               b == SubSeq(sent, 1, d)
    <2>1. \A i \in 1..d : Append(sent, m)[i] \in Sendable /\ sent[i] \in Sendable /\ Append(sent, m)[i] = sent[i]
      BY <1>2, <1>4, <1>5, ElementOfSeq
    <2>2. a \in Seq(Sendable) /\ Len(a) = d /\ \A i \in 1..d : a[i] = Append(sent, m)[i]
      BY <1>5, <2>1, SubSeqProperties
    <2>3. b \in Seq(Sendable) /\ Len(b) = d /\ \A i \in 1..d : b[i] = sent[i]
      BY <1>5, <2>1, SubSeqProperties
    <2> HIDE DEF a, b
    <2>4. a = b
      BY <2>1, <2>2, <2>3, SeqEqual
    <2> QED BY <2>4 DEF a, b
  <1>7. unpacked \o (wire \o Frame(m)) = After(Append(sent, m), d)
    <2> DEFINE f == Frame(m)
               r == After(sent, d)
    <2>1. r \in Seq(Byte) /\ f \in Seq(Byte) /\ unpacked \in Seq(Byte) /\ wire \in Seq(Byte)
      BY <1>2, <1>5, AfterTyped
    <2>2. After(Append(sent, m), d) = r \o f
      BY <1>2, <1>5, AfterAppend
    <2>3. unpacked \o wire = r \o <<>>
      BY <1>3 DEF OnLine
    <2> HIDE DEF f, r
    <2>4. r \o <<>> = r
      BY ONLY <2>1, ConcatEmptySeq
    <2>5. (unpacked \o wire) \o f = unpacked \o (wire \o f)
      BY ONLY <2>1, Assoc, Zenon
    <2>6. unpacked \o (wire \o f) = r \o f
      BY ONLY <2>3, <2>4, <2>5
    <2> QED BY ONLY <2>2, <2>6 DEF f
  <1>8. After(Append(sent, m), d) \o <<>> = After(Append(sent, m), d)
    <2> DEFINE r == After(Append(sent, m), d)
    <2>1. d \in 0..Len(Append(sent, m))
      BY <1>2, <1>4, <1>5
    <2>2. r \in Seq(Byte)
      BY <1>4, <2>1, AfterTyped
    <2> HIDE DEF r
    <2>3. r \o <<>> = r
      BY <2>2, ConcatEmptySeq
    <2> QED BY <2>3 DEF r
  <1>9. OnLine'
    <2>1. Len(delivered)' = d /\ d <= Len(sent')
      BY <1>1, <1>2, <1>4, <1>5
    <2>2. delivered' = SubSeq(sent', 1, d)
      BY <1>1, <1>5, <1>6
    <2>3. (unpacked \o wire)' = (After(sent, Len(delivered)) \o Trail)'
      <3>1. (unpacked \o wire)' = unpacked \o (wire \o Frame(m))
        BY <1>1
      <3>2. After(sent, Len(delivered))' = After(Append(sent, m), d)
        BY <1>1 DEF After
      <3> QED BY ONLY <1>3, <1>7, <1>8, <3>1, <3>2
    <2> QED BY <1>1, <2>1, <2>2, <2>3 DEF OnLine
  <1>10. WaitsOnlyForBytes'
    <2> SUFFICES ASSUME phase = "reading", d < Len(sent')
                 PROVE  \/ Len(sent'[d + 1]) > MaxLength
                        \/ Len(unpacked) < Len(Frame(sent'[d + 1]))
      BY <1>1 DEF WaitsOnlyForBytes
    <2>1. CASE d < Len(sent)
      <3>1. d + 1 \in 1..Len(sent)
        BY <1>5, <2>1
      <3>2. sent'[d + 1] = sent[d + 1]
        BY <1>1, <1>4, <3>1
      <3>3. Len(sent[d + 1]) > MaxLength \/ Len(unpacked) < Len(Frame(sent[d + 1]))
        BY <1>1, <2>1 DEF Line, WaitsOnlyForBytes
      <3> QED BY <3>2, <3>3
    <2>2. CASE d = Len(sent)
      <3>1. unpacked = <<>> /\ Len(unpacked) = 0
        BY <1>1, <1>2, <1>3, <2>2, NothingInFront
      <3>2. sent'[d + 1] = m
        BY <1>1, <1>4, <2>2
      <3>3. Len(Frame(m)) > 0
        BY <1>2, FrameIs
      <3> QED BY <3>1, <3>2, <3>3
    <2> QED BY <1>2, <1>5, <2>1, <2>2
  <1>11. failed' => corrupt'
    BY <1>1 DEF Line
  <1> QED BY <1>9, <1>10, <1>11 DEF Line

LEMMA LineGarbage ==
    ASSUME Core, Line, PeerSendsGarbage
    PROVE  Line'
  <1>1. /\ ~corrupt /\ corrupt' = TRUE /\ wire' = wire \o Garbage
        /\ UNCHANGED <<sent, unpacked, phase, delivered, failed>>
    BY DEF PeerSendsGarbage, SendGarbage
  <1>2. TypeOK /\ sent \in Seq(Sendable) /\ Len(sent) \in Nat /\ Len(delivered) \in Nat
        /\ unpacked \in Seq(Byte) /\ wire \in Seq(Byte) /\ Garbage \in Seq(Byte)
    BY SentAre, FramingAssumption DEF Core, TypeOK
  <1>3. OnLine /\ Trail = <<>> /\ Trail' = Garbage
    BY <1>1 DEF Line, Beyond, Trail
  <1> DEFINE r == After(sent, Len(delivered))
  <1>4. r \in Seq(Byte)
    <2>1. Len(delivered) \in 0..Len(sent)
      BY <1>2, <1>3 DEF OnLine
    <2> QED BY <1>2, <2>1, AfterTyped
  <1>5. unpacked \o wire = r \o <<>>
    BY <1>3 DEF OnLine
  <1>6. r' = r
    BY <1>1 DEF After
  <1> HIDE DEF r
  <1>7. r \o <<>> = r
    BY <1>4, ConcatEmptySeq
  <1>8. (unpacked \o wire) \o Garbage = unpacked \o (wire \o Garbage)
    BY ONLY <1>2, Assoc, Zenon
  <1>9. unpacked \o (wire \o Garbage) = r \o Garbage
    BY ONLY <1>5, <1>7, <1>8
  <1>10. (unpacked \o wire)' = unpacked \o (wire \o Garbage)
    BY <1>1
  <1>11. OnLine'
    BY <1>1, <1>3, <1>6, <1>9, <1>10 DEF OnLine, r
  <1>12. WaitsOnlyForBytes'
    BY <1>1 DEF WaitsOnlyForBytes
  <1> QED BY <1>1, <1>11, <1>12 DEF Line

LEMMA LineHandler ==
    ASSUME Core, Line, ReadHandler
    PROVE  Line'
  <1> DEFINE n == Head(strand).bytes
             p == SubSeq(wire, 1, n)
             w == SubSeq(wire, n + 1, Len(wire))
  <1>1. /\ p \in Seq(Byte) /\ w \in Seq(Byte) /\ p \o w = wire
        /\ unpacked' = unpacked \o p /\ wire' = w
        /\ phase' = "cutting"
        /\ UNCHANGED <<sent, corrupt, delivered, failed>>
    BY HandlerIs
  <1> HIDE DEF p, w
  <1>2. unpacked \in Seq(Byte)
    BY DEF Core, TypeOK
  <1>3. unpacked' \o wire' = unpacked \o wire
    <2>1. p \in Seq(Byte) /\ w \in Seq(Byte)
      BY <1>1
    <2>2. (unpacked \o p) \o w = unpacked \o (p \o w)
      BY ONLY <1>2, <2>1, Assoc, Zenon
    <2> QED BY ONLY <1>1, <2>2
  <1>4. OnLine' \/ Beyond'
    BY <1>1, <1>3, LineKept
  <1>5. WaitsOnlyForBytes'
    BY <1>1 DEF WaitsOnlyForBytes
  <1> QED BY <1>1, <1>4, <1>5 DEF Line

LEMMA LineCut ==
    ASSUME Core, Line, CutMessage
    PROVE  Line'
  <1>1. /\ unpacked \in Seq(Byte) /\ wire \in Seq(Byte) /\ delivered \in Seq(Seq(Byte))
        /\ SizeLength(unpacked) >= MinPrefix /\ SizeLength(unpacked) \in Nat
        /\ phase = "cutting" /\ UNCHANGED <<sent, corrupt, wire, phase, failed>>
        /\ TypeOK /\ sent \in Seq(Sendable) /\ Len(sent) \in Nat /\ Len(delivered) \in Nat
    BY SentAre, LengthTyped DEF Core, TypeOK, CutMessage, HasPrefix
  <1>2. PICK size \in Unpacked(unpacked) :
              /\ IsComplete(size)
              /\ delivered' = Append(delivered, SubSeq(unpacked, SizeLength(unpacked) + 1,
                                                       SizeLength(unpacked) + size))
              /\ unpacked' = SubSeq(unpacked, Erased(size) + 1, Len(unpacked))
    BY DEF CutMessage
  <1> DEFINE cut == SubSeq(unpacked, SizeLength(unpacked) + 1, SizeLength(unpacked) + size)
             d == Len(delivered)
  <1>3. /\ delivered' \in Seq(Seq(Byte)) /\ Len(delivered') = d + 1
        /\ delivered' = Append(delivered, cut)
        /\ \A i \in 1..d : delivered'[i] = delivered[i]
        /\ delivered'[d + 1] = cut
    <2>1. delivered' \in Seq(Seq(Byte))
      BY <1>1, CutTyped DEF TypeOK
    <2>2. cut \in Seq(Byte)
      <3>1. \A i \in 1..Len(delivered') : delivered'[i] \in Seq(Byte)
        BY <2>1, ElementOfSeq
      <3>2. delivered' = Append(delivered, cut)
        BY <1>2
      <3> HIDE DEF cut
      <3>3. Len(delivered') = d + 1 /\ delivered'[d + 1] = cut /\ d + 1 \in 1..Len(delivered')
        BY <1>1, <3>2
      <3> QED BY <2>1, <3>1, <3>3
    <2>3. delivered' = Append(delivered, cut)
      BY <1>2
    <2> HIDE DEF cut
    <2>4. /\ Len(Append(delivered, cut)) = d + 1
          /\ \A i \in 1..d : Append(delivered, cut)[i] = delivered[i]
          /\ Append(delivered, cut)[d + 1] = cut
      BY <1>1, <2>2, AppendProperties
    <2> QED BY ONLY <2>1, <2>3, <2>4
  <1> HIDE DEF cut
  <1>4. CASE OnLine /\ d < Len(sent)
    <2> DEFINE m == sent[d + 1]
               r == After(sent, d + 1) \o Trail
               p == Len(PrefixOf(Len(m)))
    <2>1. d \in Nat /\ d + 1 \in 1..Len(sent) /\ m \in Sendable /\ r \in Seq(Byte) /\ unpacked \o wire = Frame(m) \o r
      BY <1>1, <1>4, Front1
    <2> HIDE DEF m, r
    <2>2a. Seen(m, unpacked, wire, r)
      BY <1>1, <2>1, FrameCut
    <2>2. /\ p \in Nat \ {0} /\ Len(Frame(m)) = p + Len(m)
          /\ Len(unpacked) < p <=> SizeLength(unpacked) < MinPrefix
          /\ Len(unpacked) >= p => SizeLength(unpacked) = p /\ Unpacked(unpacked) = {Len(m)}
          /\ Len(unpacked) >= Len(Frame(m)) =>
                 /\ SubSeq(unpacked, p + 1, p + Len(m)) = m
                 /\ SubSeq(unpacked, p + Len(m) + 1, Len(unpacked)) \o wire = r
      BY ONLY <2>2a, Zenon DEF Seen
    <2> HIDE DEF p
    <2>3. Len(m) \in Nat /\ Len(unpacked) \in Nat /\ MinPrefix \in Nat
      BY <1>1, <2>1, FrameIs, Constants
    <2>4. SizeLength(unpacked) = p /\ size = Len(m)
      BY <1>1, <1>2, <2>2, <2>3
    <2>5. Len(unpacked) >= Len(Frame(m))
      BY <1>2, <2>2, <2>3, <2>4 DEF IsComplete
    <2>6. cut = m /\ unpacked' \o wire = r
      BY <1>2, <2>2, <2>4, <2>5 DEF Erased, cut
    <2>7. OnLine'
      <3>1. (unpacked \o wire)' = r /\ r = After(sent, d + 1) \o Trail
        BY <1>1, <2>6 DEF r
      <3>2. (After(sent, Len(delivered)) \o Trail)' = After(sent, d + 1) \o Trail
        BY <1>1, <1>3 DEF After, Trail
      <3>3. Len(delivered') <= Len(sent')
        BY <1>1, <1>3, <2>1
      <3>4. delivered' = SubSeq(sent', 1, Len(delivered'))
        <4> DEFINE a == SubSeq(sent, 1, d + 1)
                   b == SubSeq(sent, 1, d)
        <4>1. \A i \in 1..(d + 1) : sent[i] \in Sendable
          BY <1>1, <2>1, ElementOfSeq
        <4>2. \A x \in Sendable : x \in Seq(Byte)
          BY DEF Sendable
        <4>3. /\ a \in Seq(Sendable) /\ Len(a) = d + 1 /\ \A i \in 1..(d + 1) : a[i] = sent[i]
              /\ \A i \in 1..d : b[i] = sent[i]
          BY <2>1, <4>1, SubSeqProperties
        <4>4. delivered = b
          BY <1>4 DEF OnLine
        <4> HIDE DEF a, b
        <4>5. a \in Seq(Seq(Byte))
          BY <4>2, <4>3, SeqMonotonic
        <4>6. \A i \in 1..(d + 1) : i \in 1..d \/ i = d + 1
          BY <2>1
        <4>7. \A i \in 1..(d + 1) : delivered'[i] = a[i]
          <5>1. ASSUME NEW i \in 1..d PROVE delivered'[i] = a[i]
            <6>1. i \in 1..(d + 1) /\ delivered'[i] = delivered[i]
              BY <1>3, <2>1
            <6> QED BY ONLY <4>3, <4>4, <6>1, <5>1
          <5>2. delivered'[d + 1] = a[d + 1]
            <6>1. d + 1 \in 1..(d + 1) /\ delivered'[d + 1] = cut /\ cut = m /\ a[d + 1] = sent[d + 1]
              BY <1>3, <2>1, <2>6, <4>3
            <6> QED BY <6>1 DEF m
          <5> QED BY <4>6, <5>1, <5>2
        <4>8. delivered' = a
          BY <1>3, <2>1, <4>3, <4>5, <4>7, SeqEqual
        <4> QED BY <1>1, <1>3, <4>8 DEF a
      <3> QED BY <3>1, <3>2, <3>3, <3>4 DEF OnLine
    <2>8. WaitsOnlyForBytes'
      BY <1>1 DEF WaitsOnlyForBytes
    <2> QED BY <1>1, <2>7, <2>8 DEF Line
  <1>5. CASE OnLine /\ d = Len(sent) /\ ~corrupt
    <2>1. unpacked = <<>>
      BY <1>1, <1>5, NothingInFront
    <2> QED BY <2>1 DEF CutMessage, HasPrefix
  <1>6. CASE Beyond
    <2>0. corrupt /\ Len(sent) <= d /\ sent = SubSeq(delivered, 1, Len(sent))
      BY <1>6 DEF Beyond
    <2> DEFINE n == Len(sent)
               a == SubSeq(delivered', 1, n)
               b == SubSeq(delivered, 1, n)
    <2>1. \A i \in 1..n : delivered'[i] \in Seq(Byte) /\ delivered[i] \in Seq(Byte) /\ delivered'[i] = delivered[i]
      BY <1>1, <1>3, <2>0, ElementOfSeq
    <2>2. a \in Seq(Seq(Byte)) /\ Len(a) = n /\ \A i \in 1..n : a[i] = delivered'[i]
      BY <1>1, <2>1, SubSeqProperties
    <2>3. b \in Seq(Seq(Byte)) /\ Len(b) = n /\ \A i \in 1..n : b[i] = delivered[i]
      BY <1>1, <2>1, SubSeqProperties
    <2> HIDE DEF a, b
    <2>4. a = b
      BY <2>1, <2>2, <2>3, SeqEqual
    <2>5. sent' = SubSeq(delivered', 1, Len(sent'))
      BY <1>1, <2>0, <2>4 DEF a, b
    <2>6. Len(sent') <= Len(delivered')
      BY <1>1, <1>3, <2>0
    <2>7. Beyond'
      BY <1>1, <2>0, <2>5, <2>6 DEF Beyond
    <2>8. WaitsOnlyForBytes'
      BY <1>1 DEF WaitsOnlyForBytes
    <2> QED BY <1>1, <2>7, <2>8 DEF Line
  <1>7. OnLine /\ d = Len(sent) /\ corrupt => Beyond
    <2>1. OnLine /\ d = Len(sent) => delivered = SubSeq(sent, 1, Len(sent)) /\ SubSeq(sent, 1, Len(sent)) = sent
      BY <1>1, SubSeqFull DEF OnLine
    <2>2. SubSeq(delivered, 1, Len(delivered)) = delivered
      BY <1>1, SubSeqFull
    <2> QED BY <1>1, <2>1, <2>2 DEF Beyond
  <1>8. OnLine => d < Len(sent) \/ d = Len(sent)
    BY <1>1 DEF OnLine
  <1>9. OnLine \/ Beyond
    BY DEF Line
  <1> QED BY <1>4, <1>5, <1>6, <1>7, <1>8, <1>9

LEMMA LineNeed ==
    ASSUME Core, Line, NeedRead
    PROVE  Line'
  <1>1. /\ phase = "cutting" /\ phase' = "reading"
        /\ UNCHANGED <<sent, corrupt, wire, unpacked, delivered, failed>>
        /\ TypeOK /\ unpacked \in Seq(Byte) /\ wire \in Seq(Byte) /\ Len(delivered) \in Nat
    BY DEF NeedRead, Core, TypeOK
  <1>2. OnLine' \/ Beyond'
    BY <1>1, LineKept
  <1> DEFINE d == Len(delivered)
  <1>3. WaitsOnlyForBytes'
    <2> SUFFICES ASSUME ~corrupt, d < Len(sent)
                 PROVE  Len(sent[d + 1]) > MaxLength \/ Len(unpacked) < Len(Frame(sent[d + 1]))
      BY <1>1 DEF WaitsOnlyForBytes
    <2> DEFINE m == sent[d + 1]
               r == After(sent, d + 1) \o Trail
               p == Len(PrefixOf(Len(m)))
    <2>1. OnLine
      BY DEF Line, Beyond
    <2>2. m \in Sendable /\ r \in Seq(Byte) /\ unpacked \o wire = Frame(m) \o r
      BY <1>1, <2>1, Front1
    <2> HIDE DEF m, r
    <2>3. /\ p \in Nat \ {0} /\ p <= MaxPrefix /\ Len(Frame(m)) = p + Len(m)
          /\ Len(unpacked) < p <=> SizeLength(unpacked) < MinPrefix
          /\ Len(unpacked) >= p => SizeLength(unpacked) = p /\ Unpacked(unpacked) = {Len(m)}
      <3>1. Seen(m, unpacked, wire, r)
        BY <1>1, <2>2, FrameCut
      <3> QED BY ONLY <3>1, Zenon DEF Seen
    <2> HIDE DEF p
    <2>4. Len(m) \in Nat /\ Len(unpacked) \in Nat /\ MinPrefix \in Nat /\ MaxPrefix \in Nat /\ MaxLength \in Nat
          /\ SizeLength(unpacked) \in Nat
      BY <1>1, <2>2, FrameIs, Constants, FramingAssumption, LengthTyped
    <2>5. CASE Len(unpacked) < p
      BY <2>3, <2>4, <2>5 DEF m
    <2>6. CASE Len(unpacked) >= p
      <3>1. SizeLength(unpacked) = p /\ Unpacked(unpacked) = {Len(m)} /\ ~(SizeLength(unpacked) < MinPrefix)
        BY <2>3, <2>4, <2>6
      <3>2. unpacked # <<>>
        <4>1. Len(unpacked) # 0
          BY <2>3, <2>4, <2>6
        <4> QED BY <4>1
      <3>3. ~PrefixTooLong /\ HasPrefix
        BY <2>4, <3>1, <3>2 DEF PrefixTooLong, HasPrefix
      <3>4. ~ValidLength(Len(m)) \/ ~IsComplete(Len(m))
        BY <1>1, <3>1, <3>2, <3>3 DEF NeedRead
      <3>5. Len(m) > MaxLength \/ Len(unpacked) < Len(m) + p
        BY <2>3, <2>4, <3>1, <3>4 DEF ValidLength, IsComplete
      <3> QED BY <2>3, <2>4, <3>5 DEF m
    <2> QED BY <2>3, <2>4, <2>5, <2>6
  <1> QED BY <1>1, <1>2, <1>3 DEF Line

LEMMA LineRefuse ==
    ASSUME Core, Line, RefusePrefix
    PROVE  Line'
  <1>1. /\ PrefixTooLong /\ UNCHANGED <<sent, corrupt, wire, unpacked, delivered>>
        /\ TypeOK /\ unpacked \in Seq(Byte) /\ wire \in Seq(Byte) /\ Len(delivered) \in Nat
        /\ Len(sent) \in Nat
    BY SentAre DEF RefusePrefix, Core, TypeOK
  <1>2. OnLine' \/ Beyond'
    BY <1>1, LineKept
  <1> DEFINE d == Len(delivered)
  <1>3. corrupt
    <2> SUFFICES ASSUME ~corrupt PROVE FALSE
      OBVIOUS
    <2>1. OnLine
      BY DEF Line, Beyond
    <2>2. CASE d < Len(sent)
      <3> DEFINE m == sent[d + 1]
                 r == After(sent, d + 1) \o Trail
                 p == Len(PrefixOf(Len(m)))
      <3>1. m \in Sendable /\ r \in Seq(Byte) /\ unpacked \o wire = Frame(m) \o r
        BY <1>1, <2>1, <2>2, Front1
      <3> HIDE DEF m, r
      <3>2. /\ p \in Nat \ {0} /\ p <= MaxPrefix
            /\ Len(unpacked) < p <=> SizeLength(unpacked) < MinPrefix
        <4>1. Seen(m, unpacked, wire, r)
          BY <1>1, <3>1, FrameCut
        <4> QED BY ONLY <4>1, Zenon DEF Seen
      <3> HIDE DEF p
      <3>3. Len(unpacked) \in Nat /\ MaxPrefix \in Nat
        BY <1>1, Constants
      <3> QED BY <1>1, <3>2, <3>3 DEF PrefixTooLong
    <2>3. CASE d = Len(sent)
      <3>1. Len(unpacked) = 0 /\ MaxPrefix \in Nat
        BY <1>1, <2>1, <2>3, NothingInFront, Constants
      <3> QED BY <1>1, <3>1 DEF PrefixTooLong
    <2> QED BY <1>1, <2>1, <2>2, <2>3 DEF OnLine
  <1>4. WaitsOnlyForBytes'
    BY <1>1, <1>3 DEF WaitsOnlyForBytes
  <1> QED BY <1>1, <1>2, <1>3, <1>4 DEF Line

LEMMA LineNext ==
    ASSUME Core, Line, [ProtocolNext]_allVars
    PROVE  Line'
  <1>1. CASE \E m \in Messages : PeerSends(m)
    BY <1>1, LineSends
  <1>2. CASE PeerSendsGarbage
    BY <1>2, LineGarbage
  <1>3. CASE ReadHandler
    BY <1>3, LineHandler
  <1>4. CASE OnMessage
    BY <1>4, LineCut DEF OnMessage
  <1>5. CASE OnNeedRead
    BY <1>5, LineNeed DEF OnNeedRead
  <1>6. CASE OnError
    BY <1>6, LineRefuse DEF OnError
  <1>7. CASE UNCHANGED vars
    <2>1. UNCHANGED <<sent, corrupt, wire, unpacked, phase, delivered, failed>>
      BY <1>7 DEF vars
    <2>2. OnLine' \/ Beyond'
      BY <2>1, LineKept
    <2>3. WaitsOnlyForBytes'
      BY <2>1 DEF Line, WaitsOnlyForBytes
    <2> QED BY <2>1, <2>2, <2>3 DEF Line
  <1>8. PeerCloses \/ ReadCompletes \/ ReadFails \/ StreamLoop \/ OnReadError \/ CloseTask
        \/ UNCHANGED allVars => UNCHANGED vars
    BY DEF PeerCloses, ReadCompletes, ReadFails, StreamLoop, OnReadError, CloseTask, allVars
  <1> QED BY <1>1, <1>2, <1>3, <1>4, <1>5, <1>6, <1>7, <1>8 DEF ProtocolNext, Work

LEMMA OnLineCuts ==
    ASSUME Core, Line
    PROVE  CutWhereJoined
  <1>1. /\ TypeOK /\ sent \in Seq(Sendable) /\ Len(sent) \in Nat /\ Len(delivered) \in Nat
        /\ delivered \in Seq(Seq(Byte))
        /\ unpacked \in Seq(Byte) /\ wire \in Seq(Byte)
    BY SentAre DEF Core, TypeOK
  <1> DEFINE d == Len(delivered)
  <1>2. OnLine => IsPrefix(delivered, sent)
    <2> SUFFICES ASSUME OnLine PROVE IsPrefix(delivered, sent)
      OBVIOUS
    <2>1. SubSeq(delivered, 1, d) = delivered
      BY <1>1, SubSeqFull
    <2> QED BY <2>1 DEF OnLine, IsPrefix
  <1>3. Beyond => corrupt /\ IsPrefix(sent, delivered)
    <2> SUFFICES ASSUME Beyond PROVE corrupt /\ IsPrefix(sent, delivered)
      OBVIOUS
    <2>1. SubSeq(sent, 1, Len(sent)) = sent
      BY <1>1, SubSeqFull
    <2> QED BY <2>1 DEF Beyond, IsPrefix
  <1>4. DeliveredAsSent
    BY <1>2, <1>3, Zenon DEF DeliveredAsSent, Line
  <1>5. EveryByteInPlace
    <2> SUFFICES ASSUME ~corrupt PROVE Frames(delivered) \o unpacked \o wire = Frames(sent)
      BY DEF EveryByteInPlace
    <2>1. OnLine /\ Trail = <<>>
      BY TrailIs DEF Line, Beyond
    <2> DEFINE a == Frames(delivered)
               r == After(sent, d)
    <2>2. d \in 0..Len(sent) /\ delivered = SubSeq(sent, 1, d)
      BY <1>1, <2>1 DEF OnLine
    <2>3. delivered \in Seq(Sendable) /\ r \in Seq(Byte)
      BY <1>1, <2>2, AfterTyped
    <2>4. a \in Seq(Byte)
      BY <2>3, FramesTyped
    <2>5. Frames(sent) = Frames(SubSeq(sent, 1, d)) \o r
      BY <1>1, <2>2, AfterBefore
    <2>6. Frames(sent) = a \o r
      BY ONLY <2>2, <2>5
    <2>7. unpacked \o wire = r \o <<>>
      BY <2>1 DEF OnLine
    <2> HIDE DEF a, r
    <2>8. r \o <<>> = r
      BY <2>3, ConcatEmptySeq
    <2>9. (a \o unpacked) \o wire = a \o (unpacked \o wire)
      BY ONLY <1>1, <2>4, Assoc, Zenon
    <2>10. (a \o unpacked) \o wire = Frames(sent)
      BY ONLY <2>6, <2>7, <2>8, <2>9
    <2> QED BY ONLY <2>10 DEF a
  <1> QED BY <1>4, <1>5 DEF CutWhereJoined, Line

\* The frames are cut where the peer put them together, whatever the pieces they
\* arrive in: delegates::message::on_data neither loses nor repeats a byte, gives
\* on_message the messages sent, in order, and waits only for bytes it needs.
THEOREM FramesAreCutWhereJoined == ProtocolSpec => []CutWhereJoined
  <1>1. ProtocolInit => Core /\ Line
    BY CoreInit, LineInit
  <1>2. Core /\ Line /\ [ProtocolNext]_allVars => Core' /\ Line'
    BY CoreNext, LineNext
  <1>3. Core /\ Line => CutWhereJoined
    BY OnLineCuts
  <1> QED BY <1>1, <1>2, <1>3, PTL DEF ProtocolSpec

----------------------------------------------------------------------------
(* The stream delegate: types.                                               *)

Begun == [part : Seq(Byte), ended : BOOLEAN]

\* What tmp_ holds is no whole prefix, and a stream that is not at its end has begun.
StreamCore ==
    /\ StreamTypeOK
    /\ SizeLength(tmp) < MinPrefix
    /\ cursor > 0 => streams # <<>>

LEMMA NoBytes == SizeLength(<<>>) < MinPrefix
  <1>1. <<>> \in Seq(Byte) /\ Len(<<>>) = 0
    OBVIOUS
  <1>2. VarintEnd(<<>>) = 0
    <2>1. \A i \in 1..Len(<<>>) : ~(<<>>[i] < Base)
      BY <1>1
    <2> QED BY <1>1, <2>1, NoEnd
  <1>3. MaxPrefix \in Nat /\ MaxPrefix >= 1 /\ MinPrefix \in 1..MaxPrefix
    BY Constants
  <1>4. SizeLength(<<>>) = 0
    BY <1>1, <1>2, <1>3 DEF SizeLength
  <1> QED BY <1>3, <1>4

LEMMA StreamTypes ==
    ASSUME StreamCore
    PROVE  /\ buff \in Seq(Byte) /\ Len(buff) \in Nat
           /\ tmp \in Seq(Byte) /\ Len(tmp) \in Nat /\ Len(tmp) <= MaxPrefix
           /\ cursor \in Sizes /\ cursor \in Nat
           /\ streams \in Seq(Begun) /\ Len(streams) \in Nat
           /\ MaxPrefix \in Nat /\ MinPrefix \in Nat
  <1>1. cursor \in Sizes => cursor \in Nat
    BY DEF Sizes
  <1> QED BY <1>1, Constants DEF StreamCore, StreamTypeOK, Begun

LEMMA UpdateIs ==
    ASSUME StreamCore, UpdateCursor
    PROVE  LET n == Part
               j == Len(streams)
           IN  /\ cursor > 0 /\ buff # <<>> /\ j \in Nat /\ j >= 1
               /\ n \in 0..Len(buff) /\ n <= cursor
               /\ n = IF cursor <= Len(buff) THEN cursor ELSE Len(buff)
               /\ streams' \in Seq(Begun) /\ Len(streams') = j
               /\ \A i \in 1..j : i # j => streams'[i] = streams[i]
               /\ streams'[j] = [part |-> streams[j].part \o SubSeq(buff, 1, n),
                                 ended |-> cursor <= Len(buff)]
               /\ buff' = SubSeq(buff, n + 1, Len(buff))
               /\ cursor' = cursor - n /\ tmp' = tmp
  <1> DEFINE n == Part
             j == Len(streams)
             new == [part |-> streams[j].part \o SubSeq(buff, 1, n), ended |-> cursor <= Len(buff)]
  <1>1. /\ buff \in Seq(Byte) /\ Len(buff) \in Nat /\ cursor \in Nat /\ cursor > 0 /\ buff # <<>>
        /\ streams \in Seq(Begun) /\ j \in Nat
    BY StreamTypes DEF UpdateCursor
  <1>2. j >= 1 /\ j \in 1..Len(streams)
    <2>1. streams # <<>>
      BY <1>1 DEF StreamCore
    <2> QED BY <1>1, <2>1
  <1>3. n = IF cursor <= Len(buff) THEN cursor ELSE Len(buff)
    BY <1>1, MinTwo DEF Part
  <1>4. n \in 0..Len(buff) /\ n <= cursor
    BY <1>1, <1>3
  <1>5. streams' = [streams EXCEPT ![j] = new]
    BY DEF UpdateCursor, Ends
  <1>6. buff' = SubSeq(buff, n + 1, Len(buff)) /\ cursor' = cursor - n /\ tmp' = tmp
    BY DEF UpdateCursor, Drop
  <1>7. new \in Begun
    <2>1. SubSeq(buff, 1, n) \in Seq(Byte)
      <3> HIDE DEF n
      <3> QED BY <1>1, <1>4, Split
    <2>2. streams[j] \in Begun
      BY <1>1, <1>2, ElementOfSeq
    <2>3. streams[j].part \in Seq(Byte)
      BY <2>2 DEF Begun
    <2>4. streams[j].part \o SubSeq(buff, 1, n) \in Seq(Byte)
      BY <2>1, <2>3, ConcatProperties
    <2>5. (cursor <= Len(buff)) \in BOOLEAN
      OBVIOUS
    <2> QED BY <2>4, <2>5 DEF Begun
  <1> HIDE DEF new, j
  <1>8. /\ streams' \in Seq(Begun) /\ Len(streams') = j
        /\ \A i \in 1..j : streams'[i] = IF i = j THEN new ELSE streams[i]
    BY <1>1, <1>2, <1>5, <1>7, ExceptSeq DEF j
  <1>9. streams'[j] = new /\ \A i \in 1..j : i # j => streams'[i] = streams[i]
    BY <1>2, <1>8 DEF j
  <1> QED BY <1>1, <1>2, <1>3, <1>4, <1>6, <1>8, <1>9 DEF new, j

LEMMA PrefixIs ==
    ASSUME StreamCore
    PROVE  LET k == Len(Looked) IN
           /\ Looked \in Seq(Byte) /\ k \in 0..Len(buff)
           /\ k = IF Len(buff) <= MaxPrefix + 1 THEN Len(buff) ELSE MaxPrefix + 1
           /\ Looked = SubSeq(buff, 1, k)
           /\ Prefix \in Seq(Byte) /\ Len(Prefix) = Len(tmp) + k
           /\ SizeLength(Prefix) \in Nat
           /\ SizeLength(Prefix) >= MinPrefix => SizeLength(Prefix) > Len(tmp)
  <1> DEFINE k == Min({Len(buff), MaxPrefix + 1})
  <1>1. /\ buff \in Seq(Byte) /\ Len(buff) \in Nat /\ tmp \in Seq(Byte) /\ Len(tmp) \in Nat
        /\ MaxPrefix \in Nat /\ MaxPrefix + 1 \in Nat /\ MinPrefix \in Nat
    BY StreamTypes
  <1>2. k = IF Len(buff) <= MaxPrefix + 1 THEN Len(buff) ELSE MaxPrefix + 1
    BY <1>1, MinTwo
  <1>3. k \in 0..Len(buff)
    BY <1>1, <1>2
  <1>4. Looked = SubSeq(buff, 1, k)
    BY DEF Looked
  <1> HIDE DEF k
  <1>5. Looked \in Seq(Byte) /\ Len(Looked) = k
    BY <1>1, <1>3, <1>4, Split
  <1>6. Prefix \in Seq(Byte) /\ Len(Prefix) = Len(tmp) + k
    BY <1>1, <1>5, ConcatProperties DEF Prefix
  <1>7. SizeLength(Prefix) \in Nat
    BY <1>6, LengthTyped
  <1>8. SizeLength(Prefix) >= MinPrefix => SizeLength(Prefix) > Len(tmp)
    BY <1>1, <1>5, LongerPrefix DEF Prefix, StreamCore
  <1> QED BY <1>1, <1>2, <1>3, <1>4, <1>5, <1>6, <1>7, <1>8

LEMMA StreamCoreInit == ProtocolInit => StreamCore
  <1> SUFFICES ASSUME ProtocolInit PROVE StreamCore
    OBVIOUS
  <1>1. buff = <<>> /\ tmp = <<>> /\ cursor = 0 /\ streams = <<>>
    BY DEF ProtocolInit, StreamInit
  <1>2. TwoTo[Bits] \in Nat /\ TwoTo[Bits] > 0 /\ MaxPrefix \in Nat
    BY Constants
  <1>3. cursor \in Sizes
    BY <1>1, <1>2 DEF Sizes
  <1>4. Len(tmp) <= MaxPrefix
    BY <1>1, <1>2
  <1> QED BY <1>1, <1>3, <1>4, NoBytes DEF StreamCore, StreamTypeOK

LEMMA StreamCoreStep ==
    ASSUME StreamCore, StreamStep
    PROVE  StreamCore'
  <1>0. /\ buff \in Seq(Byte) /\ Len(buff) \in Nat
        /\ tmp \in Seq(Byte) /\ Len(tmp) \in Nat /\ Len(tmp) <= MaxPrefix
        /\ cursor \in Sizes /\ cursor \in Nat
        /\ streams \in Seq(Begun) /\ Len(streams) \in Nat
        /\ MaxPrefix \in Nat /\ MinPrefix \in Nat
    BY StreamTypes
  <1>1. CASE UpdateCursor
    <2> DEFINE n == Part
    <2>1. /\ n \in 0..Len(buff) /\ n <= cursor /\ buff' = SubSeq(buff, n + 1, Len(buff))
          /\ streams' \in Seq(Begun) /\ Len(streams') >= 1 /\ cursor' = cursor - n /\ tmp' = tmp
      BY <1>1, UpdateIs
    <2> HIDE DEF n
    <2>2. buff' \in Seq(Byte)
      BY <1>0, <2>1, Split
    <2>3. cursor' \in Sizes
      <3>1. TwoTo[Bits] \in Nat
        BY Constants
      <3>2. \A x \in Sizes, y \in Nat : y <= x => x - y \in Sizes
        BY <3>1 DEF Sizes
      <3>3. n \in Nat
        BY <1>0, <2>1
      <3> QED BY <1>0, <2>1, <3>2, <3>3
    <2>4. streams' # <<>>
      BY <2>1
    <2> QED BY <1>0, <2>1, <2>2, <2>3, <2>4 DEF StreamCore, StreamTypeOK, Begun
  <1>2. CASE StartNewStream
    <2>1. SizeLength(Prefix) >= MinPrefix /\ SizeLength(Prefix) \in Nat /\ SizeLength(Prefix) > Len(tmp)
          /\ Prefix \in Seq(Byte)
      BY <1>2, PrefixIs DEF StartNewStream
    <2>2. PICK size \in Unpacked(Prefix) :
            \/ buff' = <<>> /\ UNCHANGED <<tmp, cursor, streams>>
            \/ /\ tmp' = <<>> /\ cursor' = size
               /\ streams' = Append(streams, [part |-> <<>>, ended |-> FALSE])
               /\ buff' = Drop(buff, Used)
      BY <1>2 DEF StartNewStream
    <2>3. CASE buff' = <<>> /\ UNCHANGED <<tmp, cursor, streams>>
      BY <1>0, <2>3 DEF StreamCore, StreamTypeOK
    <2>4. CASE /\ tmp' = <<>> /\ cursor' = size
               /\ streams' = Append(streams, [part |-> <<>>, ended |-> FALSE])
               /\ buff' = Drop(buff, Used)
      <3>1. size \in Sizes
        BY <2>1, UnpackedTyped
      <3>2. [part |-> <<>>, ended |-> FALSE] \in Begun
        BY DEF Begun
      <3>3. streams' \in Seq(Begun) /\ streams' # <<>>
        BY <1>0, <2>4, <3>2, AppendProperties
      <3>4. buff' \in Seq(Byte)
        <4> DEFINE u == Used
        <4>1. u \in Nat /\ buff' = SubSeq(buff, u + 1, Len(buff))
          BY <1>0, <2>1, <2>4 DEF Used, Drop
        <4> HIDE DEF u
        <4>2. \A i \in (u + 1)..Len(buff) : buff[i] \in Byte
          <5>1. \A i \in (u + 1)..Len(buff) : i \in 1..Len(buff)
            BY <1>0, <4>1
          <5> QED BY <1>0, <5>1, ElementOfSeq
        <4>3. u + 1 \in Int /\ Len(buff) \in Int
          BY <1>0, <4>1
        <4> QED BY <4>1, <4>2, <4>3, SubSeqProperties
      <3>5. Len(tmp') <= MaxPrefix /\ tmp' \in Seq(Byte)
        BY <1>0, <2>4
      <3> QED BY <2>4, <3>1, <3>3, <3>4, <3>5, NoBytes DEF StreamCore, StreamTypeOK, Begun
    <2> QED BY <2>2, <2>3, <2>4
  <1>3. CASE KeepPrefix
    <2>1. /\ SizeLength(Prefix) < MinPrefix /\ buff' = <<>> /\ UNCHANGED <<cursor, streams>>
          /\ tmp' = IF Len(Prefix) > MaxPrefix THEN tmp ELSE Prefix
      BY <1>3 DEF KeepPrefix
    <2>2. Prefix \in Seq(Byte) /\ Len(Prefix) \in Nat
      BY PrefixIs
    <2>3. CASE Len(Prefix) > MaxPrefix
      BY <1>0, <2>1, <2>3 DEF StreamCore, StreamTypeOK
    <2>4. CASE ~(Len(Prefix) > MaxPrefix)
      <3>1. tmp' = Prefix /\ Len(Prefix) <= MaxPrefix
        BY <1>0, <2>1, <2>2, <2>4
      <3> QED BY <1>0, <2>1, <2>2, <3>1 DEF StreamCore, StreamTypeOK
    <2> QED BY <2>3, <2>4
  <1> QED BY <1>1, <1>2, <1>3 DEF StreamStep

LEMMA StreamCoreNext ==
    ASSUME Core, StreamCore, [ProtocolNext]_allVars
    PROVE  StreamCore'
  <1>1. CASE UNCHANGED streamVars
    BY <1>1 DEF StreamCore, StreamTypeOK, streamVars
  <1>2. CASE ReadHandler
    <2>1. buff' \in Seq(Byte) /\ UNCHANGED <<tmp, cursor, streams>>
      BY <1>2, HandlerIs
    <2> QED BY <2>1 DEF StreamCore, StreamTypeOK
  <1>3. CASE StreamLoop
    BY <1>3, StreamCoreStep DEF StreamLoop
  <1>4. ProtocolNext \/ UNCHANGED allVars => UNCHANGED streamVars \/ ReadHandler \/ StreamLoop
    BY DEF ProtocolNext, Work, PeerSends, PeerSendsGarbage, PeerCloses, ReadCompletes, ReadFails,
           OnMessage, OnNeedRead, OnError, OnReadError, CloseTask, allVars
  <1> QED BY <1>1, <1>2, <1>3, <1>4

----------------------------------------------------------------------------
(* What is handed on.                                                        *)

Bytes == Seq(Byte)
HandOn(bodies, m) == IF Checked(m) THEN Append(bodies, Body(m)) ELSE bodies

LEMMA HandOnTyped ==
    ASSUME NEW b \in Seq(Bytes), NEW m \in Bytes
    PROVE  /\ Checked(m) => Body(m) \in Bytes
           /\ HandOn(b, m) \in Seq(Bytes)
  <1>1. ASSUME Checked(m) PROVE Body(m) \in Bytes
    <2>1. Len(m) \in Nat /\ Len(m) >= 1 /\ m \in Seq(Byte)
      BY <1>1 DEF Checked, HashSize, Bytes
    <2>2. \A i \in 1..(Len(m) - 1) : m[i] \in Byte
      BY <2>1, ElementOfSeq
    <2>3. SubSeq(m, 1, Len(m) - 1) \in Seq(Byte)
      BY <2>1, <2>2, SubSeqProperties
    <2> QED BY <2>3 DEF Body, Front, Bytes
  <1>2. Checked(m) => Append(b, Body(m)) \in Seq(Bytes)
    <2> SUFFICES ASSUME Checked(m) PROVE Append(b, Body(m)) \in Seq(Bytes)
      OBVIOUS
    <2>1. Body(m) \in Bytes
      BY <1>1
    <2> QED BY <2>1, AppendProperties
  <1> QED BY <1>1, <1>2 DEF HandOn

IsBodies(f, s) ==
    f = [n \in 0..Len(s) |->
           IF n = 0 THEN <<>>
           ELSE IF Checked(s[n]) THEN Append(f[n - 1], Body(s[n])) ELSE f[n - 1]]
BodiesUpto(s) == CHOOSE f : IsBodies(f, s)

LEMMA BodiesIs ==
    ASSUME NEW s \in Seq(Bytes)
    PROVE  /\ \A n \in 0..Len(s) : BodiesUpto(s)[n] \in Seq(Bytes)
           /\ BodiesUpto(s)[0] = <<>>
           /\ \A n \in 1..Len(s) : BodiesUpto(s)[n] = HandOn(BodiesUpto(s)[n - 1], s[n])
           /\ Bodies(s) = BodiesUpto(s)[Len(s)]
  <1> DEFINE L == Len(s)
             S == Seq(Bytes)
             F == [i \in 1..L |-> [v \in S |-> HandOn(v, s[i])]]
             g == BodiesUpto(s)
  <1>0. L \in Nat /\ <<>> \in S
    OBVIOUS
  <1>1. \A i \in 1..L : s[i] \in Bytes
    BY ElementOfSeq
  <1>2. F \in [1..L -> [S -> S]]
    <2>1. \A i \in 1..L, v \in S : HandOn(v, s[i]) \in S
      BY <1>1, HandOnTyped
    <2> HIDE DEF L, S
    <2> QED BY <2>1
  <1>3. \A i \in 1..L, v \in S : F[i][v] = HandOn(v, s[i])
    <2> HIDE DEF L, S
    <2> QED OBVIOUS
  <1>4. PICK f \in [0..L -> S] : Follows(f, <<>>, F, L)
    <2> HIDE DEF F, L, S
    <2> QED BY <1>0, <1>2, Recursion
  <1> HIDE DEF F
  <1>5. f[0] = <<>> /\ \A n \in 1..L : f[n] = HandOn(f[n - 1], s[n])
    <2>1. \A n \in 1..L : n - 1 \in 0..L
      BY <1>0
    <2> HIDE DEF L, S
    <2>2. \A n \in 1..L : f[n - 1] \in S
      BY <2>1
    <2> QED BY <1>3, <1>4, <2>2 DEF Follows
  <1>6. IsBodies(f, s)
    <2> DEFINE e(n) == IF Checked(s[n]) THEN Append(f[n - 1], Body(s[n])) ELSE f[n - 1]
               h == [n \in 0..L |-> IF n = 0 THEN <<>> ELSE e(n)]
    <2>1. ASSUME NEW n \in 0..L PROVE f[n] = h[n]
      <3>1. CASE n = 0
        BY <1>5, <3>1
      <3>2. CASE n # 0
        <4>1. n \in 1..L
          BY <1>0, <3>2
        <4>2. f[n] = HandOn(f[n - 1], s[n])
          BY <1>5, <4>1
        <4>3. f[n] = e(n)
          BY <4>2 DEF HandOn
        <4> HIDE DEF e
        <4> QED BY <3>2, <4>3
      <3> QED BY <3>1, <3>2
    <2>2. f = [n \in 0..L |-> f[n]] /\ h = [n \in 0..L |-> h[n]]
      <3> HIDE DEF L, S, e
      <3> QED OBVIOUS
    <2>3. f = h
      <3> HIDE DEF h, L
      <3> QED BY <2>1, <2>2
    <2> QED BY <2>3 DEF IsBodies
  <1>7. IsBodies(g, s)
    BY <1>6 DEF BodiesUpto
  <1>8. Bodies(s) = g[L]
    BY DEF Bodies, BodiesUpto, IsBodies
  <1> HIDE DEF g
  <1>9. g[0] = <<>> /\ \A n \in 1..L : g[n] = HandOn(g[n - 1], s[n])
    <2>1. 0 \in 0..L /\ \A n \in 1..L : n \in 0..L /\ n # 0
      BY <1>0
    <2> DEFINE e(n) == IF Checked(s[n]) THEN Append(g[n - 1], Body(s[n])) ELSE g[n - 1]
    <2>2. g = [n \in 0..L |-> IF n = 0 THEN <<>> ELSE e(n)]
      BY <1>7 DEF IsBodies
    <2>3. \A n \in 1..L : e(n) = HandOn(g[n - 1], s[n])
      BY DEF HandOn
    <2> HIDE DEF L, e
    <2> QED BY ONLY <2>1, <2>2, <2>3
  <1>10. \A n \in 0..L : g[n] \in S
    <2> DEFINE T == {n \in 0..L : g[n] \in S}
    <2>1. 0 \in T
      <3>1. g[0] = <<>> /\ <<>> \in S /\ 0 \in 0..L
        BY <1>0, <1>9
      <3> HIDE DEF S, L
      <3> QED BY ONLY <3>1
    <2>2. ASSUME NEW k \in 0..L, k \in T, k < L PROVE k + 1 \in T
      <3>1. k + 1 \in 1..L /\ (k + 1) - 1 = k /\ k + 1 \in 0..L /\ g[k] \in S
        BY <1>0, <2>2
      <3>2. g[k + 1] = HandOn(g[k], s[k + 1])
        BY <1>9, <3>1
      <3>3. HandOn(g[k], s[k + 1]) \in S
        BY <1>1, <3>1, HandOnTyped
      <3> QED BY <3>1, <3>2, <3>3
    <2>3. 0..L \subseteq T
      <3> HIDE DEF T, L
      <3> QED BY <1>0, <2>1, <2>2, Climb
    <2> QED BY <2>3
  <1> QED BY <1>8, <1>9, <1>10 DEF g

LEMMA BodiesAppend ==
    ASSUME NEW s \in Seq(Bytes), NEW m \in Bytes
    PROVE  /\ Bodies(Append(s, m)) = HandOn(Bodies(s), m)
           /\ Bodies(s) \in Seq(Bytes) /\ Bodies(<<>>) = <<>>
  <1> DEFINE L == Len(s)
             t == Append(s, m)
             f == BodiesUpto(s)
             g == BodiesUpto(t)
             T == {n \in 0..L : f[n] = g[n]}
  <1>0. /\ L \in Nat /\ t \in Seq(Bytes) /\ Len(t) = L + 1 /\ t[L + 1] = m
        /\ \A n \in 1..L : t[n] = s[n]
    BY AppendProperties
  <1> HIDE DEF t
  <1>1. 0 \in T
    <2>1. f[0] = <<>> /\ g[0] = <<>>
      BY <1>0, BodiesIs
    <2>2. 0 \in 0..L
      BY <1>0
    <2> QED BY <2>1, <2>2
  <1>2. ASSUME NEW k \in 0..L, k \in T, k < L PROVE k + 1 \in T
    <2>1. k + 1 \in 1..L /\ k + 1 \in 1..Len(t) /\ (k + 1) - 1 = k /\ k + 1 \in 0..L
      BY <1>0, <1>2
    <2>2. f[k + 1] = HandOn(f[k], s[k + 1])
      BY <2>1, BodiesIs
    <2>3. g[k + 1] = HandOn(g[k], t[k + 1])
      BY <1>0, <2>1, BodiesIs
    <2>4. t[k + 1] = s[k + 1] /\ f[k] = g[k]
      BY <1>0, <1>2, <2>1
    <2> QED BY <2>1, <2>2, <2>3, <2>4
  <1>3. 0..L \subseteq T
    <2> HIDE DEF T, L
    <2> QED BY <1>0, <1>1, <1>2, Climb
  <1>4. f[L] = g[L]
    BY <1>0, <1>3
  <1>5. L + 1 \in 1..Len(t) /\ (L + 1) - 1 = L
    BY <1>0
  <1>6. g[L + 1] = HandOn(g[L], m)
    BY <1>0, <1>5, BodiesIs
  <1>7. Bodies(s) = f[L] /\ Bodies(t) = g[L + 1]
    BY <1>0, BodiesIs
  <1>8. Bodies(s) \in Seq(Bytes)
    <2>1. L \in 0..L
      BY <1>0
    <2> QED BY <1>7, <2>1, BodiesIs
  <1>9. Bodies(<<>>) = <<>>
    <2>1. <<>> \in Seq(Bytes) /\ Len(<<>>) = 0
      OBVIOUS
    <2> QED BY <2>1, BodiesIs
  <1> QED BY <1>4, <1>6, <1>7, <1>8, <1>9 DEF t

LEMMA PrefixKept ==
    ASSUME NEW a \in Seq(Bytes), NEW b \in Seq(Bytes), NEW m \in Bytes, IsPrefix(a, b)
    PROVE  IsPrefix(a, HandOn(b, m))
  <1>1. CASE ~Checked(m)
    BY <1>1 DEF HandOn
  <1>2. CASE Checked(m)
    <2> DEFINE x == Body(m)
               c == Append(b, x)
               n == Len(a)
    <2>1. x \in Bytes
      BY <1>2, HandOnTyped
    <2> HIDE DEF x
    <2>2. c \in Seq(Bytes) /\ Len(c) = Len(b) + 1 /\ \A i \in 1..Len(b) : c[i] = b[i]
      BY <2>1, AppendProperties
    <2> HIDE DEF c
    <2>3. n \in Nat /\ Len(b) \in Nat /\ n <= Len(b) /\ SubSeq(a, 1, n) = SubSeq(b, 1, n)
      BY DEF IsPrefix
    <2>4. \A i \in 1..n : b[i] \in Bytes /\ c[i] \in Bytes /\ c[i] = b[i]
      BY <2>2, <2>3, ElementOfSeq
    <2> HIDE DEF n
    <2>5. SubSeq(b, 1, n) \in Seq(Bytes) /\ Len(SubSeq(b, 1, n)) = n /\ \A i \in 1..n : SubSeq(b, 1, n)[i] = b[i]
      BY <2>3, <2>4, SubSeqProperties
    <2>6. SubSeq(c, 1, n) \in Seq(Bytes) /\ Len(SubSeq(c, 1, n)) = n /\ \A i \in 1..n : SubSeq(c, 1, n)[i] = c[i]
      BY <2>3, <2>4, SubSeqProperties
    <2>7. SubSeq(c, 1, n) = SubSeq(b, 1, n)
      BY <2>4, <2>5, <2>6, SeqEqual
    <2>8. n <= Len(c) /\ SubSeq(a, 1, n) = SubSeq(c, 1, n)
      BY <2>2, <2>3, <2>7
    <2> QED BY <1>2, <2>8 DEF HandOn, IsPrefix, c, x, n
  <1> QED BY <1>1, <1>2

\* Of fewer messages, fewer bodies are handed on.
LEMMA BodiesPrefix ==
    ASSUME NEW s \in Seq(Bytes), NEW j \in 0..Len(s)
    PROVE  IsPrefix(Bodies(SubSeq(s, 1, j)), Bodies(s))
  <1> DEFINE L == Len(s)
             c(k) == SubSeq(s, 1, k)
             a == Bodies(c(j))
             T == {k \in 0..L : k >= j => IsPrefix(a, Bodies(c(k)))}
  <1>0. L \in Nat /\ c(L) = s /\ j \in Nat /\ j <= L
    BY SubSeqFull
  <1>1. \A k \in 0..L : c(k) \in Seq(Bytes) /\ Bodies(c(k)) \in Seq(Bytes)
    <2> SUFFICES ASSUME NEW k \in 0..L PROVE c(k) \in Seq(Bytes) /\ Bodies(c(k)) \in Seq(Bytes)
      OBVIOUS
    <2>1. c(k) \in Seq(Bytes)
      BY Split
    <2>2. <<>> \in Bytes
      BY DEF Bytes
    <2> HIDE DEF c
    <2> QED BY <2>1, <2>2, BodiesAppend
  <1>2. a \in Seq(Bytes)
    BY <1>1
  <1>3. IsPrefix(a, a)
    <2> HIDE DEF a
    <2> QED BY <1>2 DEF IsPrefix
  <1>4. 0 \in T
    <2>1. 0 >= j => j = 0
      BY <1>0
    <2> HIDE DEF c
    <2>2. 0 >= j => IsPrefix(a, Bodies(c(0)))
      BY <1>3, <2>1
    <2>3. 0 \in 0..L
      BY <1>0
    <2> QED BY <2>2, <2>3
  <1>5. ASSUME NEW k \in 0..L, k \in T, k < L PROVE k + 1 \in T
    <2> DEFINE m == s[k + 1]
    <2>1. k + 1 \in 1..L /\ k + 1 \in 0..L /\ (k + 1) - 1 = k /\ 1 \in 1..Len(s) /\ k \in Nat
      BY <1>0, <1>5
    <2>2. m \in Bytes
      BY <2>1, ElementOfSeq
    <2>3. c(k + 1) = c(k) \o <<m>>
      BY <2>1, SubSeqRecursiveSecond
    <2>4. c(k) \in Seq(Bytes) /\ Bodies(c(k)) \in Seq(Bytes)
      BY <1>1
    <2>5. k >= j => IsPrefix(a, Bodies(c(k)))
      BY <1>5
    <2> HIDE DEF m, c, a
    <2>6. c(k + 1) = Append(c(k), m)
      BY <2>2, <2>3, <2>4, AppendIsConcat
    <2>7. Bodies(c(k + 1)) = HandOn(Bodies(c(k)), m)
      BY <2>2, <2>4, <2>6, BodiesAppend
    <2>8. k >= j => IsPrefix(a, Bodies(c(k + 1)))
      BY <1>2, <2>2, <2>4, <2>5, <2>7, PrefixKept
    <2>9. k + 1 >= j => k >= j \/ k + 1 = j
      BY <1>0, <2>1
    <2>10. k + 1 = j => IsPrefix(a, Bodies(c(k + 1)))
      BY <1>3 DEF a
    <2> QED BY <2>1, <2>8, <2>9, <2>10
  <1>6. 0..L \subseteq T
    <2> HIDE DEF T, L
    <2> QED BY <1>0, <1>4, <1>5, Climb
  <1>7. L \in T /\ L >= j
    BY <1>0, <1>6
  <1>8. IsPrefix(a, Bodies(c(L)))
    BY <1>7
  <1> QED BY <1>0, <1>8

----------------------------------------------------------------------------
(* Errors stop what is handed on.                                            *)

NoData(q) == \A i \in 1..Len(q) : q[i].kind # "data"

\* A close is due, and no piece before it.
CloseDue(q) ==
    \E i \in 1..Len(q) : q[i].kind = "close" /\ \A k \in 1..(i - 1) : q[k].kind # "data"

LEMMA DuePosted ==
    ASSUME NEW q \in Seq(Tasks), NEW t \in Tasks
    PROVE  /\ CloseDue(q) => CloseDue(Append(q, t))
           /\ NoAnswer(q) => CloseDue(Append(q, CloseImpl)) /\ NoData(q)
           /\ NoData(q) /\ t.kind # "data" => NoData(Append(q, t))
  <1> DEFINE p == Append(q, t)
             c == Append(q, CloseImpl)
  <1>1. /\ p \in Seq(Tasks) /\ Len(p) = Len(q) + 1 /\ Len(q) \in Nat
        /\ \A i \in 1..Len(q) : p[i] = q[i]
        /\ p[Len(q) + 1] = t
    BY Posted
  <1>2. /\ Len(c) = Len(q) + 1
        /\ \A i \in 1..Len(q) : c[i] = q[i]
        /\ c[Len(q) + 1] = CloseImpl
    BY TasksAre, Posted
  <1> HIDE DEF p, c
  <1>3. CloseDue(q) => CloseDue(p)
    <2> SUFFICES ASSUME CloseDue(q) PROVE CloseDue(p)
      OBVIOUS
    <2>1. PICK i \in 1..Len(q) : q[i].kind = "close" /\ \A k \in 1..(i - 1) : q[k].kind # "data"
      BY DEF CloseDue
    <2>2. i \in 1..Len(p) /\ \A k \in 1..(i - 1) : k \in 1..Len(q)
      BY <1>1
    <2>3. p[i].kind = "close" /\ \A k \in 1..(i - 1) : p[k].kind # "data"
      BY <1>1, <2>1, <2>2
    <2> QED BY <2>2, <2>3 DEF CloseDue
  <1>4. NoAnswer(q) => NoData(q)
    BY DEF NoAnswer, NoData, Answer
  <1>5. NoData(q) => CloseDue(c)
    <2> SUFFICES ASSUME NoData(q) PROVE CloseDue(c)
      OBVIOUS
    <2> DEFINE i == Len(q) + 1
    <2>1. i \in 1..Len(c) /\ c[i].kind = "close" /\ \A k \in 1..(i - 1) : k \in 1..Len(q)
      BY <1>1, <1>2 DEF CloseImpl
    <2>2. \A k \in 1..(i - 1) : c[k].kind # "data"
      BY <1>2, <2>1 DEF NoData
    <2> HIDE DEF i
    <2> QED BY <2>1, <2>2 DEF CloseDue
  <1>6. NoData(q) /\ t.kind # "data" => NoData(p)
    <2>1. \A i \in 1..Len(p) : i \in 1..Len(q) \/ i = Len(q) + 1
      BY <1>1
    <2> QED BY <1>1, <2>1 DEF NoData
  <1> QED BY <1>3, <1>4, <1>5, <1>6 DEF p, c

LEMMA DueTaken ==
    ASSUME NEW q \in Seq(Tasks), q # <<>>
    PROVE  /\ CloseDue(q) => Head(q).kind # "data"
           /\ CloseDue(q) /\ Head(q).kind # "close" => CloseDue(Tail(q))
           /\ NoData(q) => NoData(Tail(q)) /\ Head(q).kind # "data"
           /\ NoAnswer(Tail(q)) => NoData(Tail(q))
  <1> DEFINE p == Tail(q)
  <1>1. /\ p \in Seq(Tasks) /\ Len(p) = Len(q) - 1 /\ Len(q) \in Nat /\ Head(q) = q[1] /\ 1 \in 1..Len(q)
        /\ \A i \in 1..Len(p) : p[i] = q[i + 1] /\ i + 1 \in 1..Len(q)
    BY Taken
  <1> HIDE DEF p
  <1>2. ASSUME CloseDue(q)
        PROVE  q[1].kind # "data" /\ (q[1].kind # "close" => CloseDue(p))
    <2>1. PICK i \in 1..Len(q) : q[i].kind = "close" /\ \A k \in 1..(i - 1) : q[k].kind # "data"
      BY <1>2 DEF CloseDue
    <2>2. CASE i = 1
      BY <2>1, <2>2
    <2>3. CASE i # 1
      <3>1. 1 \in 1..(i - 1) /\ i - 1 \in 1..Len(p) /\ (i - 1) + 1 = i
        BY <1>1, <2>3
      <3>2. p[i - 1].kind = "close"
        BY <1>1, <2>1, <3>1
      <3>3. ASSUME NEW k \in 1..((i - 1) - 1) PROVE p[k].kind # "data"
        <4>1. k + 1 \in 1..(i - 1) /\ k \in 1..Len(p)
          BY <1>1, <3>1
        <4> QED BY <1>1, <2>1, <4>1
      <3>4. CloseDue(p)
        <4> DEFINE e == i - 1
        <4>1. e \in 1..Len(p) /\ p[e].kind = "close" /\ \A k \in 1..(e - 1) : p[k].kind # "data"
          BY <3>1, <3>2, <3>3
        <4> HIDE DEF e
        <4> QED BY <4>1 DEF CloseDue
      <3> QED BY <2>1, <3>1, <3>4
    <2> QED BY <2>2, <2>3
  <1>3. NoData(q) => NoData(p) /\ q[1].kind # "data"
    BY <1>1 DEF NoData
  <1>4. NoAnswer(p) => NoData(p)
    BY DEF NoAnswer, NoData, Answer
  <1> QED BY <1>1, <1>2, <1>3, <1>4 DEF p

\* An error was reported: to the binary protocol as a checksum, or to on_error.
Bad == failed \/ Damage

\* Between an error and the close it posted, no piece is looked at; when the
\* transport is closed, the one piece that was read before may be.
LatePieces ==
    /\ late \in Nat /\ late <= 1
    /\ ~Bad => late = 0
    /\ Bad /\ active => late = 0 /\ CloseDue(strand)
    /\ late = 1 => ~active /\ NoData(strand)

HandedOn == ready = Bodies(delivered)

LEMMA LateInit == ProtocolInit => LatePieces /\ HandedOn
  <1> SUFFICES ASSUME ProtocolInit PROVE LatePieces /\ HandedOn
    OBVIOUS
  <1>1. failed = FALSE /\ delivered = <<>> /\ late = 0 /\ ready = <<>>
    BY DEF ProtocolInit, Init
  <1>2. Len(delivered) = 0
    BY <1>1
  <1>3. ~Bad
    BY <1>1, <1>2 DEF Bad, Damage
  <1>4. HandedOn
    <2>1. <<>> \in Seq(Bytes) /\ <<>> \in Bytes
      BY DEF Bytes
    <2> QED BY <1>1, <2>1, BodiesAppend DEF HandedOn
  <1> QED BY <1>1, <1>3, <1>4 DEF LatePieces

\* What a message cut off changes.
LEMMA MessageIs ==
    ASSUME Core, OnMessage
    PROVE  LET m == Last(delivered') IN
           /\ delivered \in Seq(Bytes) /\ m \in Bytes /\ delivered' = Append(delivered, m)
           /\ Damage' <=> Damage \/ ~Checked(m)
           /\ phase = "cutting" /\ failed' = failed
           /\ UNCHANGED <<pending, active, gone, late>>
           /\ Checked(m) => ready' = Append(ready, Body(m)) /\ strand' = strand
           /\ ~Checked(m) => ready' = ready /\ strand' = Append(strand, CloseImpl)
  <1>1. TypeOK /\ delivered \in Seq(Seq(Byte)) /\ CutMessage
    BY DEF Core, TypeOK, OnMessage
  <1>2. TypeOK'
    BY <1>1, CutTyped
  <1>3. delivered' \in Seq(Seq(Byte))
    BY <1>2 DEF TypeOK
  <1>4. \E c : delivered' = Append(delivered, c)
    BY <1>1 DEF CutMessage
  <1>5. PICK c : delivered' = Append(delivered, c)
    BY <1>4
  <1> DEFINE d == Len(delivered)
  <1>6. d \in Nat /\ Len(delivered') = d + 1 /\ delivered'[d + 1] = c /\ \A i \in 1..d : delivered'[i] = delivered[i]
    BY <1>1, <1>5
  <1>7. c \in Seq(Byte)
    <2>1. d + 1 \in 1..Len(delivered')
      BY <1>6
    <2> QED BY <1>3, <1>6, <2>1, ElementOfSeq
  <1>8. Last(delivered') = c
    BY <1>6 DEF Last
  <1>9. Damage' <=> Damage \/ ~Checked(c)
    <2>1. \A i \in 1..(d + 1) : i \in 1..d \/ i = d + 1
      BY <1>6
    <2>2. \A i \in 1..d : i \in 1..(d + 1)
      BY <1>6
    <2>3. d + 1 \in 1..(d + 1)
      BY <1>6
    <2>4. Damage' <=> \E i \in 1..(d + 1) : ~Checked(delivered'[i])
      BY <1>6 DEF Damage
    <2> QED BY <1>6, <2>1, <2>2, <2>3, <2>4 DEF Damage
  <1>10. phase = "cutting" /\ failed' = failed /\ UNCHANGED <<pending, active, gone, late>>
    BY DEF OnMessage, CutMessage
  <1>11. /\ Checked(c) => ready' = Append(ready, Body(c)) /\ strand' = strand
         /\ ~Checked(c) => ready' = ready /\ strand' = Append(strand, CloseImpl)
    BY <1>8 DEF OnMessage, Close, Post
  <1> QED BY <1>1, <1>5, <1>7, <1>8, <1>9, <1>10, <1>11 DEF Bytes

LEMMA LateNext ==
    ASSUME Core, LatePieces, [ProtocolNext]_allVars
    PROVE  LatePieces'
  <1>0. /\ strand \in Seq(Tasks) /\ late \in Nat /\ late <= 1
        /\ ~Bad => late = 0
        /\ Bad /\ active => late = 0 /\ CloseDue(strand)
        /\ late = 1 => ~active /\ NoData(strand)
    BY DEF Core, LatePieces
  <1>1. CASE UNCHANGED <<delivered, failed, strand, active, late>>
    BY <1>1 DEF LatePieces, Bad, Damage
  <1>2. CASE ReadCompletes
    <2>1. PICK n \in 1..Min({Len(wire), BufferSize}) : strand' = Append(strand, Data(n))
      BY <1>2 DEF ReadCompletes, Post
    <2>2. Data(n) \in Tasks
      BY <2>1, ReadBrings, TasksAre DEF Core
    <2>3. active /\ UNCHANGED <<delivered, failed, active, late>>
      BY <1>2 DEF ReadCompletes, vars
    <2>4. Bad' <=> Bad
      BY <2>3 DEF Bad, Damage
    <2>5. CloseDue(strand) => CloseDue(strand')
      BY <1>0, <2>1, <2>2, DuePosted
    <2> QED BY <1>0, <2>3, <2>4, <2>5 DEF LatePieces
  <1>3. CASE ReadFails
    <2>1. strand' = Append(strand, ReadError) /\ UNCHANGED <<delivered, failed, active, late>>
      BY <1>3 DEF ReadFails, Post, vars
    <2>2. Bad' <=> Bad
      BY <2>1 DEF Bad, Damage
    <2>3. (CloseDue(strand) => CloseDue(strand')) /\ (NoData(strand) => NoData(strand'))
      BY <1>0, <2>1, TasksAre, DuePosted
    <2> QED BY <1>0, <2>1, <2>2, <2>3 DEF LatePieces
  <1>4. CASE ReadHandler
    <2>1. /\ strand # <<>> /\ Head(strand).kind = "data" /\ strand' = Tail(strand)
          /\ UNCHANGED <<delivered, failed, active>> /\ phase' = "cutting"
      BY <1>4, HandlerIs
    <2>2. late' = IF Bad THEN late + 1 ELSE late
      BY <1>4 DEF ReadHandler, Bad
    <2>3. Bad' <=> Bad
      BY <2>1 DEF Bad, Damage
    <2>4. ~CloseDue(strand) /\ ~NoData(strand)
      BY <1>0, <2>1, DueTaken
    <2>5. NoData(strand')
      <3>1. Core'
        BY <1>4, CoreHandler
      <3>2. NoAnswer(strand')
        BY <2>1, <3>1 DEF Core, OneRead
      <3> QED BY <1>0, <2>1, <3>2, DueTaken
    <2>6. CASE Bad
      BY <1>0, <2>1, <2>2, <2>3, <2>4, <2>5, <2>6 DEF LatePieces
    <2>7. CASE ~Bad
      BY <1>0, <2>1, <2>2, <2>3, <2>7 DEF LatePieces
    <2> QED BY <2>6, <2>7
  <1>5. CASE OnMessage
    <2> DEFINE m == Last(delivered')
    <2>1. /\ Damage' <=> Damage \/ ~Checked(m)
          /\ phase = "cutting" /\ failed' = failed /\ active' = active /\ late' = late
          /\ Checked(m) => strand' = strand
          /\ ~Checked(m) => strand' = Append(strand, CloseImpl)
      BY <1>5, MessageIs
    <2> HIDE DEF m
    <2>2. CASE Checked(m)
      <3>1. (Bad' <=> Bad) /\ strand' = strand
        BY <2>1, <2>2 DEF Bad
      <3> QED BY <1>0, <2>1, <3>1 DEF LatePieces
    <2>3. CASE ~Checked(m)
      <3>1. Bad' /\ strand' = Append(strand, CloseImpl)
        BY <2>1, <2>3 DEF Bad
      <3>2. NoAnswer(strand)
        BY <2>1 DEF Core, OneRead
      <3>3. CloseDue(strand') /\ (NoData(strand) => NoData(strand'))
        BY <1>0, <3>1, <3>2, TasksAre, DuePosted
      <3> QED BY <1>0, <2>1, <3>1, <3>3 DEF LatePieces
    <2> QED BY <2>2, <2>3
  <1>6. CASE OnError
    <2>1. /\ phase = "cutting" /\ failed' = TRUE /\ strand' = Append(strand, CloseImpl)
          /\ UNCHANGED <<active, late>>
      BY <1>6 DEF OnError, RefusePrefix, Close, Post
    <2>2. Bad'
      BY <2>1 DEF Bad
    <2>3. NoAnswer(strand)
      BY <2>1 DEF Core, OneRead
    <2>4. CloseDue(strand') /\ (NoData(strand) => NoData(strand'))
      BY <1>0, <2>1, <2>3, TasksAre, DuePosted
    <2> QED BY <1>0, <2>1, <2>2, <2>4 DEF LatePieces
  <1>7. CASE OnReadError
    <2>1. /\ strand # <<>> /\ Head(strand).kind = "error"
          /\ strand' = Append(Tail(strand), CloseImpl)
          /\ UNCHANGED <<delivered, failed, active, late>>
      BY <1>7 DEF OnReadError, Runs, vars
    <2>2. Bad' <=> Bad
      BY <2>1 DEF Bad, Damage
    <2>3. /\ Tail(strand) \in Seq(Tasks)
          /\ CloseDue(strand) => CloseDue(Tail(strand))
          /\ NoData(strand) => NoData(Tail(strand))
      BY <1>0, <2>1, Taken, DueTaken
    <2>4. (CloseDue(strand) => CloseDue(strand')) /\ (NoData(strand) => NoData(strand'))
      BY <2>1, <2>3, TasksAre, DuePosted
    <2> QED BY <1>0, <2>1, <2>2, <2>4 DEF LatePieces
  <1>8. CASE CloseTask
    <2>1. /\ strand # <<>> /\ strand' = Tail(strand) /\ active' = FALSE
          /\ UNCHANGED <<delivered, failed, late>>
      BY <1>8 DEF CloseTask, Runs, SocketAfterClose, vars
    <2>2. Bad' <=> Bad
      BY <2>1 DEF Bad, Damage
    <2>3. NoData(strand) => NoData(strand')
      BY <1>0, <2>1, DueTaken
    <2> QED BY <1>0, <2>1, <2>2, <2>3 DEF LatePieces
  <1>9. (\E m \in Messages : PeerSends(m)) \/ PeerSendsGarbage \/ PeerCloses \/ StreamLoop \/ OnNeedRead
        \/ UNCHANGED allVars => UNCHANGED <<delivered, failed, strand, active, late>>
    BY DEF PeerSends, Send, PeerSendsGarbage, SendGarbage, PeerCloses, StreamLoop, OnNeedRead, NeedRead,
           allVars, vars, protocolVars
  <1> QED BY <1>1, <1>2, <1>3, <1>4, <1>5, <1>6, <1>7, <1>8, <1>9 DEF ProtocolNext, Work

LEMMA HandedOnNext ==
    ASSUME Core, HandedOn, [ProtocolNext]_allVars
    PROVE  HandedOn'
  <1>1. CASE UNCHANGED <<delivered, ready>>
    BY <1>1 DEF HandedOn
  <1>2. CASE OnMessage
    <2> DEFINE m == Last(delivered')
    <2>1. /\ delivered \in Seq(Bytes) /\ m \in Bytes /\ delivered' = Append(delivered, m)
          /\ Checked(m) => ready' = Append(ready, Body(m))
          /\ ~Checked(m) => ready' = ready
      BY <1>2, MessageIs
    <2> HIDE DEF m
    <2>2. ready' = HandOn(ready, m)
      BY <2>1 DEF HandOn
    <2>3. Bodies(Append(delivered, m)) = HandOn(Bodies(delivered), m)
      BY <2>1, BodiesAppend
    <2> QED BY <2>1, <2>2, <2>3 DEF HandedOn
  <1>3. (\E m \in Messages : PeerSends(m)) \/ PeerSendsGarbage \/ PeerCloses \/ StreamLoop \/ OnNeedRead
        \/ ReadCompletes \/ ReadFails \/ ReadHandler \/ OnError \/ OnReadError \/ CloseTask
        \/ UNCHANGED allVars => UNCHANGED <<delivered, ready>>
    <2>1. ReadHandler => UNCHANGED <<delivered, ready>>
      BY HandlerIs
    <2> QED BY <2>1 DEF PeerSends, Send, PeerSendsGarbage, SendGarbage, PeerCloses, StreamLoop, OnNeedRead, NeedRead,
           ReadCompletes, ReadFails, OnError, RefusePrefix, OnReadError, CloseTask, allVars, vars, protocolVars
  <1> QED BY <1>1, <1>2, <1>3 DEF ProtocolNext, Work

LEMMA Contained ==
    ASSUME Core, Line, StreamCore, LatePieces, HandedOn
    PROVE  DamageContained
  <1>1. delivered \in Seq(Bytes) /\ TypeOK /\ sent \in Seq(Messages)
    BY DEF Core, TypeOK, Bytes
  <1>2. ready \in Seq(Seq(Byte))
    <2>1. <<>> \in Bytes
      BY DEF Bytes
    <2>2. ready \in Seq(Bytes)
      BY <1>1, <2>1, BodiesAppend DEF HandedOn
    <2> QED BY <2>2 DEF Bytes
  <1>3. ProtocolTypeOK
    <2>1. strand \in Seq([kind : {"data", "close", "error"}, bytes : 0..BufferSize])
      BY DEF Core, Tasks
    <2>2. {pending, active, gone} \subseteq BOOLEAN
      BY Zenon DEF Core
    <2>3. StreamTypeOK /\ late \in Nat
      BY DEF StreamCore, LatePieces
    <2> QED BY <1>1, <1>2, <2>1, <2>2, <2>3 DEF ProtocolTypeOK
  <1>4. HandedOnIntact
    <2> SUFFICES ASSUME ~corrupt PROVE IsPrefix(ready, Bodies(sent))
      BY DEF HandedOnIntact
    <2>1. Len(delivered) <= Len(sent) /\ delivered = SubSeq(sent, 1, Len(delivered)) /\ Len(delivered) \in Nat
      BY <1>1 DEF Line, OnLine, Beyond
    <2>2. sent \in Seq(Bytes)
      <3>1. \A m \in Messages : m \in Bytes
        BY MessagesAre DEF Bytes
      <3> QED BY <1>1, <3>1, SeqMonotonic
    <2>3. Len(delivered) \in 0..Len(sent)
      BY <2>1, <2>2
    <2>4. IsPrefix(Bodies(SubSeq(sent, 1, Len(delivered))), Bodies(sent))
      BY <2>2, <2>3, BodiesPrefix
    <2>5. Bodies(SubSeq(sent, 1, Len(delivered))) = ready
      BY ONLY <2>1, HandedOn DEF HandedOn
    <2> QED BY ONLY <2>4, <2>5
  <1>5. OneLatePiece
    BY DEF LatePieces, OneLatePiece
  <1> QED BY <1>3, <1>4, <1>5 DEF DamageContained

\* protocol::binary hands on the bodies of messages sent, in order, none of them
\* damaged, and stops: after an error at most one piece more is looked at, the one
\* that was read before the close that the error posted.
THEOREM DamageIsContained == ProtocolSpec => []DamageContained
  <1>1. ProtocolInit => Core /\ Line /\ StreamCore /\ LatePieces /\ HandedOn
    BY CoreInit, LineInit, StreamCoreInit, LateInit
  <1>2. Core /\ Line /\ StreamCore /\ LatePieces /\ HandedOn /\ [ProtocolNext]_allVars =>
            Core' /\ Line' /\ StreamCore' /\ LatePieces' /\ HandedOn'
    BY CoreNext, LineNext, StreamCoreNext, LateNext, HandedOnNext
  <1>3. Core /\ Line /\ StreamCore /\ LatePieces /\ HandedOn => DamageContained
    BY Contained
  <1> QED BY <1>1, <1>2, <1>3, PTL DEF ProtocolSpec

----------------------------------------------------------------------------
(* Both delegates.                                                           *)

\* What InStep is about: frames only, none of them longer than what is accepted.
Accepted == ~corrupt /\ \A i \in 1..Len(sent) : Len(sent[i]) <= MaxLength

Whole(m) == [part |-> m, ended |-> TRUE]

\* The first n streams are the first n messages.
Streamed(n) == \A i \in 1..n : streams[i] = Whole(sent[i])

\* No stream is under way: the frames of the other messages come next, and tmp_
\* holds what was looked at of the first.
Between ==
    /\ cursor = 0
    /\ Streamed(Len(streams))
    /\ tmp \o (buff \o wire) = After(sent, Len(streams))

\* The last stream is under way: rest is what it lacks, and comes next.
Lacks(rest) ==
    LET j == Len(streams) IN
    /\ Len(rest) = cursor
    /\ streams[j].part \o rest = sent[j]
    /\ buff \o wire = rest \o After(sent, j)

Within ==
    /\ cursor > 0 /\ tmp = <<>>
    /\ Streamed(Len(streams) - 1)
    /\ ~streams[Len(streams)].ended
    /\ \E rest \in Seq(Byte) : Lacks(rest)

StreamLine == Accepted => Len(streams) <= Len(sent) /\ (Between \/ Within)

LEMMA AfterShrinks ==
    ASSUME NEW s \in Seq(Sendable), NEW i \in 0..Len(s), NEW j \in 0..Len(s), i <= j
    PROVE  /\ Len(After(s, i)) \in Nat /\ Len(After(s, j)) \in Nat
           /\ Len(After(s, j)) <= Len(After(s, i))
  <1> DEFINE a == SubSeq(s, i + 1, j)
             b == SubSeq(s, j + 1, Len(s))
  <1>1. i + 1 \in 1..(Len(s) + 1) /\ j \in ((i + 1) - 1)..Len(s) /\ Len(s) \in j..Len(s)
    OBVIOUS
  <1>2. a \o b = SubSeq(s, i + 1, Len(s))
    BY <1>1, ConcatAdjacentSubSeq
  <1>3. b \in Seq(Sendable)
    BY AfterTyped
  <1>4. a \in Seq(Sendable)
    <2>1. \A k \in (i + 1)..j : k \in 1..Len(s)
      OBVIOUS
    <2>2. \A k \in (i + 1)..j : s[k] \in Sendable
      BY <2>1, ElementOfSeq
    <2> QED BY <2>2, SubSeqProperties
  <1> HIDE DEF a, b
  <1>5. Frames(a \o b) = Frames(a) \o Frames(b)
    BY <1>3, <1>4, FramesCat
  <1>6. After(s, i) = Frames(a) \o Frames(b) /\ After(s, j) = Frames(b)
    BY <1>2, <1>5 DEF After, b
  <1>7. Frames(a) \in Seq(Byte) /\ Frames(b) \in Seq(Byte)
    BY <1>3, <1>4, FramesTyped
  <1>8. Len(Frames(a) \o Frames(b)) = Len(Frames(a)) + Len(Frames(b))
    BY <1>7, Joined, Zenon
  <1>9. Len(Frames(a)) \in Nat /\ Len(Frames(b)) \in Nat
    BY <1>7
  <1> QED BY <1>6, <1>8, <1>9

\* What is left of a sequence behind a cut in its second half.
LEMMA CutBehind ==
    ASSUME NEW a \in Seq(Byte), NEW b \in Seq(Byte), NEW n \in Nat,
           n >= Len(a), n <= Len(a) + Len(b)
    PROVE  SubSeq(a \o b, n + 1, Len(a \o b)) = SubSeq(b, (n - Len(a)) + 1, Len(b))
  <1> DEFINE k == n - Len(a)
             x == SubSeq(b, 1, k)
             y == SubSeq(b, k + 1, Len(b))
             c == a \o x
             ab == a \o b
  <1>1. k \in 0..Len(b) /\ n = Len(a) + k
    OBVIOUS
  <1> HIDE DEF k
  <1>2. x \in Seq(Byte) /\ Len(x) = k /\ y \in Seq(Byte) /\ x \o y = b
    BY <1>1, Split
  <1> HIDE DEF x, y
  <1>3. c \in Seq(Byte) /\ Len(c) = n /\ ab \in Seq(Byte) /\ Len(ab) = Len(a) + Len(b) /\ Len(ab) >= Len(c)
    BY <1>1, <1>2, ConcatProperties
  <1>4. (a \o x) \o y = a \o (x \o y)
    BY ONLY <1>2, a \in Seq(Byte), Assoc, Zenon
  <1>5. ab = c \o y
    BY ONLY <1>2, <1>4 DEF ab, c
  <1>6. <<>> \in Seq(Byte) /\ ab \o <<>> = ab
    BY <1>3, ConcatEmptySeq
  <1> HIDE DEF c, ab
  <1>7. ab \o <<>> = c \o y
    BY <1>5, <1>6
  <1> DEFINE z == SubSeq(ab, Len(c) + 1, Len(ab))
  <1>8. z \o <<>> = y
    <2>1. y \in Seq(Byte) /\ <<>> \in Seq(Byte) /\ ab \in Seq(Byte) /\ c \in Seq(Byte)
      BY <1>2, <1>3, <1>6
    <2> QED BY ONLY <1>3, <1>7, <2>1, FrontCut
  <1>9. z \in Seq(Byte)
    <2>1. Len(c) \in 0..Len(ab)
      BY <1>3
    <2> QED BY <1>3, <2>1, Split
  <1> HIDE DEF z
  <1>10. z = y
    BY <1>8, <1>9, ConcatEmptySeq
  <1> QED BY <1>3, <1>10 DEF z, y, k, ab

LEMMA StreamLineInit == ProtocolInit => StreamLine
  <1> SUFFICES ASSUME ProtocolInit PROVE StreamLine
    OBVIOUS
  <1>1. /\ buff = <<>> /\ tmp = <<>> /\ cursor = 0 /\ streams = <<>>
        /\ sent = <<>> /\ wire = <<>>
    BY DEF ProtocolInit, StreamInit, Init
  <1>2. After(<<>>, 0) = <<>>
    <2>1. <<>> \in Seq(Sendable) /\ Len(<<>>) = 0
      OBVIOUS
    <2> QED BY <2>1, AfterAll
  <1>3. Len(streams) = 0 /\ Len(sent) = 0
    BY <1>1
  <1>4. <<>> \o (<<>> \o <<>>) = <<>>
    OBVIOUS
  <1>5. tmp \o (buff \o wire) = After(sent, Len(streams))
    BY <1>1, <1>2, <1>3, <1>4
  <1>6. Streamed(Len(streams))
    BY <1>3 DEF Streamed
  <1> QED BY <1>1, <1>3, <1>5, <1>6 DEF StreamLine, Between

\* What has not been looked at stays in its order.
LEMMA StreamLineKept ==
    ASSUME StreamLine, UNCHANGED <<sent, corrupt, tmp, cursor, streams>>,
           buff' \o wire' = buff \o wire
    PROVE  StreamLine'
  <1>1. Accepted' <=> Accepted
    BY DEF Accepted
  <1>2. Streamed(Len(streams))' <=> Streamed(Len(streams))
    BY DEF Streamed
  <1>3. Streamed(Len(streams) - 1)' <=> Streamed(Len(streams) - 1)
    BY DEF Streamed
  <1>4. After(sent, Len(streams))' = After(sent, Len(streams))
    BY DEF After
  <1>5. Between => Between'
    BY <1>2, <1>4 DEF Between
  <1>6. \A rest : Lacks(rest) => Lacks(rest)'
    BY <1>4 DEF Lacks
  <1>7. Within => Within'
    BY <1>3, <1>6 DEF Within
  <1> QED BY <1>1, <1>5, <1>7 DEF StreamLine

LEMMA StreamLineSends ==
    ASSUME Core, StreamCore, StreamLine, NEW m \in Messages, PeerSends(m)
    PROVE  StreamLine'
  <1> SUFFICES ASSUME Accepted' PROVE Len(streams') <= Len(sent') /\ (Between' \/ Within')
    BY DEF StreamLine
  <1> DEFINE j == Len(streams)
             f == Frame(m)
             r == After(sent, j)
  <1>1. /\ ~corrupt /\ sent' = Append(sent, m) /\ wire' = wire \o f
        /\ UNCHANGED <<corrupt, buff, tmp, cursor, streams>>
    BY DEF PeerSends, Send, streamVars
  <1>2. /\ sent \in Seq(Sendable) /\ Len(sent) \in Nat /\ m \in Sendable /\ f \in Seq(Byte)
        /\ wire \in Seq(Byte)
    BY SentAre, MessagesAre, FrameIs DEF Core, TypeOK
  <1>3. buff \in Seq(Byte) /\ tmp \in Seq(Byte) /\ j \in Nat
    BY StreamTypes
  <1>4. /\ Len(sent') = Len(sent) + 1
        /\ \A i \in 1..Len(sent) : i \in 1..Len(sent') /\ sent'[i] = sent[i]
    <2>1. Len(Append(sent, m)) = Len(sent) + 1 /\ \A i \in 1..Len(sent) : Append(sent, m)[i] = sent[i]
      BY <1>2, AppendProperties
    <2> QED BY <1>1, <1>2, <2>1
  <1>5. Accepted
    BY <1>1, <1>4 DEF Accepted
  <1>6. j <= Len(sent) /\ j \in 0..Len(sent) /\ (Between \/ Within)
    BY <1>3, <1>5 DEF StreamLine
  <1>7. After(sent, j)' = r \o f /\ r \in Seq(Byte)
    BY <1>1, <1>2, <1>6, AfterAppend, AfterTyped DEF After
  <1>8. \A i \in 1..j : i \in 1..Len(sent)
    BY <1>3, <1>6
  <1>9. Streamed(j) => Streamed(j)'
    BY <1>1, <1>4, <1>8 DEF Streamed
  <1>10. Streamed(j - 1) => Streamed(j - 1)'
    <2>1. \A i \in 1..(j - 1) : i \in 1..Len(sent)
      BY <1>3, <1>6
    <2> QED BY <1>1, <1>4, <2>1 DEF Streamed
  <1> HIDE DEF f, r
  <1>11. buff \o (wire \o f) = (buff \o wire) \o f /\ buff \o wire \in Seq(Byte)
    <2>1. (buff \o wire) \o f = buff \o (wire \o f)
      BY ONLY <1>2, <1>3, Assoc, Zenon
    <2>2. buff \o wire \in Seq(Byte)
      BY ONLY <1>2, <1>3, Joined, Zenon
    <2> QED BY ONLY <2>1, <2>2
  <1>12. CASE Between
    <2>1. tmp \o (buff \o wire) = r /\ cursor = 0 /\ Streamed(j)
      BY <1>12 DEF Between, r
    <2> DEFINE bw == buff \o wire
    <2>2. bw \in Seq(Byte)
      BY <1>11
    <2> HIDE DEF bw
    <2>3. (tmp \o bw) \o f = tmp \o (bw \o f)
      BY ONLY <1>2, <1>3, <2>2, Assoc, Zenon
    <2>4. tmp \o (buff \o (wire \o f)) = r \o f
      BY ONLY <1>11, <2>1, <2>3 DEF bw
    <2>5. Between'
      BY <1>1, <1>7, <1>9, <2>1, <2>4 DEF Between
    <2> QED BY <1>1, <1>2, <1>4, <1>6, <2>5
  <1>13. CASE Within
    <2>1. cursor > 0 /\ tmp = <<>> /\ Streamed(j - 1) /\ ~streams[j].ended
      BY <1>13 DEF Within
    <2>2. PICK rest \in Seq(Byte) : Lacks(rest)
      BY <1>13 DEF Within
    <2>3. Len(rest) = cursor /\ streams[j].part \o rest = sent[j] /\ buff \o wire = rest \o r
      BY <2>2 DEF Lacks, r
    <2>4. (rest \o r) \o f = rest \o (r \o f)
      BY ONLY <1>2, <1>7, <2>2, Assoc, Zenon
    <2>5. buff \o (wire \o f) = rest \o (r \o f)
      BY ONLY <1>11, <2>3, <2>4
    <2>6. j >= 1
      BY <1>3, <2>1 DEF StreamCore
    <2>7. sent'[j] = sent[j]
      BY <1>3, <1>4, <1>6, <2>6
    <2>8. Lacks(rest)'
      BY <1>1, <1>7, <2>3, <2>5, <2>7 DEF Lacks
    <2>9. Within'
      BY <1>1, <1>10, <2>1, <2>8 DEF Within
    <2> QED BY <1>1, <1>2, <1>4, <1>6, <2>9
  <1> QED BY <1>6, <1>12, <1>13

LEMMA StreamLineUpdate ==
    ASSUME TypeOK, StreamCore, StreamLine, Accepted, UpdateCursor, UNCHANGED vars
    PROVE  StreamLine'
  <1> DEFINE j == Len(streams)
             n == Part
             p == streams[j].part
             r == After(sent, j)
  <1>1. /\ cursor > 0 /\ j \in Nat /\ j >= 1
        /\ n \in 0..Len(buff) /\ n <= cursor
        /\ n = IF cursor <= Len(buff) THEN cursor ELSE Len(buff)
        /\ streams' \in Seq(Begun) /\ Len(streams') = j
        /\ \A i \in 1..j : i # j => streams'[i] = streams[i]
        /\ streams'[j] = [part |-> p \o SubSeq(buff, 1, n), ended |-> cursor <= Len(buff)]
        /\ buff' = SubSeq(buff, n + 1, Len(buff))
        /\ cursor' = cursor - n /\ tmp' = tmp
    BY UpdateIs
  <1>2. UNCHANGED <<sent, corrupt, wire>> /\ sent \in Seq(Sendable) /\ wire \in Seq(Byte) /\ Len(sent) \in Nat
    BY SentAre DEF vars, TypeOK
  <1>3. buff \in Seq(Byte) /\ Len(buff) \in Nat /\ streams \in Seq(Begun) /\ cursor \in Nat
    BY StreamTypes
  <1> HIDE DEF n
  <1>4. j <= Len(sent) /\ Within
    BY <1>1 DEF StreamLine, Between
  <1>5. tmp = <<>> /\ Streamed(j - 1)
    BY <1>4 DEF Within
  <1>6. PICK rest \in Seq(Byte) : Lacks(rest)
    BY <1>4 DEF Within
  <1>7. Len(rest) = cursor /\ p \o rest = sent[j] /\ buff \o wire = rest \o r
    BY <1>6 DEF Lacks
  <1>8. r \in Seq(Byte) /\ After(sent, j)' = r
    <2>1. j \in 0..Len(sent)
      BY <1>1, <1>4
    <2> QED BY <1>1, <1>2, <2>1, AfterTyped DEF After
  <1>9. p \in Seq(Byte)
    <2>1. streams[j] \in Begun
      BY <1>1, <1>3, ElementOfSeq
    <2> QED BY <2>1 DEF Begun
  <1> DEFINE now == SubSeq(buff, 1, n)
             left == SubSeq(rest, n + 1, Len(rest))
  <1>10. n \in 0..Len(rest) /\ n <= Len(rest)
    BY <1>1, <1>3, <1>7
  <1>11. SubSeq(buff, 1, n) = SubSeq(rest, 1, n) /\ SubSeq(buff, n + 1, Len(buff)) \o wire = left \o r
    <2> HIDE DEF r, j, p
    <2> DEFINE s1 == SubSeq(buff, 1, n)
               s2 == SubSeq(rest, 1, n)
               b2 == SubSeq(buff, n + 1, Len(buff))
    <2>1. \A c, d \in Seq(Byte) : \A k \in 0..Len(buff) :
            buff \o wire = c \o d /\ k <= Len(c) =>
              /\ SubSeq(buff, 1, k) = SubSeq(c, 1, k)
              /\ SubSeq(buff, k + 1, Len(buff)) \o wire = SubSeq(c, k + 1, Len(c)) \o d
      BY ONLY <1>2, <1>3, BothCut
    <2>2. rest \in Seq(Byte) /\ r \in Seq(Byte) /\ n \in 0..Len(buff)
      BY <1>1, <1>6, <1>8
    <2> QED BY ONLY <1>7, <1>10, <2>1, <2>2
  <1>12. /\ now \in Seq(Byte) /\ left \in Seq(Byte) /\ Len(left) = Len(rest) - n
         /\ now \o left = rest
    BY <1>10, <1>11, Split
  <1>13. buff' \o wire' = left \o r
    BY <1>1, <1>2, <1>11
  <1> HIDE DEF now, left, p, r
  <1>14. (p \o now) \o left = sent[j]
    <2>1. (p \o now) \o left = p \o (now \o left)
      BY ONLY <1>9, <1>12, Assoc, Zenon
    <2> QED BY ONLY <1>7, <1>12, <2>1
  <1>15. streams'[j] = [part |-> p \o now, ended |-> cursor <= Len(buff)]
    BY <1>1 DEF now, p
  <1>16. p \o now \in Seq(Byte)
    BY ONLY <1>9, <1>12, Joined, Zenon
  <1>17. \A i \in 1..(j - 1) : streams'[i] = Whole(sent'[i])
    <2>1. \A i \in 1..(j - 1) : i \in 1..j /\ i # j
      BY <1>1
    <2> QED BY <1>1, <1>2, <1>5, <2>1 DEF Streamed
  <1>18. CASE cursor <= Len(buff)
    <2>1. cursor' = 0 /\ left = <<>>
      BY <1>1, <1>3, <1>7, <1>12, <1>18
    <2>2. (p \o now) \o <<>> = p \o now
      BY <1>16, ConcatEmptySeq
    <2>3. p \o now = sent[j]
      BY ONLY <1>14, <2>1, <2>2
    <2>4. streams'[j] = Whole(sent'[j])
      <3>1. (cursor <= Len(buff)) = TRUE
        BY <1>18
      <3> QED BY ONLY <1>2, <1>15, <2>3, <3>1 DEF Whole
    <2>5. \A i \in 1..j : i \in 1..(j - 1) \/ i = j
      BY <1>1
    <2>6. \A i \in 1..j : streams'[i] = Whole(sent'[i])
      BY <1>17, <2>4, <2>5
    <2>7. <<>> \o r = r
      BY <1>8, ConcatEmptySeq
    <2>8. buff' \o wire' = r
      BY ONLY <1>13, <2>1, <2>7
    <2>9. <<>> \o r = r /\ tmp' = <<>>
      BY <1>1, <1>5, <2>7
    <2>10. tmp' \o (buff' \o wire') = r
      BY ONLY <2>8, <2>9
    <2>11. Len(streams)' = j
      BY <1>1
    <2>12. After(sent, Len(streams))' = r
      BY <1>2, <1>8, <2>11 DEF After
    <2>13. Between'
      BY <2>1, <2>6, <2>10, <2>11, <2>12 DEF Between, Streamed
    <2> QED BY <1>2, <1>4, <2>11, <2>13 DEF StreamLine
  <1>19. CASE ~(cursor <= Len(buff))
    <2>1. cursor' > 0 /\ Len(left) = cursor'
      BY <1>1, <1>3, <1>7, <1>12, <1>19
    <2>2. Len(streams)' = j
      BY <1>1
    <2>3. After(sent, Len(streams))' = r
      BY <1>2, <1>8, <2>2 DEF After
    <2>4. streams'[j].part = p \o now /\ streams'[j].ended = FALSE
      <3>1. (cursor <= Len(buff)) = FALSE
        BY <1>19
      <3>2. streams'[j] = [part |-> p \o now, ended |-> FALSE]
        BY ONLY <1>15, <3>1
      <3> QED BY ONLY <3>2
    <2>5. PICK x \in Seq(Byte) : x = left
      BY <1>12
    <2>6. Lacks(x)'
      <3>1. streams'[j].part \o x = sent[j]
        BY ONLY <1>14, <2>4, <2>5
      <3>2. buff' \o wire' = x \o After(sent, Len(streams))'
        BY ONLY <1>13, <2>3, <2>5
      <3>3. streams'[Len(streams)'].part \o x = sent'[Len(streams)']
        BY ONLY <1>2, <2>2, <3>1
      <3>4. Len(x) = cursor'
        BY ONLY <2>1, <2>5
      <3> QED BY ONLY <3>2, <3>3, <3>4 DEF Lacks
    <2>7. Streamed(Len(streams) - 1)'
      BY <1>17, <2>2 DEF Streamed
    <2>8. ~streams'[Len(streams)'].ended
      BY ONLY <2>2, <2>4
    <2>9. tmp' = <<>>
      BY <1>1, <1>5
    <2>10. Within'
      BY ONLY <2>1, <2>5, <2>6, <2>7, <2>8, <2>9 DEF Within
    <2> QED BY <1>2, <1>4, <2>2, <2>10 DEF StreamLine
  <1> QED BY <1>18, <1>19

\* What is looked at while no stream is under way is the frame of the next message.
LEMMA NextFrame ==
    ASSUME TypeOK, StreamCore, Between, Len(streams) <= Len(sent), buff # <<>>
    PROVE  LET j == Len(streams)
               m == sent[j + 1]
               r == After(sent, j + 1)
           IN  /\ j \in Nat /\ j + 1 \in 1..Len(sent) /\ m \in Messages /\ m \in Sendable
               /\ r \in Seq(Byte)
               /\ tmp \o buff \in Seq(Byte) /\ Seen(m, tmp \o buff, wire, r)
               /\ Seen(m, Prefix, SubSeq(buff, Len(Looked) + 1, Len(buff)) \o wire, r)
  <1> DEFINE j == Len(streams)
             m == sent[j + 1]
             f == Frame(m)
             r == After(sent, j + 1)
             k == Len(Looked)
             x == SubSeq(buff, 1, k)
             y == SubSeq(buff, k + 1, Len(buff))
             tb == tmp \o buff
  <1>1. /\ sent \in Seq(Sendable) /\ sent \in Seq(Messages) /\ Len(sent) \in Nat /\ wire \in Seq(Byte)
        /\ buff \in Seq(Byte) /\ tmp \in Seq(Byte) /\ j \in Nat
    BY SentAre, StreamTypes DEF TypeOK
  <1>2. tmp \o (buff \o wire) = After(sent, j)
    BY DEF Between
  <1>3. j < Len(sent)
    <2> SUFFICES ASSUME j = Len(sent) PROVE FALSE
      BY <1>1
    <2>1. tmp \o (buff \o wire) = <<>>
      BY <1>1, <1>2, AfterAll
    <2>2. buff \o wire \in Seq(Byte) /\ Len(buff \o wire) = Len(buff) + Len(wire)
      BY ONLY <1>1, Joined, Zenon
    <2>3. Len(tmp \o (buff \o wire)) = Len(tmp) + Len(buff \o wire)
      BY ONLY <1>1, <2>2, Joined, Zenon
    <2>4. Len(tmp) \in Nat /\ Len(buff) \in Nat /\ Len(wire) \in Nat /\ Len(<<>>) = 0
      BY <1>1
    <2>5. Len(buff) = 0
      BY <2>1, <2>2, <2>3, <2>4
    <2> QED BY <1>1, <2>5
  <1>4. j \in 0..Len(sent) /\ j + 1 \in 1..Len(sent) /\ j + 1 \in 0..Len(sent)
    BY <1>1, <1>3
  <1>5. m \in Sendable /\ m \in Messages /\ After(sent, j) = f \o r
    BY <1>1, <1>3, <1>4, AfterNext, ElementOfSeq
  <1>6. r \in Seq(Byte) /\ f \in Seq(Byte)
    BY <1>1, <1>4, <1>5, AfterTyped, FrameIs
  <1>7. Looked = x /\ k \in 0..Len(buff)
    BY PrefixIs
  <1> HIDE DEF k
  <1>8. x \in Seq(Byte) /\ y \in Seq(Byte) /\ x \o y = buff
    BY <1>1, <1>7, Split
  <1> HIDE DEF x, y, f, r, m
  <1>9. tb \in Seq(Byte) /\ tb \o wire = f \o r
    <2>1. (tmp \o buff) \o wire = tmp \o (buff \o wire)
      BY ONLY <1>1, Assoc, Zenon
    <2>2. tmp \o buff \in Seq(Byte)
      BY ONLY <1>1, Joined, Zenon
    <2> QED BY ONLY <1>2, <1>5, <2>1, <2>2 DEF tb
  <1>10. Seen(m, tb, wire, r)
    <2> HIDE DEF tb
    <2>1. tb \o wire = Frame(m) \o r
      BY <1>9 DEF f
    <2> QED BY <1>1, <1>5, <1>6, <1>9, <2>1, FrameCut
  <1>11. tmp \o x \in Seq(Byte) /\ y \o wire \in Seq(Byte)
    <2>1. tmp \o x \in Seq(Byte)
      BY ONLY <1>1, <1>8, Joined, Zenon
    <2>2. y \o wire \in Seq(Byte)
      BY ONLY <1>1, <1>8, Joined, Zenon
    <2> QED BY ONLY <2>1, <2>2
  <1>12. (tmp \o x) \o (y \o wire) = f \o r
    <2>1. (x \o y) \o wire = x \o (y \o wire)
      BY ONLY <1>1, <1>8, Assoc, ZenonT(60)
    <2> DEFINE yw == y \o wire
    <2>2. yw \in Seq(Byte)
      BY <1>11
    <2> HIDE DEF yw
    <2>3. (tmp \o x) \o yw = tmp \o (x \o yw)
      BY ONLY <1>1, <1>8, <2>2, Assoc, ZenonT(60)
    <2> QED BY ONLY <1>2, <1>5, <1>8, <2>1, <2>3 DEF yw
  <1>13. Seen(m, tmp \o x, y \o wire, r)
    <2> DEFINE u == tmp \o x
               w == y \o wire
    <2>1. u \in Seq(Byte) /\ w \in Seq(Byte) /\ u \o w = Frame(m) \o r
      BY <1>11, <1>12 DEF f
    <2> HIDE DEF u, w
    <2>2. Seen(m, u, w, r)
      BY <1>5, <1>6, <2>1, FrameCut
    <2> QED BY <2>2 DEF u, w
  <1>14. Prefix = tmp \o x
    BY <1>7 DEF Prefix
  <1>15. Seen(m, Prefix, y \o wire, r)
    BY ONLY <1>13, <1>14
  <1> QED BY <1>1, <1>4, <1>5, <1>6, <1>9, <1>10, <1>15 DEF y, r, m, k

LEMMA StreamLineStart ==
    ASSUME TypeOK, StreamCore, StreamLine, Accepted, StartNewStream, UNCHANGED vars
    PROVE  StreamLine'
  <1> DEFINE j == Len(streams)
             m == sent[j + 1]
             r == After(sent, j + 1)
             p == Len(PrefixOf(Len(m)))
  <1>1. /\ buff # <<>> /\ cursor = 0 /\ SizeLength(Prefix) >= MinPrefix
        /\ UNCHANGED <<sent, corrupt, wire>>
    BY DEF StartNewStream, vars
  <1>2. Between /\ j <= Len(sent)
    BY <1>1 DEF StreamLine, Within
  <1>3. /\ j \in Nat /\ j + 1 \in 1..Len(sent) /\ m \in Messages /\ m \in Sendable /\ r \in Seq(Byte)
        /\ tmp \o buff \in Seq(Byte) /\ Seen(m, tmp \o buff, wire, r)
        /\ Seen(m, Prefix, SubSeq(buff, Len(Looked) + 1, Len(buff)) \o wire, r)
    BY <1>1, <1>2, NextFrame
  <1>4. /\ sent \in Seq(Sendable) /\ Len(sent) \in Nat /\ wire \in Seq(Byte)
        /\ buff \in Seq(Byte) /\ Len(buff) \in Nat /\ tmp \in Seq(Byte) /\ Len(tmp) \in Nat
        /\ streams \in Seq(Begun) /\ MinPrefix \in Nat
    BY SentAre, StreamTypes DEF TypeOK
  <1>5. /\ Prefix \in Seq(Byte) /\ SizeLength(Prefix) \in Nat /\ SizeLength(Prefix) > Len(tmp)
        /\ Len(Prefix) = Len(tmp) + Len(Looked) /\ Len(Looked) \in 0..Len(buff)
    BY <1>1, PrefixIs
  <1>6. m \in Seq(Byte) /\ Len(m) \in Nat /\ Len(m) >= 1 /\ Len(m) <= MaxLength
    BY <1>3, MessagesAre DEF Accepted
  <1> HIDE DEF m, r
  <1>7. /\ p \in Nat /\ (Len(Prefix) < p <=> SizeLength(Prefix) < MinPrefix)
        /\ Len(Prefix) >= p => SizeLength(Prefix) = p /\ Unpacked(Prefix) = {Len(m)}
    BY <1>3 DEF Seen
  <1> HIDE DEF p
  <1>8. Len(Prefix) >= p /\ SizeLength(Prefix) = p /\ Unpacked(Prefix) = {Len(m)}
    BY <1>1, <1>4, <1>5, <1>7
  <1>9. Len(tmp \o buff) = Len(tmp) + Len(buff)
    BY ONLY <1>4, Joined, Zenon
  <1>10. p >= Len(tmp) /\ p <= Len(tmp) + Len(buff) /\ Len(tmp \o buff) >= p
    BY <1>4, <1>5, <1>7, <1>8, <1>9
  <1>11. SubSeq(tmp \o buff, p + 1, Len(tmp \o buff)) \o wire = m \o r
    BY <1>3, <1>10 DEF Seen, p
  <1>12. SubSeq(tmp \o buff, p + 1, Len(tmp \o buff)) = SubSeq(buff, (p - Len(tmp)) + 1, Len(buff))
    BY <1>4, <1>7, <1>10, CutBehind
  <1>13. Drop(buff, Used) \o wire = m \o r
    <2>1. Drop(buff, Used) = SubSeq(buff, (p - Len(tmp)) + 1, Len(buff))
      BY <1>8 DEF Drop, Used
    <2> QED BY ONLY <1>11, <1>12, <2>1
  <1>14. /\ tmp' = <<>> /\ cursor' = Len(m)
         /\ streams' = Append(streams, [part |-> <<>>, ended |-> FALSE])
         /\ buff' = Drop(buff, Used)
    <2>1. PICK size \in Unpacked(Prefix) :
             \/ ~ValidLength(size)
             \/ /\ tmp' = <<>> /\ cursor' = size
                /\ streams' = Append(streams, [part |-> <<>>, ended |-> FALSE])
                /\ buff' = Drop(buff, Used)
      BY DEF StartNewStream
    <2>2. size = Len(m)
      BY <1>8, <2>1
    <2>3. ValidLength(size)
      BY <1>6, <2>2 DEF ValidLength
    <2> QED BY ONLY <2>1, <2>2, <2>3
  <1>15. /\ Len(streams') = j + 1
         /\ \A i \in 1..j : streams'[i] = streams[i]
         /\ streams'[j + 1] = [part |-> <<>>, ended |-> FALSE]
    <2>1. [part |-> <<>>, ended |-> FALSE] \in Begun
      BY DEF Begun
    <2> QED BY <1>4, <1>14, <2>1, AppendProperties
  <1>16. Len(streams)' = j + 1 /\ After(sent, Len(streams))' = r
    BY <1>1, <1>15 DEF After, r
  <1>17. PICK x \in Seq(Byte) : x = m
    BY <1>6
  <1>18. Lacks(x)'
    <2>1. <<>> \o x = x
      BY ConcatEmptySeq
    <2>2. streams'[j + 1].part \o x = sent[j + 1]
      BY ONLY <1>15, <1>17, <2>1 DEF m
    <2>3. streams'[Len(streams)'].part \o x = sent'[Len(streams)']
      BY ONLY <1>1, <1>16, <2>2
    <2>4. buff' \o wire' = x \o After(sent, Len(streams))'
      BY ONLY <1>1, <1>13, <1>14, <1>16, <1>17
    <2>5. Len(x) = cursor'
      BY ONLY <1>14, <1>17
    <2> QED BY ONLY <2>3, <2>4, <2>5 DEF Lacks
  <1>19. Streamed(Len(streams) - 1)'
    <2>1. (j + 1) - 1 = j
      BY <1>3
    <2>2. \A i \in 1..j : streams'[i] = Whole(sent'[i])
      BY <1>1, <1>2, <1>15 DEF Between, Streamed
    <2> QED BY <1>16, <2>1, <2>2 DEF Streamed
  <1>20. cursor' > 0 /\ tmp' = <<>>
    BY <1>6, <1>14
  <1>21. ~streams'[Len(streams)'].ended
    BY <1>15, <1>16
  <1>22. Within'
    BY ONLY <1>17, <1>18, <1>19, <1>20, <1>21 DEF Within
  <1>23. Len(streams)' <= Len(sent')
    BY <1>1, <1>3, <1>16
  <1> QED BY <1>22, <1>23 DEF StreamLine

LEMMA StreamLineKeep ==
    ASSUME TypeOK, StreamCore, StreamLine, Accepted, KeepPrefix, UNCHANGED vars
    PROVE  StreamLine'
  <1> DEFINE j == Len(streams)
             m == sent[j + 1]
             r == After(sent, j + 1)
             k == Len(Looked)
             p == Len(PrefixOf(Len(m)))
  <1>1. /\ buff # <<>> /\ cursor = 0 /\ SizeLength(Prefix) < MinPrefix
        /\ tmp' = IF Len(Prefix) > MaxPrefix THEN tmp ELSE Prefix
        /\ buff' = <<>> /\ UNCHANGED <<cursor, streams>>
        /\ UNCHANGED <<sent, corrupt, wire>>
    BY DEF KeepPrefix, vars
  <1>2. Between /\ j <= Len(sent)
    BY <1>1 DEF StreamLine, Within
  <1>3. /\ m \in Sendable /\ r \in Seq(Byte)
        /\ Seen(m, Prefix, SubSeq(buff, k + 1, Len(buff)) \o wire, r)
    BY <1>1, <1>2, NextFrame
  <1>4. /\ wire \in Seq(Byte) /\ buff \in Seq(Byte) /\ Len(buff) \in Nat
        /\ tmp \in Seq(Byte) /\ Len(tmp) \in Nat /\ MaxPrefix \in Nat
    BY StreamTypes DEF TypeOK
  <1>5. /\ Len(Prefix) = Len(tmp) + k /\ k \in 0..Len(buff) /\ Looked = SubSeq(buff, 1, k)
        /\ k = IF Len(buff) <= MaxPrefix + 1 THEN Len(buff) ELSE MaxPrefix + 1
    BY PrefixIs
  <1> HIDE DEF m, r, k
  <1>6. p \in Nat /\ p <= MaxPrefix /\ (Len(Prefix) < p <=> SizeLength(Prefix) < MinPrefix)
    BY <1>3 DEF Seen
  <1> HIDE DEF p
  <1>7. Len(Prefix) < p
    BY <1>1, <1>6
  <1>8. Len(Prefix) <= MaxPrefix /\ k = Len(buff)
    BY <1>4, <1>5, <1>6, <1>7
  <1>9. Looked = buff
    BY <1>4, <1>5, <1>8, SubSeqFull
  <1>10. tmp' = tmp \o buff
    BY <1>1, <1>4, <1>5, <1>8, <1>9 DEF Prefix
  <1>11. (tmp \o buff) \o wire = tmp \o (buff \o wire)
    BY ONLY <1>4, Assoc, Zenon
  <1>12. <<>> \o wire = wire
    BY <1>4, ConcatEmptySeq
  <1>13. tmp' \o (buff' \o wire') = tmp \o (buff \o wire)
    BY ONLY <1>1, <1>10, <1>11, <1>12
  <1>14. After(sent, Len(streams))' = After(sent, Len(streams))
    BY <1>1 DEF After
  <1>15. Between'
    BY <1>1, <1>2, <1>13, <1>14 DEF Between, Streamed
  <1> QED BY <1>1, <1>2, <1>15 DEF StreamLine

LEMMA StreamLineNext ==
    ASSUME Core, StreamCore, StreamLine, [ProtocolNext]_allVars
    PROVE  StreamLine'
  <1>1. CASE \E m \in Messages : PeerSends(m)
    BY <1>1, StreamLineSends
  <1>2. CASE PeerSendsGarbage
    <2>1. ~Accepted'
      BY <1>2 DEF PeerSendsGarbage, SendGarbage, Accepted
    <2> QED BY <2>1 DEF StreamLine
  <1>3. CASE ReadHandler
    <2> DEFINE n == Head(strand).bytes
    <2>1. /\ SubSeq(wire, 1, n) \o SubSeq(wire, n + 1, Len(wire)) = wire
          /\ wire' = SubSeq(wire, n + 1, Len(wire)) /\ buff' = SubSeq(wire, 1, n)
          /\ phase = "reading" /\ UNCHANGED <<sent, corrupt, tmp, cursor, streams>>
      BY <1>3, HandlerIs
    <2>2. buff = <<>> /\ wire \in Seq(Byte)
      BY <2>1 DEF Core, OneRead, TypeOK
    <2>3. <<>> \o wire = wire
      BY <2>2, ConcatEmptySeq
    <2>4. buff' \o wire' = buff \o wire
      BY ONLY <2>1, <2>2, <2>3
    <2> QED BY <2>1, <2>4, StreamLineKept
  <1>4. CASE StreamLoop
    <2>1. TypeOK /\ StreamStep /\ UNCHANGED vars
      BY <1>4 DEF StreamLoop, Core
    <2>2. Accepted' <=> Accepted
      BY <2>1 DEF Accepted, vars
    <2>3. CASE Accepted
      BY <2>1, <2>3, StreamLineUpdate, StreamLineStart, StreamLineKeep DEF StreamStep
    <2>4. CASE ~Accepted
      BY <2>2, <2>4 DEF StreamLine
    <2> QED BY <2>3, <2>4
  <1>5. CASE UNCHANGED <<sent, corrupt, wire, streamVars>>
    BY <1>5, StreamLineKept DEF streamVars
  <1>6. PeerCloses \/ ReadCompletes \/ ReadFails \/ OnMessage \/ OnNeedRead \/ OnError
        \/ OnReadError \/ CloseTask \/ UNCHANGED allVars
          => UNCHANGED <<sent, corrupt, wire, streamVars>>
    BY DEF PeerCloses, ReadCompletes, ReadFails, OnMessage, CutMessage, OnNeedRead, NeedRead,
           OnError, RefusePrefix, OnReadError, CloseTask, allVars, vars
  <1> QED BY <1>1, <1>2, <1>3, <1>4, <1>5, <1>6 DEF ProtocolNext, Work

\* The lengths of what is left at the end of a piece, for each of the delegates.
Ahead(n) == Len(After(sent, n))

LEMMA MessageAhead ==
    ASSUME Core, Line, Accepted, phase = "reading"
    PROVE  LET d == Len(delivered) IN
           /\ d \in Nat /\ d <= Len(sent) /\ delivered = SubSeq(sent, 1, d)
           /\ unpacked \o wire = After(sent, d)
           /\ Len(wire) <= Ahead(d)
           /\ d < Len(sent) => Len(wire) > Ahead(d + 1)
  <1> DEFINE d == Len(delivered)
             r == After(sent, d)
  <1>1. /\ TypeOK /\ sent \in Seq(Sendable) /\ Len(sent) \in Nat /\ d \in Nat
        /\ unpacked \in Seq(Byte) /\ wire \in Seq(Byte) /\ Len(wire) \in Nat /\ Len(unpacked) \in Nat
    BY SentAre DEF Core, TypeOK
  <1>2. ~corrupt /\ OnLine /\ Trail = <<>>
    BY TrailIs DEF Accepted, Line, Beyond
  <1>3. d <= Len(sent) /\ delivered = SubSeq(sent, 1, d) /\ d \in 0..Len(sent)
    BY <1>1, <1>2 DEF OnLine
  <1>4. r \in Seq(Byte) /\ Len(r) \in Nat
    BY <1>1, <1>3, AfterTyped
  <1>5. unpacked \o wire = r
    <2>1. unpacked \o wire = r \o <<>>
      BY <1>2 DEF OnLine
    <2> HIDE DEF r
    <2>2. r \o <<>> = r
      BY <1>4, ConcatEmptySeq
    <2> QED BY ONLY <2>1, <2>2
  <1>6. Len(unpacked) + Len(wire) = Len(r)
    <2>1. Len(unpacked \o wire) = Len(unpacked) + Len(wire)
      BY ONLY <1>1, Joined, Zenon
    <2> QED BY ONLY <1>5, <2>1
  <1> HIDE DEF r
  <1>7. Len(wire) <= Len(r)
    BY <1>1, <1>4, <1>6
  <1>8. d < Len(sent) => Len(wire) > Len(After(sent, d + 1))
    <2> SUFFICES ASSUME d < Len(sent) PROVE Len(wire) > Len(After(sent, d + 1))
      OBVIOUS
    <2> DEFINE f == Frame(sent[d + 1])
               q == After(sent, d + 1)
    <2>1. d + 1 \in 1..Len(sent) /\ d + 1 \in 0..Len(sent)
      BY <1>1
    <2>2. sent[d + 1] \in Sendable /\ r = f \o q
      BY <1>1, <1>3, AfterNext DEF r
    <2>3. f \in Seq(Byte) /\ q \in Seq(Byte) /\ Len(f) \in Nat /\ Len(q) \in Nat
      <3>1. f \in Seq(Byte)
        BY <2>2, FrameIs
      <3>2. q \in Seq(Byte)
        BY <1>1, <2>1, AfterTyped
      <3> HIDE DEF f, q
      <3> QED BY ONLY <3>1, <3>2
    <2>4. Len(unpacked) < Len(f)
      <3>1. Len(sent[d + 1]) \in Nat /\ Len(sent[d + 1]) <= MaxLength /\ MaxLength \in Nat
        BY <2>1, <2>2, FrameIs, FramingAssumption DEF Accepted
      <3>2. Len(sent[d + 1]) > MaxLength \/ Len(unpacked) < Len(f)
        BY <1>2 DEF Line, WaitsOnlyForBytes
      <3> QED BY <3>1, <3>2
    <2> HIDE DEF f, q
    <2>5. Len(r) = Len(f) + Len(q)
      <3>1. Len(f \o q) = Len(f) + Len(q)
        BY ONLY <2>3, Joined, Zenon
      <3> QED BY ONLY <2>2, <3>1
    <2>6. Len(wire) > Len(q)
      BY <1>1, <1>6, <2>3, <2>4, <2>5
    <2> QED BY <2>6 DEF q
  <1> QED BY <1>1, <1>3, <1>5, <1>7, <1>8 DEF r, Ahead

\* Between streams, the stream delegate waits for the same bytes.
LEMMA BetweenAhead ==
    ASSUME TypeOK, StreamCore, Between, Len(streams) <= Len(sent), buff = <<>>
    PROVE  LET j == Len(streams) IN
           /\ Len(wire) <= Ahead(j)
           /\ j < Len(sent) => Len(wire) > Ahead(j + 1)
  <1> DEFINE j == Len(streams)
             a == After(sent, j)
  <1>1. /\ sent \in Seq(Sendable) /\ Len(sent) \in Nat /\ wire \in Seq(Byte) /\ Len(wire) \in Nat
        /\ tmp \in Seq(Byte) /\ Len(tmp) \in Nat /\ j \in Nat
    BY SentAre, StreamTypes DEF TypeOK
  <1>2. j \in 0..Len(sent)
    BY <1>1
  <1>3. a \in Seq(Byte) /\ Len(a) \in Nat
    BY <1>1, <1>2, AfterTyped
  <1>4. tmp \o wire = a
    <2>1. <<>> \o wire = wire
      BY <1>1, ConcatEmptySeq
    <2>2. tmp \o (buff \o wire) = a
      BY DEF Between
    <2> QED BY ONLY <2>1, <2>2, buff = <<>>
  <1>5. Len(tmp) + Len(wire) = Len(a)
    <2>1. Len(tmp \o wire) = Len(tmp) + Len(wire)
      BY ONLY <1>1, Joined, Zenon
    <2> QED BY ONLY <1>4, <2>1
  <1> HIDE DEF a
  <1>6. Len(wire) <= Len(a)
    BY <1>1, <1>3, <1>5
  <1>7. j < Len(sent) => Len(wire) > Len(After(sent, j + 1))
    <2> SUFFICES ASSUME j < Len(sent) PROVE Len(wire) > Len(After(sent, j + 1))
      OBVIOUS
    <2> DEFINE m == sent[j + 1]
               f == Frame(m)
               q == After(sent, j + 1)
    <2>1. j + 1 \in 0..Len(sent)
      BY <1>1
    <2>2. m \in Sendable /\ a = f \o q
      BY <1>1, <1>2, AfterNext DEF a
    <2>3. f \in Seq(Byte) /\ q \in Seq(Byte) /\ Len(f) \in Nat /\ Len(q) \in Nat
      <3>1. q \in Seq(Byte)
        BY <1>1, <2>1, AfterTyped
      <3>2. f \in Seq(Byte)
        BY <2>2, FrameIs
      <3> HIDE DEF f, q
      <3> QED BY <3>1, <3>2
    <2>4. Seen(m, tmp, wire, q)
      <3> HIDE DEF m, q
      <3>1. tmp \o wire = Frame(m) \o q
        BY ONLY <1>4, <2>2 DEF f
      <3> QED BY <1>1, <2>2, <2>3, <3>1, FrameCut
    <2> HIDE DEF m, q
    <2>5. Len(tmp) < Len(f)
      <3> DEFINE p == Len(PrefixOf(Len(m)))
      <3>1. p \in Nat /\ (Len(tmp) < p <=> SizeLength(tmp) < MinPrefix) /\ Len(f) = p + Len(m)
        BY <2>4 DEF Seen
      <3>2. Len(m) \in Nat
        BY <2>2, FrameIs
      <3>3. SizeLength(tmp) < MinPrefix
        BY DEF StreamCore
      <3> HIDE DEF p, f
      <3> QED BY <1>1, <3>1, <3>2, <3>3
    <2> HIDE DEF f
    <2>6. Len(a) = Len(f) + Len(q)
      <3>1. Len(f \o q) = Len(f) + Len(q)
        BY ONLY <2>3, Joined, Zenon
      <3> QED BY ONLY <2>2, <3>1
    <2>7. Len(wire) > Len(q)
      BY <1>1, <1>5, <2>3, <2>5, <2>6
    <2> QED BY <2>7 DEF q
  <1> QED BY <1>6, <1>7 DEF a, Ahead

\* Within a stream, it waits for the rest of the message.
LEMMA WithinAhead ==
    ASSUME TypeOK, StreamCore, Within, Len(streams) <= Len(sent), buff = <<>>,
           NEW rest \in Seq(Byte), Lacks(rest)
    PROVE  LET j == Len(streams)
               m == sent[j]
           IN  /\ j \in 1..Len(sent) /\ m \in Sendable
               /\ After(sent, j) \in Seq(Byte) /\ wire = rest \o After(sent, j)
               /\ streams[j].part \in Seq(Byte)
               /\ After(sent, j - 1) = Frame(m) \o After(sent, j)
               /\ Len(wire) <= Ahead(j - 1) /\ Len(wire) > Ahead(j)
  <1> DEFINE j == Len(streams)
             m == sent[j]
             f == Frame(m)
             q == After(sent, j)
             p == streams[j].part
  <1>1. /\ sent \in Seq(Sendable) /\ Len(sent) \in Nat /\ wire \in Seq(Byte) /\ Len(wire) \in Nat
        /\ streams \in Seq(Begun) /\ j \in Nat
    BY SentAre, StreamTypes DEF TypeOK
  <1>2. cursor > 0 /\ streams # <<>>
    BY DEF Within, StreamCore
  <1>3. j \in 1..Len(sent) /\ j - 1 \in 0..Len(sent) /\ j - 1 < Len(sent) /\ (j - 1) + 1 = j /\ j \in 0..Len(sent)
    <2>1. j >= 1
      BY <1>1, <1>2
    <2> QED BY <1>1, <2>1
  <1>4. m \in Sendable /\ After(sent, j - 1) = f \o q
    <2> DEFINE i == j - 1
    <2>1. i \in 0..Len(sent) /\ i < Len(sent) /\ i + 1 = j
      BY <1>3
    <2> HIDE DEF i
    <2>2. sent[i + 1] \in Sendable /\ After(sent, i) = Frame(sent[i + 1]) \o After(sent, i + 1)
      BY <1>1, <2>1, AfterNext
    <2> QED BY <2>1, <2>2 DEF i
  <1>5. q \in Seq(Byte) /\ f \in Seq(Byte) /\ Len(f) >= Len(m) /\ Len(m) \in Nat /\ Len(f) \in Nat /\ Len(q) \in Nat
    <2>1. q \in Seq(Byte)
      BY <1>1, <1>3, AfterTyped
    <2>2. /\ f \in Seq(Byte) /\ Len(m) \in Nat /\ Len(PrefixOf(Len(m))) \in Nat
          /\ Len(f) = Len(PrefixOf(Len(m))) + Len(m)
      BY <1>4, FrameIs
    <2> HIDE DEF q, f, m
    <2>3. Len(q) \in Nat /\ Len(f) \in Nat
      BY <2>1, <2>2
    <2>4. Len(f) >= Len(m)
      BY ONLY <2>2
    <2> QED BY <2>1, <2>2, <2>3, <2>4
  <1>6. p \in Seq(Byte)
    <2>1. streams[j] \in Begun
      BY <1>1, <1>3, ElementOfSeq
    <2> QED BY <2>1 DEF Begun
  <1>7. Len(rest) = cursor /\ p \o rest = m /\ buff \o wire = rest \o q
    BY DEF Lacks
  <1>8. wire = rest \o q
    <2>1. <<>> \o wire = wire
      BY <1>1, ConcatEmptySeq
    <2> QED BY ONLY <1>7, <2>1, buff = <<>>
  <1> HIDE DEF p, q, f, m
  <1>9. Len(wire) = Len(rest) + Len(q)
    <2>1. Len(rest \o q) = Len(rest) + Len(q)
      BY ONLY <1>5, rest \in Seq(Byte), Joined, Zenon
    <2> QED BY ONLY <1>8, <2>1
  <1>10. Len(m) = Len(p) + Len(rest) /\ Len(p) \in Nat /\ Len(rest) \in Nat
    <2>1. Len(p \o rest) = Len(p) + Len(rest)
      BY ONLY <1>6, rest \in Seq(Byte), Joined, Zenon
    <2>2. Len(p) \in Nat /\ Len(rest) \in Nat
      BY <1>6
    <2> QED BY ONLY <1>7, <2>1, <2>2
  <1>11. Ahead(j - 1) = Len(f) + Len(q)
    <2>1. Len(f \o q) = Len(f) + Len(q)
      BY ONLY <1>5, Joined, Zenon
    <2> QED BY <1>4, <2>1 DEF Ahead
  <1>12. Len(wire) <= Ahead(j - 1)
    BY <1>5, <1>9, <1>10, <1>11
  <1>13. Len(wire) > Len(q)
    BY <1>2, <1>5, <1>7, <1>9
  <1>14. Len(wire) > Ahead(j)
    BY <1>13 DEF q, Ahead
  <1> QED BY <1>3, <1>4, <1>5, <1>6, <1>8, <1>12, <1>14 DEF p, q, f, m

LEMMA AheadOrder ==
    ASSUME TypeOK, NEW i \in 0..Len(sent), NEW k \in 0..Len(sent), i <= k
    PROVE  Ahead(i) \in Nat /\ Ahead(k) \in Nat /\ Ahead(k) <= Ahead(i)
  BY SentAre, AfterShrinks DEF Ahead

\* What one of the delegates waits for, the other does: so many messages are
\* behind both of them.
LEMMA SameMessage ==
    ASSUME TypeOK, NEW i \in 0..Len(sent), NEW k \in 0..Len(sent), NEW w \in Nat,
           w <= Ahead(i), i < Len(sent) => w > Ahead(i + 1),
           w <= Ahead(k), k < Len(sent) => w > Ahead(k + 1)
    PROVE  i = k
  <1>1. Len(sent) \in Nat /\ i \in Nat /\ k \in Nat
    BY SentAre
  <1>2. ~(i < k)
    <2> SUFFICES ASSUME i < k PROVE FALSE
      OBVIOUS
    <2>1. i + 1 \in 0..Len(sent) /\ i + 1 <= k /\ i < Len(sent)
      BY <1>1
    <2>2. Ahead(i + 1) \in Nat /\ Ahead(k) \in Nat /\ Ahead(k) <= Ahead(i + 1)
      BY <2>1, AheadOrder
    <2> QED BY <2>1, <2>2
  <1>3. ~(k < i)
    <2> SUFFICES ASSUME k < i PROVE FALSE
      OBVIOUS
    <2>1. k + 1 \in 0..Len(sent) /\ k + 1 <= i /\ k < Len(sent)
      BY <1>1
    <2>2. Ahead(k + 1) \in Nat /\ Ahead(i) \in Nat /\ Ahead(i) <= Ahead(k + 1)
      BY <2>1, AheadOrder
    <2> QED BY <2>1, <2>2
  <1> QED BY <1>1, <1>2, <1>3

\* At the end of a piece, the streams are the messages delivered, and the last one
\* has begun exactly when its prefix is in the buffer.
LEMMA Together ==
    ASSUME Core, Line, StreamCore, StreamLine, Accepted, phase = "reading"
    PROVE  LET d == Len(delivered)
               j == Len(streams)
           IN  /\ d \in Nat /\ j \in Nat /\ j <= Len(sent) /\ Streamed(d)
               /\ \/ j = d
                  \/ /\ j = d + 1 /\ ~streams[j].ended
                     /\ sent[j] \in Sendable /\ streams[j].part \in Seq(Byte)
                     /\ unpacked = PrefixOf(Len(sent[j])) \o streams[j].part
                     /\ \E rest \in Seq(Byte) : streams[j].part \o rest = sent[j]
  <1> DEFINE d == Len(delivered)
             j == Len(streams)
             u == unpacked
  <1>1. /\ TypeOK /\ sent \in Seq(Sendable) /\ Len(sent) \in Nat
        /\ u \in Seq(Byte) /\ wire \in Seq(Byte) /\ Len(wire) \in Nat
        /\ j \in Nat
    BY SentAre, StreamTypes DEF Core, TypeOK
  <1>2. buff = <<>>
    BY DEF Core, OneRead
  <1>3. j <= Len(sent) /\ (Between \/ Within)
    BY DEF StreamLine
  <1>4. /\ d \in Nat /\ d <= Len(sent) /\ u \o wire = After(sent, d)
        /\ Len(wire) <= Ahead(d) /\ (d < Len(sent) => Len(wire) > Ahead(d + 1))
    BY MessageAhead
  <1>5. d \in 0..Len(sent) /\ j \in 0..Len(sent)
    BY <1>1, <1>3, <1>4
  <1>6. CASE Between
    <2>1. Len(wire) <= Ahead(j) /\ (j < Len(sent) => Len(wire) > Ahead(j + 1))
      BY <1>1, <1>2, <1>3, <1>6, BetweenAhead
    <2>2. d = j
      <3> HIDE DEF d, j
      <3> QED BY <1>1, <1>4, <1>5, <2>1, SameMessage
    <2>3. Streamed(j)
      BY <1>6 DEF Between
    <2> QED BY <1>1, <1>3, <1>4, <2>2, <2>3
  <1>7. CASE Within
    <2>1. PICK rest \in Seq(Byte) : Lacks(rest)
      BY <1>7 DEF Within
    <2> DEFINE m == sent[j]
               q == After(sent, j)
               f == Frame(m)
               h == PrefixOf(Len(m))
               p == streams[j].part
    <2>2. /\ j \in 1..Len(sent) /\ m \in Sendable
          /\ q \in Seq(Byte) /\ wire = rest \o q
          /\ p \in Seq(Byte) /\ After(sent, j - 1) = f \o q
          /\ Len(wire) <= Ahead(j - 1) /\ Len(wire) > Ahead(j)
      BY <1>1, <1>2, <1>3, <1>7, <2>1, WithinAhead
    <2>3. d = j - 1
      <3> DEFINE i == j - 1
      <3>1. i \in 0..Len(sent) /\ i + 1 = j
        BY <1>1, <2>2
      <3>2. Len(wire) <= Ahead(i) /\ (i < Len(sent) => Len(wire) > Ahead(i + 1))
        BY <2>2, <3>1
      <3> HIDE DEF i, d, j
      <3>3. d = i
        BY <1>1, <1>4, <1>5, <3>1, <3>2, SameMessage
      <3> QED BY <3>3 DEF i
    <2>4. Streamed(d)
      BY <1>7, <2>3 DEF Within
    <2>5. /\ h \in Seq(Byte) /\ m \in Seq(Byte) /\ f \in Seq(Byte) /\ f = h \o m
      BY <2>2, FrameIs
    <2>6. p \o rest = m
      BY <2>1 DEF Lacks
    <2>7. u \o wire = f \o q
      BY <1>4, <2>2, <2>3
    <2> HIDE DEF q, f, h, p, m
    <2>8. u \o rest = f
      <3>1. (u \o rest) \o q = u \o (rest \o q)
        BY ONLY <1>1, <2>1, <2>2, Assoc, Zenon
      <3>2. (u \o rest) \o q = f \o q
        BY ONLY <2>2, <2>7, <3>1
      <3> DEFINE ur == u \o rest
      <3>3. ur \in Seq(Byte)
        BY ONLY <1>1, <2>1, Joined, Zenon
      <3>4. ur \o q = f \o q
        BY <3>2
      <3>5. f \in Seq(Byte) /\ q \in Seq(Byte)
        BY <2>2, <2>5
      <3> HIDE DEF ur
      <3>6. ur = f
        BY ONLY <3>3, <3>4, <3>5, CancelRight
      <3> QED BY <3>6 DEF ur
    <2>9. u = h \o p
      <3>1. (h \o p) \o rest = h \o (p \o rest)
        BY ONLY <2>1, <2>2, <2>5, Assoc, ZenonT(60)
      <3>2. u \o rest = (h \o p) \o rest
        BY ONLY <2>5, <2>6, <2>8, <3>1
      <3> DEFINE hp == h \o p
      <3>3. hp \in Seq(Byte)
        BY ONLY <2>2, <2>5, Joined, Zenon
      <3>4. u \o rest = hp \o rest
        BY <3>2
      <3>5. u \in Seq(Byte) /\ rest \in Seq(Byte)
        BY <1>1, <2>1
      <3> HIDE DEF hp, u
      <3>6. u = hp
        BY ONLY <3>3, <3>4, <3>5, CancelRight
      <3> QED BY <3>6 DEF hp
    <2>10. j = d + 1
      BY <1>1, <1>4, <2>3
    <2>11. ~streams[j].ended
      BY <1>7 DEF Within
    <2>12. \E x \in Seq(Byte) : p \o x = m
      BY <2>1, <2>6
    <2> QED BY <1>1, <1>3, <1>4, <2>2, <2>4, <2>9, <2>10, <2>11, <2>12 DEF p, m, h
  <1> QED BY <1>3, <1>6, <1>7

LEMMA SuffixIs ==
    ASSUME NEW h \in Seq(Byte), NEW p \in Seq(Byte)
    PROVE  IsSuffix(p, h \o p)
  <1> DEFINE u == h \o p
             a == Reverse(p)
             b == Reverse(u)
             n == Len(p)
  <1>1. /\ u \in Seq(Byte) /\ Len(u) = Len(h) + n /\ Len(h) \in Nat /\ n \in Nat
        /\ \A i \in 1..(Len(h) + n) : u[i] = IF i <= Len(h) THEN h[i] ELSE p[i - Len(h)]
    BY ConcatProperties
  <1>2. \A i \in 1..n : p[i] \in Byte
    BY ElementOfSeq
  <1>3. \A i \in 1..Len(u) : u[i] \in Byte
    BY <1>1, ElementOfSeq
  <1> HIDE DEF u
  <1>4. /\ a \in Seq(Byte) /\ Len(a) = n
        /\ \A i \in 1..n : a[i] = p[(n - i) + 1]
    <2>1. \A i \in 1..n : (n - i) + 1 \in 1..n
      BY <1>1
    <2>2. a = [i \in 1..n |-> p[(n - i) + 1]]
      BY DEF Reverse
    <2>3. \A i \in 1..n : p[(n - i) + 1] \in Byte
      BY <1>2, <2>1
    <2> HIDE DEF a, n
    <2>4. a \in [1..n -> Byte]
      BY ONLY <2>2, <2>3
    <2>5. \A i \in 1..n : a[i] = p[(n - i) + 1]
      BY ONLY <2>2
    <2> QED BY ONLY <1>1, <2>4, <2>5
  <1>5. /\ b \in Seq(Byte) /\ Len(b) = Len(u)
        /\ \A i \in 1..Len(u) : b[i] = u[(Len(u) - i) + 1]
    <2>1. Len(u) \in Nat /\ \A i \in 1..Len(u) : (Len(u) - i) + 1 \in 1..Len(u)
      BY <1>1
    <2>2. b = [i \in 1..Len(u) |-> u[(Len(u) - i) + 1]]
      BY DEF Reverse
    <2>3. \A i \in 1..Len(u) : u[(Len(u) - i) + 1] \in Byte
      BY <1>3, <2>1
    <2> HIDE DEF b
    <2> QED BY <2>1, <2>2, <2>3
  <1> HIDE DEF a, b
  <1>6. \A i \in 1..n : a[i] = b[i]
    <2> SUFFICES ASSUME NEW i \in 1..n PROVE a[i] = b[i]
      OBVIOUS
    <2>1. i \in 1..Len(u) /\ (Len(u) - i) + 1 \in 1..(Len(h) + n)
          /\ ((Len(u) - i) + 1) - Len(h) = (n - i) + 1 /\ ~((Len(u) - i) + 1 <= Len(h))
      BY <1>1
    <2>2. b[i] = p[(n - i) + 1]
      BY <1>1, <1>5, <2>1
    <2> QED BY <1>4, <2>2
  <1>7. SubSeq(a, 1, Len(a)) = a
    BY <1>4, SubSeqFull
  <1>8. SubSeq(b, 1, n) = a
    <2> DEFINE c == SubSeq(b, 1, n)
    <2>1. n \in 0..Len(b)
      BY <1>1, <1>5
    <2>2. \A i \in 1..n : i \in 1..Len(b) /\ b[i] \in Byte
      BY <1>5, <2>1, ElementOfSeq
    <2> HIDE DEF n
    <2>3. c \in Seq(Byte) /\ Len(c) = n /\ \A i \in 1..n : c[i] = b[i]
      BY <1>1, <2>2, SubSeqProperties
    <2> HIDE DEF c
    <2>4. c = a
      BY <1>4, <1>6, <2>3, SeqEqual
    <2> QED BY <2>4 DEF c
  <1>9. Len(a) <= Len(b)
    BY <1>1, <1>4, <1>5
  <1>10. IsPrefix(a, b)
    BY <1>4, <1>7, <1>8, <1>9 DEF IsPrefix
  <1> QED BY <1>10 DEF IsSuffix, a, b, u

LEMMA StepsTogether ==
    ASSUME Core, Line, StreamCore, StreamLine
    PROVE  InStep
  <1> SUFFICES ASSUME phase = "reading", Accepted PROVE InStep
    BY DEF InStep, Accepted
  <1> DEFINE d == Len(delivered)
             j == Len(streams)
             u == unpacked
             bytes == [i \in 1..j |-> streams[i].part]
             whole == SubSeq(bytes, 1, d)
  <1>1. /\ TypeOK /\ sent \in Seq(Sendable) /\ Len(sent) \in Nat /\ delivered \in Seq(Seq(Byte))
        /\ u \in Seq(Byte) /\ streams \in Seq(Begun)
    BY SentAre, StreamTypes DEF Core, TypeOK
  <1>2. /\ d \in Nat /\ j \in Nat /\ j <= Len(sent) /\ Streamed(d)
        /\ j = d \/ j = d + 1
    BY Together
  <1>3. delivered = SubSeq(sent, 1, d) /\ d <= Len(sent)
    BY MessageAhead
  <1>4. \A i \in 1..j : streams[i] \in Begun /\ streams[i].part \in Seq(Byte)
    <2>1. \A i \in 1..j : streams[i] \in Begun
      BY <1>1, ElementOfSeq
    <2> QED BY <2>1 DEF Begun
  <1>5. bytes \in Seq(Seq(Byte)) /\ Len(bytes) = j /\ \A i \in 1..j : bytes[i] = streams[i].part
    BY <1>2, <1>4
  <1>6. \A i \in 1..d : i \in 1..j /\ i \in 1..Len(sent)
    BY <1>1, <1>2, <1>3
  <1>7. \A i \in 1..d : streams[i].part = sent[i] /\ streams[i].ended = TRUE
    <2> SUFFICES ASSUME NEW i \in 1..d PROVE streams[i].part = sent[i] /\ streams[i].ended = TRUE
      OBVIOUS
    <2>1. streams[i] = [part |-> sent[i], ended |-> TRUE]
      BY <1>2 DEF Streamed, Whole
    <2> QED BY ONLY <2>1
  <1> HIDE DEF bytes
  <1>8. whole = delivered
    <2>1. \A i \in 1..d : bytes[i] \in Seq(Byte)
      BY <1>4, <1>5, <1>6
    <2>2. whole \in Seq(Seq(Byte)) /\ Len(whole) = d /\ \A i \in 1..d : whole[i] = bytes[i]
      BY <1>2, <2>1, SubSeqProperties
    <2>3. \A i \in 1..d : delivered[i] = sent[i]
      <3> DEFINE s == SubSeq(sent, 1, d)
      <3>1. \A i \in 1..d : sent[i] \in Sendable
        BY <1>1, <1>6, ElementOfSeq
      <3>2. \A i \in 1..d : s[i] = sent[i]
        BY <1>2, <3>1, SubSeqProperties
      <3> HIDE DEF s
      <3>3. delivered = s
        BY <1>3 DEF s
      <3> QED BY <3>2, <3>3
    <2>4. \A i \in 1..d : whole[i] = delivered[i]
      BY <1>5, <1>6, <1>7, <2>2, <2>3
    <2> HIDE DEF whole
    <2> QED BY <1>1, <2>2, <2>4, SeqEqual
  <1>9. \A i \in 1..j : streams[i].ended = (i <= d)
    <2> SUFFICES ASSUME NEW i \in 1..j PROVE streams[i].ended = (i <= d)
      OBVIOUS
    <2>1. CASE i <= d
      <3>1. i \in 1..d
        BY <2>1
      <3>2. streams[i].ended = TRUE
        BY <1>7, <3>1
      <3> QED BY <2>1, <3>2
    <2>2. CASE ~(i <= d)
      <3>1. i = j /\ j = d + 1
        BY <1>2, <2>2
      <3>2. ~streams[j].ended
        <4>1. j # d
          BY <1>2, <3>1
        <4> QED BY <4>1, Together
      <3>3. streams[i].ended \in BOOLEAN
        <4>1. streams[i] \in Begun
          BY <1>1, ElementOfSeq
        <4> QED BY <4>1 DEF Begun
      <3>4. (i <= d) = FALSE
        BY <2>2
      <3> QED BY <3>1, <3>2, <3>3, <3>4
    <2> QED BY <2>1, <2>2
  <1>10. j > d => u = SubSeq(Frame(sent[j]), 1, Len(u)) /\ IsSuffix(Last(bytes), u)
    <2> SUFFICES ASSUME j > d
                 PROVE  u = SubSeq(Frame(sent[j]), 1, Len(u)) /\ IsSuffix(Last(bytes), u)
      OBVIOUS
    <2> DEFINE m == sent[j]
               h == PrefixOf(Len(m))
               p == streams[j].part
               f == Frame(m)
    <2>1. j # d
      BY <1>2
    <2>2. /\ m \in Sendable /\ p \in Seq(Byte) /\ u = h \o p
          /\ \E rest \in Seq(Byte) : p \o rest = m
      BY <2>1, Together
    <2>3. PICK rest \in Seq(Byte) : p \o rest = m
      BY <2>2
    <2>4. h \in Seq(Byte) /\ f \in Seq(Byte) /\ f = h \o m
      BY <2>2, FrameIs
    <2>5. j \in 1..j
      BY <1>2
    <2>6. Last(bytes) = p
      BY <1>5, <2>5 DEF Last
    <2> HIDE DEF h, p, f, m
    <2>7. IsSuffix(p, h \o p)
      BY <2>2, <2>4, SuffixIs
    <2>8. IsSuffix(Last(bytes), u)
      BY ONLY <2>2, <2>6, <2>7
    <2>9. f = u \o rest
      <3>0. h \in Seq(Byte) /\ p \in Seq(Byte)
        BY <2>2, <2>4
      <3>1. (h \o p) \o rest = h \o (p \o rest)
        BY ONLY <3>0, rest \in Seq(Byte), Assoc, Zenon
      <3> QED BY ONLY <2>2, <2>3, <2>4, <3>1
    <2>10. SubSeq(f, 1, Len(u)) = u
      <3> HIDE DEF u
      <3>1. Len(u \o rest) = Len(u) + Len(rest) /\ Len(u) \in Nat /\ Len(rest) \in Nat
        BY <1>1, <2>3, ConcatProperties
      <3>2. f \o <<>> = u \o rest /\ <<>> \in Seq(Byte)
        BY <2>4, <2>9, ConcatEmptySeq
      <3>3. Len(f) >= Len(u)
        BY <2>9, <3>1
      <3>4. u \in Seq(Byte) /\ rest \in Seq(Byte) /\ f \in Seq(Byte)
        BY <1>1, <2>3, <2>4
      <3> QED BY ONLY <3>2, <3>3, <3>4, FrontCut
    <2> QED BY <2>8, <2>10 DEF f, m
  <1> QED BY <1>8, <1>9, <1>10 DEF InStep, bytes

\* Given the same pieces, delegates::message and delegates::stream find the same
\* messages, wherever the pieces are cut: at the end of each piece, the streams that
\* have ended are the messages delivered, and one more has begun exactly when its
\* prefix is there.
THEOREM DelegatesInStep == ProtocolSpec => []InStep
  <1>1. ProtocolInit => Core /\ Line /\ StreamCore /\ StreamLine
    BY CoreInit, LineInit, StreamCoreInit, StreamLineInit
  <1>2. Core /\ Line /\ StreamCore /\ StreamLine /\ [ProtocolNext]_allVars =>
            Core' /\ Line' /\ StreamCore' /\ StreamLine'
    BY CoreNext, LineNext, StreamCoreNext, StreamLineNext
  <1>3. Core /\ Line /\ StreamCore /\ StreamLine => InStep
    BY StepsTogether
  <1> QED BY <1>1, <1>2, <1>3, PTL DEF ProtocolSpec
=============================================================================
