--------------------------- MODULE Signals_proofs ---------------------------
(***************************************************************************)
(* Proofs about what a signal is built from.                                 *)
(*                                                                           *)
(* LinkedList, for any lists and any number of nodes: the pointers spell     *)
(* sequences, each node in one place, whatever is done to the lists.         *)
(*                                                                           *)
(* Observers, for any number of slots: the lists stay in the order of        *)
(* connection, which every search in them relies on; a slot that was         *)
(* unsubscribed is marked for as long as its node is there, so that no       *)
(* emission calls it; and an emission calls all the others, in order.        *)
(*                                                                           *)
(* Subscriptions, for any signals, handles and number of slots: every slot   *)
(* is where its handles look for it, and the guards keep their promise.      *)
(***************************************************************************)
EXTENDS Observers, LinkedList, Subscriptions, FiniteSetTheorems, WellFoundedInduction, TLAPS

----------------------------------------------------------------------------
(* Induction, by the smallest number that is not in a set.                   *)

\* Every set of natural numbers has a smallest one.
LEMMA Smallest ==
    ASSUME NEW T \in SUBSET Nat, T # {}
    PROVE  \E n \in T : \A m \in T : n <= m
  <1> DEFINE R == OpToRel(<, Nat)
  <1>1. IsWellFoundedOn(R, Nat)
    BY NatLessThanWellFounded
  <1>2. \A x, y \in Nat : x < y => <<x, y>> \in R
    BY DEF OpToRel
  <1> HIDE DEF R
  <1>3. PICK n \in T : \A m \in T : <<m, n>> \notin R
    BY <1>1, WFMin
  <1>4. ASSUME NEW m \in T PROVE n <= m
    <2>1. m \in Nat /\ n \in Nat
      OBVIOUS
    <2>2. ~(m < n)
      BY <1>2, <1>3, <2>1, Zenon
    <2> QED BY <2>1, <2>2
  <1> QED BY <1>4

\* A set that has 1, and the successor of what it has up to n, has all up to n.
LEMMA UpTo ==
    ASSUME NEW n \in Nat, NEW S,
           1 \in S, \A i \in 1..n : i \in S /\ i < n => i + 1 \in S
    PROVE  1..n \subseteq S
  <1> DEFINE T == (1..n) \ S
  <1> SUFFICES ASSUME T # {} PROVE FALSE
    OBVIOUS
  <1>1. T \in SUBSET Nat
    OBVIOUS
  <1>2. \E k \in T : \A m \in T : k <= m
    <2> HIDE DEF T
    <2> QED BY <1>1, Smallest
  <1>3. PICK k \in T : \A m \in T : k <= m
    BY <1>2
  <1>4. k \in 1..n /\ k # 1 /\ k \notin S
    BY <1>3
  <1>5. k - 1 \in 1..n /\ k - 1 < n /\ k - 1 \notin T
    BY <1>3, <1>4
  <1>6. k - 1 \in S
    BY <1>5
  <1> QED BY <1>4, <1>5, <1>6

----------------------------------------------------------------------------
(* What a list spells, by places.                                            *)

\* The item in the place i of s, or none before and behind it.
At(s, i) == IF i \in 1..Len(s) THEN s[i] ELSE NULL

LEMMA AtPlace ==
    ASSUME NEW s \in Seq(Nodes), NEW i \in Int
    PROVE  /\ At(s, i) \in Pointers
           /\ At(s, i) # NULL <=> i \in 1..Len(s)
           /\ i \in 1..Len(s) => At(s, i) = s[i] /\ At(s, i) \in Nodes
           /\ Len(s) \in Nat
  <1>1. Len(s) \in Nat /\ \A j \in 1..Len(s) : s[j] \in Nodes
    OBVIOUS
  <1>2. \A n \in Nodes : n # NULL /\ n \in Pointers
    BY DEF Nodes, NULL, Pointers
  <1>3. NULL \in Pointers
    BY DEF Pointers
  <1> QED BY <1>1, <1>2, <1>3 DEF At

LEMMA SameSequence ==
    ASSUME NEW s \in Seq(Nodes), NEW t \in Seq(Nodes), \A i \in Int : At(s, i) = At(t, i)
    PROVE  s = t
  <1>1. Len(s) \in Nat /\ Len(t) \in Nat
    OBVIOUS
  <1>2. \A i \in Int : i \in 1..Len(s) <=> i \in 1..Len(t)
    BY AtPlace
  <1>3. Len(s) = Len(t)
    <2>1. CASE Len(s) = 0
      <3>1. ~(1 \in 1..Len(t))
        BY <1>2, <2>1
      <3> QED BY <1>1, <2>1, <3>1
    <2>2. CASE Len(t) = 0
      <3>1. ~(1 \in 1..Len(s))
        BY <1>2, <2>2
      <3> QED BY <1>1, <2>2, <3>1
    <2>3. CASE Len(s) # 0 /\ Len(t) # 0
      <3>1. Len(s) \in 1..Len(t) /\ Len(t) \in 1..Len(s)
        BY <1>1, <1>2, <2>3
      <3> QED BY <1>1, <3>1
    <2> QED BY <2>1, <2>2, <2>3
  <1>4. \A i \in 1..Len(s) : s[i] = t[i]
    BY <1>1, <1>3, AtPlace
  <1> QED BY <1>3, <1>4

LEMMA AtAppend ==
    ASSUME NEW s \in Seq(Nodes), NEW n \in Nodes
    PROVE  /\ Append(s, n) \in Seq(Nodes)
           /\ Len(Append(s, n)) = Len(s) + 1
           /\ \A i \in Int : At(Append(s, n), i) = IF i = Len(s) + 1 THEN n ELSE At(s, i)
  BY DEF At

LEMMA AtPrepend ==
    ASSUME NEW s \in Seq(Nodes), NEW n \in Nodes
    PROVE  /\ <<n>> \o s \in Seq(Nodes)
           /\ Len(<<n>> \o s) = Len(s) + 1
           /\ \A i \in Int : At(<<n>> \o s, i) = IF i = 1 THEN n ELSE At(s, i - 1)
  <1> DEFINE t == <<n>> \o s
  <1>1. t \in Seq(Nodes) /\ Len(t) = Len(s) + 1 /\ Len(s) \in Nat
    OBVIOUS
  <1>2. \A i \in 1..Len(t) : t[i] = IF i = 1 THEN n ELSE s[i - 1]
    OBVIOUS
  <1> HIDE DEF t
  <1>3. \A i \in Int : At(t, i) = IF i = 1 THEN n ELSE At(s, i - 1)
    BY <1>1, <1>2 DEF At
  <1> QED BY <1>1, <1>3 DEF t

LEMMA AtConcat ==
    ASSUME NEW s \in Seq(Nodes), NEW t \in Seq(Nodes)
    PROVE  /\ s \o t \in Seq(Nodes)
           /\ Len(s \o t) = Len(s) + Len(t)
           /\ \A i \in Int : At(s \o t, i) = IF i <= Len(s) THEN At(s, i) ELSE At(t, i - Len(s))
  <1> DEFINE u == s \o t
  <1>1. u \in Seq(Nodes) /\ Len(u) = Len(s) + Len(t) /\ Len(s) \in Nat /\ Len(t) \in Nat
    OBVIOUS
  <1>2. \A i \in 1..Len(u) : u[i] = IF i <= Len(s) THEN s[i] ELSE t[i - Len(s)]
    OBVIOUS
  <1> HIDE DEF u
  <1>3. \A i \in Int : At(u, i) = IF i <= Len(s) THEN At(s, i) ELSE At(t, i - Len(s))
    BY <1>1, <1>2 DEF At
  <1> QED BY <1>1, <1>3 DEF u

\* What erasing the i-th item leaves.
LEMMA Erased ==
    ASSUME NEW S, NEW s \in Seq(S), NEW i \in 1..Len(s)
    PROVE  /\ RemoveAt(s, i) \in Seq(S)
           /\ Len(RemoveAt(s, i)) = Len(s) - 1
           /\ \A j \in 1..(Len(s) - 1) :
                 RemoveAt(s, i)[j] = IF j < i THEN s[j] ELSE s[j + 1]
  <1> DEFINE a == SubSeq(s, 1, i - 1)
             b == SubSeq(s, i + 1, Len(s))
  <1>0. Len(s) \in Nat /\ i \in Nat /\ 1 <= i /\ i <= Len(s)
    OBVIOUS
  <1>1. a \in Seq(S) /\ Len(a) = i - 1 /\ \A j \in 1..(i - 1) : a[j] = s[j]
    BY <1>0
  <1>2. b \in Seq(S) /\ Len(b) = Len(s) - i /\ \A j \in 1..(Len(s) - i) : b[j] = s[i + j]
    BY <1>0
  <1>3. RemoveAt(s, i) = a \o b
    BY DEF RemoveAt
  <1> HIDE DEF a, b
  <1>4. a \o b \in Seq(S) /\ Len(a \o b) = Len(s) - 1
    <2>0. a \in Seq(S) /\ b \in Seq(S)
      BY <1>1, <1>2
    <2>1. a \o b \in Seq(S) /\ Len(a \o b) = Len(a) + Len(b)
      BY <2>0
    <2>2. (i - 1) + (Len(s) - i) = Len(s) - 1
      BY <1>0
    <2> QED BY <1>1, <1>2, <2>1, <2>2
  <1>5. ASSUME NEW j \in 1..(Len(s) - 1)
        PROVE  (a \o b)[j] = IF j < i THEN s[j] ELSE s[j + 1]
    <2>1. CASE j < i
      BY <1>0, <1>1, <1>2, <2>1
    <2>2. CASE j >= i
      <3>1. j - (i - 1) \in 1..(Len(s) - i) /\ i + (j - (i - 1)) = j + 1
        BY <1>0, <2>2
      <3>2. (a \o b)[j] = b[j - (i - 1)]
        BY <1>0, <1>1, <1>2, <2>2
      <3>3. b[j - (i - 1)] = s[i + (j - (i - 1))]
        BY <1>2, <3>1
      <3>4. ~(j < i)
        BY <1>0, <2>2
      <3> QED BY <3>1, <3>2, <3>3, <3>4
    <2>3. j < i \/ j >= i
      BY <1>0
    <2> QED BY <2>1, <2>2, <2>3
  <1> QED BY <1>3, <1>4, <1>5

LEMMA AtRemoved ==
    ASSUME NEW s \in Seq(Nodes), NEW k \in 1..Len(s)
    PROVE  /\ RemoveAt(s, k) \in Seq(Nodes)
           /\ Len(RemoveAt(s, k)) = Len(s) - 1
           /\ \A i \in Int : At(RemoveAt(s, k), i) = IF i < k THEN At(s, i) ELSE At(s, i + 1)
  <1> DEFINE t == RemoveAt(s, k)
  <1>2. t \in Seq(Nodes) /\ Len(t) = Len(s) - 1 /\ Len(s) \in Nat
    BY Erased
  <1>3. \A i \in 1..Len(t) : t[i] = IF i < k THEN s[i] ELSE s[i + 1]
    BY Erased, <1>2
  <1> HIDE DEF t
  <1>4. \A i \in Int : At(t, i) = IF i < k THEN At(s, i) ELSE At(s, i + 1)
    BY <1>2, <1>3 DEF At
  <1> QED BY <1>2, <1>4 DEF t

LEMMA AtReverse ==
    ASSUME NEW s \in Seq(Nodes)
    PROVE  /\ Reverse(s) \in Seq(Nodes)
           /\ Len(Reverse(s)) = Len(s)
           /\ \A i \in Int : At(Reverse(s), i) = At(s, Len(s) + 1 - i)
  <1> DEFINE t == Reverse(s)
  <1>1. t = [i \in 1..Len(s) |-> s[(Len(s) - i) + 1]]
    BY DEF Reverse
  <1>2. t \in Seq(Nodes) /\ Len(t) = Len(s) /\ Len(s) \in Nat
    BY <1>1
  <1>3. \A i \in 1..Len(t) : t[i] = s[(Len(s) - i) + 1]
    BY <1>1
  <1> HIDE DEF t
  <1>4. \A i \in Int : At(t, i) = At(s, Len(s) + 1 - i)
    BY <1>2, <1>3 DEF At
  <1> QED BY <1>2, <1>4 DEF t

LEMMA AtNone == /\ <<>> \in Seq(Nodes)
                /\ Len(<<>>) = 0
                /\ \A i \in Int : At(<<>>, i) = NULL
  BY DEF At

----------------------------------------------------------------------------
(* What a walk meets.                                                        *)

\* From first on, the links spell s.
Follows(s, first, link) ==
    /\ first = At(s, 1)
    /\ \A i \in Int : At(s, i) # NULL => link[At(s, i)] = At(s, i + 1)

IsMet(at, first, link) ==
    at = [i \in 1..(MaxNodes + 1) |->
            IF i = 1 THEN first
            ELSE IF at[i - 1] = NULL THEN NULL ELSE link[at[i - 1]]]

\* The recursion of Met has one solution: the places of s.
LEMMA MetPlaces ==
    ASSUME NEW s \in Seq(Nodes), NEW first, NEW link, Follows(s, first, link)
    PROVE  Met(first, link) = [i \in 1..(MaxNodes + 1) |-> At(s, i)]
  <1> DEFINE N == MaxNodes + 1
             f == [i \in 1..N |-> At(s, i)]
             g == Met(first, link)
  <1>0. N \in Nat /\ 1 \in 1..N
    BY MaxNodesAssumption
  <1>1. ASSUME NEW i \in 1..N, i # 1
        PROVE  At(s, i) = IF At(s, i - 1) = NULL THEN NULL ELSE link[At(s, i - 1)]
    <2>1. i - 1 \in Int /\ (i - 1) + 1 = i /\ i - 1 > 0 /\ i \in Int
      BY <1>0, <1>1
    <2>2. CASE At(s, i - 1) # NULL
      BY <2>1, <2>2 DEF Follows
    <2>3. CASE At(s, i - 1) = NULL
      <3>1. ~(i - 1 \in 1..Len(s)) /\ Len(s) \in Nat
        BY <2>1, <2>3, AtPlace
      <3>2. ~(i \in 1..Len(s))
        BY <2>1, <3>1
      <3> QED BY <2>1, <2>3, <3>2, AtPlace
    <2> QED BY <2>2, <2>3
  <1>2. IsMet(f, first, link)
    <2> DEFINE h == [i \in 1..N |-> IF i = 1 THEN first
                                    ELSE IF f[i - 1] = NULL THEN NULL ELSE link[f[i - 1]]]
    <2>1. ASSUME NEW i \in 1..N PROVE f[i] = h[i]
      <3>1. CASE i = 1
        BY <3>1 DEF Follows
      <3>2. CASE i # 1
        <4>1. i - 1 \in 1..N
          BY <1>0, <3>2
        <4>2. f[i - 1] = At(s, i - 1) /\ f[i] = At(s, i)
          BY <4>1
        <4>3. h[i] = IF f[i - 1] = NULL THEN NULL ELSE link[f[i - 1]]
          BY <3>2
        <4> QED BY <1>1, <3>2, <4>2, <4>3
      <3> QED BY <3>1, <3>2
    <2>2. f = h
      BY <2>1
    <2> QED BY <2>2 DEF IsMet
  <1>3. IsMet(g, first, link)
    <2>1. g = CHOOSE at : IsMet(at, first, link)
      BY DEF Met, IsMet
    <2> HIDE DEF f, g
    <2> QED BY <1>2, <2>1
  <1> DEFINE Same == {i \in 1..N : g[i] = f[i]}
  <1>4. 1 \in Same
    <2>1. g[1] = first
      BY <1>0, <1>3 DEF IsMet
    <2>2. f[1] = first
      BY <1>0 DEF Follows
    <2> HIDE DEF f, g
    <2> QED BY <1>0, <2>1, <2>2
  <1>5. ASSUME NEW i \in 1..N, i \in Same, i < N PROVE i + 1 \in Same
    <2>1. i + 1 \in 1..N /\ i + 1 # 1 /\ (i + 1) - 1 = i
      BY <1>0, <1>5
    <2>2. g[i + 1] = IF g[i] = NULL THEN NULL ELSE link[g[i]]
      <3> HIDE DEF g
      <3> QED BY <1>3, <2>1 DEF IsMet
    <2>3. f[i + 1] = IF f[i] = NULL THEN NULL ELSE link[f[i]]
      <3> HIDE DEF f
      <3> QED BY <1>2, <2>1 DEF IsMet
    <2> HIDE DEF f, g
    <2> QED BY <1>5, <2>1, <2>2, <2>3
  <1>6. 1..N \subseteq Same
    <2> HIDE DEF Same, N
    <2> QED BY <1>0, <1>4, <1>5, UpTo
  <1>7. \A i \in 1..N : g[i] = f[i]
    BY <1>6
  <1>8. g = [i \in 1..N |-> g[i]]
    <2> DEFINE h == [i \in 1..N |-> IF i = 1 THEN first
                                    ELSE IF g[i - 1] = NULL THEN NULL ELSE link[g[i - 1]]]
    <2>1. g = h
      <3> HIDE DEF g
      <3> QED BY <1>3 DEF IsMet
    <2>2. h = [i \in 1..N |-> h[i]]
      <3> HIDE DEF g
      <3> QED OBVIOUS
    <2> HIDE DEF g, h
    <2> QED BY <2>1, <2>2
  <1>9. f = [i \in 1..N |-> f[i]]
    OBVIOUS
  <1> HIDE DEF g, f, N
  <1>10. g = f
    BY <1>7, <1>8, <1>9
  <1> QED BY <1>10 DEF g, f, N

LEMMA WalkMeets ==
    ASSUME NEW s \in Seq(Nodes), Len(s) <= MaxNodes,
           NEW first, NEW link, Follows(s, first, link)
    PROVE  Walk(first, link) = s
  <1> DEFINE N == MaxNodes + 1
             at == Met(first, link)
             Fits(n) == \A i \in 1..N : at[i] # NULL <=> i <= n
             length == CHOOSE n \in 0..N : Fits(n)
  <1>0. N \in Nat /\ Len(s) \in 0..N /\ Len(s) \in Nat /\ Len(s) < N
    BY MaxNodesAssumption
  <1>1. \A i \in 1..N : at[i] = At(s, i)
    BY MetPlaces
  <1>2. \A i \in 1..N : at[i] # NULL <=> i <= Len(s)
    <2> SUFFICES ASSUME NEW i \in 1..N PROVE at[i] # NULL <=> i <= Len(s)
      OBVIOUS
    <2>1. i \in Int /\ (i \in 1..Len(s) <=> i <= Len(s))
      BY <1>0
    <2> HIDE DEF at
    <2> QED BY <1>1, <2>1, AtPlace
  <1>3. Fits(Len(s))
    BY <1>2
  <1> HIDE DEF at
  <1>4. ASSUME NEW n \in 0..N, Fits(n) PROVE n = Len(s)
    <2>1. CASE n < Len(s)
      <3>1. Len(s) \in 1..N /\ ~(Len(s) <= n)
        BY <1>0, <2>1
      <3> QED BY <1>0, <1>3, <1>4, <3>1
    <2>2. CASE n > Len(s)
      <3>1. n \in 1..N /\ ~(n <= Len(s))
        BY <1>0, <2>2
      <3> QED BY <1>3, <1>4, <3>1
    <2> QED BY <1>0, <2>1, <2>2
  <1>5. length \in 0..N /\ Fits(length)
    <2> HIDE DEF Fits
    <2> QED BY <1>0, <1>3
  <1>6. length = Len(s)
    BY <1>4, <1>5
  <1>7. Walk(first, link) = [i \in 1..length |-> at[i]]
    BY DEF Walk, at
  <1> HIDE DEF length
  <1>8. \A i \in 1..Len(s) : at[i] = s[i]
    BY <1>0, <1>1, AtPlace
  <1>9. Walk(first, link) = [i \in 1..Len(s) |-> s[i]]
    BY <1>6, <1>7, <1>8
  <1>10. s = [i \in 1..Len(s) |-> s[i]]
    OBVIOUS
  <1> QED BY <1>9, <1>10

----------------------------------------------------------------------------
(* The invariant: the pointers are those of the sequences S, and each node is *)
(* in one place of one of them.                                              *)

Ends(S, fr, ba, sz) ==
    \A l \in Lists : fr[l] = At(S[l], 1) /\ ba[l] = At(S[l], Len(S[l])) /\ sz[l] = Len(S[l])

Chained(S, nx, pv) ==
    \A l \in Lists, i \in Int : At(S[l], i) # NULL =>
       nx[At(S[l], i)] = At(S[l], i + 1) /\ pv[At(S[l], i)] = At(S[l], i - 1)

Apart(S) ==
    \A l, m \in Lists, i, j \in Int :
       At(S[l], i) = At(S[m], j) /\ At(S[l], i) # NULL => l = m /\ i = j

Allocated(S, lv) ==
    \A n \in Nodes : n \in lv <=> \E l \in Lists, i \in Int : At(S[l], i) = n

Shown == [l \in Lists |-> Holds(l)]

PointerTypes ==
    /\ live \in SUBSET Nodes
    /\ next \in [Nodes -> Pointers] /\ prev \in [Nodes -> Pointers]
    /\ front \in [Lists -> Pointers] /\ back \in [Lists -> Pointers]
    /\ size \in [Lists -> Nat]
    /\ node \in Pointers

Spelled(S) ==
    /\ S \in [Lists -> Seq(Nodes)]
    /\ Ends(S, front, back, size)
    /\ Chained(S, next, prev)
    /\ Apart(S)
    /\ Allocated(S, live)

ListIInv == PointerTypes /\ Spelled(Shown) /\ IteratorLives

LEMMA OnePlace ==
    ASSUME NEW S, Apart(S), NEW l \in Lists, NEW m \in Lists, NEW i \in Int, NEW j \in Int,
           At(S[l], i) = At(S[m], j), At(S[l], i) # NULL
    PROVE  l = m /\ i = j
  BY DEF Apart

\* A sequence of nodes without repetitions is no longer than there are nodes.
LEMMA NoLonger ==
    ASSUME NEW S \in [Lists -> Seq(Nodes)], Apart(S), NEW l \in Lists
    PROVE  Len(S[l]) <= MaxNodes
  <1> DEFINE s == S[l]
  <1>0. s \in Seq(Nodes) /\ Len(s) \in Nat
    OBVIOUS
  <1>1. \A i, j \in 1..Len(s) : s[i] = s[j] => i = j
    <2> SUFFICES ASSUME NEW i \in 1..Len(s), NEW j \in 1..Len(s), s[i] = s[j] PROVE i = j
      OBVIOUS
    <2>1. i \in Int /\ j \in Int
      OBVIOUS
    <2>2. At(s, i) = s[i] /\ At(s, j) = s[j] /\ At(s, i) # NULL
      <3> HIDE DEF s
      <3> QED BY <1>0, <2>1, AtPlace
    <2> QED BY <2>1, <2>2 DEF Apart
  <1> HIDE DEF s
  <1>2. ASSUME NEW n \in Nat PROVE IsFiniteSet(1..n) /\ Cardinality(1..n) = n
    <2>1. 1 \in Int /\ n \in Int /\ (n - 1) + 1 = n /\ (1 > n => n = 0)
      OBVIOUS
    <2>2. IsFiniteSet(1..n) /\ Cardinality(1..n) = IF 1 > n THEN 0 ELSE (n - 1) + 1
      BY <2>1, FS_Interval
    <2> QED BY <2>1, <2>2
  <1>4. s \in [1..Len(s) -> 1..MaxNodes]
    <2>1. s \in [1..Len(s) -> Nodes]
      BY <1>0
    <2> QED BY <2>1 DEF Nodes
  <1>5. SUFFICES ASSUME MaxNodes < Len(s) PROVE FALSE
    BY <1>0, MaxNodesAssumption DEF s
  <1>6. \E x, y \in 1..Len(s) : x # y /\ s[x] = s[y]
    <2>1. /\ IsFiniteSet(1..MaxNodes) /\ Cardinality(1..MaxNodes) = MaxNodes
          /\ IsFiniteSet(1..Len(s)) /\ Cardinality(1..Len(s)) = Len(s)
      BY <1>0, <1>2, MaxNodesAssumption
    <2>2. Cardinality(1..MaxNodes) < Cardinality(1..Len(s))
      BY <1>5, <2>1
    <2> QED BY <1>4, <2>1, <2>2, FS_PigeonHole, Zenon
  <1> QED BY <1>1, <1>6

\* The walks of both ways meet what the pointers spell.
LEMMA WalksSpell ==
    ASSUME NEW S \in [Lists -> Seq(Nodes)], NEW fr, NEW ba, NEW sz, NEW nx, NEW pv,
           Ends(S, fr, ba, sz), Chained(S, nx, pv), Apart(S), NEW l \in Lists
    PROVE  Walk(fr[l], nx) = S[l] /\ Walk(ba[l], pv) = Reverse(S[l])
  <1> DEFINE s == S[l]
             r == Reverse(s)
  <1>0. s \in Seq(Nodes) /\ Len(s) \in Nat /\ Len(s) <= MaxNodes
    BY NoLonger
  <1>1. Follows(s, fr[l], nx)
    <2>1. fr[l] = At(S[l], 1)
      BY DEF Ends
    <2>2. \A i \in Int : At(S[l], i) # NULL => nx[At(S[l], i)] = At(S[l], i + 1)
      BY DEF Chained
    <2> QED BY <2>1, <2>2, Zenon DEF Follows
  <1>2. Walk(fr[l], nx) = s
    <2> HIDE DEF s
    <2> QED BY <1>0, <1>1, WalkMeets
  <1>3. \A i \in Int : At(s, i) # NULL => pv[At(s, i)] = At(s, i - 1)
    BY Zenon DEF Chained
  <1>4. ba[l] = At(s, Len(s))
    BY DEF Ends
  <1> HIDE DEF s
  <1>5. r \in Seq(Nodes) /\ Len(r) = Len(s) /\ \A i \in Int : At(r, i) = At(s, Len(s) + 1 - i)
    BY <1>0, AtReverse
  <1> HIDE DEF r
  <1>6. Follows(r, ba[l], pv)
    <2>1. At(r, 1) = At(s, Len(s))
      <3>1. Len(s) + 1 - 1 = Len(s)
        BY <1>0
      <3> QED BY <1>5, <3>1
    <2>2. ASSUME NEW i \in Int, At(r, i) # NULL PROVE pv[At(r, i)] = At(r, i + 1)
      <3>1. Len(s) + 1 - i \in Int /\ (Len(s) + 1 - i) - 1 = Len(s) + 1 - (i + 1) /\ i + 1 \in Int
        BY <1>0
      <3>2. At(r, i) = At(s, Len(s) + 1 - i) /\ At(r, i + 1) = At(s, Len(s) + 1 - (i + 1))
        BY <1>5, <3>1
      <3>3. pv[At(s, Len(s) + 1 - i)] = At(s, (Len(s) + 1 - i) - 1)
        BY <1>3, <2>2, <3>1, <3>2
      <3> QED BY <3>1, <3>2, <3>3
    <2> QED BY <1>4, <2>1, <2>2 DEF Follows
  <1>7. Walk(ba[l], pv) = r
    BY <1>0, <1>5, <1>6, WalkMeets
  <1> QED BY <1>2, <1>7 DEF s, r

\* A step that makes the pointers spell S keeps the invariant, and shows S.
LEMMA NowShown ==
    ASSUME NEW S, PointerTypes', IteratorLives',
           S \in [Lists -> Seq(Nodes)],
           Ends(S, front', back', size'), Chained(S, next', prev'),
           Apart(S), Allocated(S, live')
    PROVE  Shown' = S /\ ListIInv'
  <1>1. \A l \in Lists : Walk(front'[l], next') = S[l]
    BY WalksSpell
  <1>2. \A l \in Lists : Holds(l)' = S[l]
    BY <1>1 DEF Holds
  <1>3. Shown' = [l \in Lists |-> S[l]]
    BY <1>2 DEF Shown
  <1>4. Shown' = S
    BY <1>3
  <1> QED BY <1>4 DEF ListIInv, Spelled

\* What the invariant says of the places, and that no node has a place before it
\* is allocated.
LEMMA Places ==
    ASSUME ListIInv
    PROVE  /\ Shown \in [Lists -> Seq(Nodes)]
           /\ \A l \in Lists : Shown[l] \in Seq(Nodes) /\ Len(Shown[l]) \in Nat
           /\ \A l \in Lists, i \in Int :
                 /\ At(Shown[l], i) \in Pointers
                 /\ At(Shown[l], i) # NULL <=> i \in 1..Len(Shown[l])
                 /\ At(Shown[l], i) # NULL => At(Shown[l], i) \in live
  <1>1. Shown \in [Lists -> Seq(Nodes)] /\ Allocated(Shown, live)
    BY DEF ListIInv, Spelled
  <1>2. \A l \in Lists : Shown[l] \in Seq(Nodes)
    BY <1>1
  <1>3. \A l \in Lists : Len(Shown[l]) \in Nat
    BY <1>2
  <1>4. \A l \in Lists, i \in Int :
           /\ At(Shown[l], i) \in Pointers
           /\ At(Shown[l], i) # NULL <=> i \in 1..Len(Shown[l])
    BY <1>2, AtPlace
  <1>5. \A p \in Pointers : p # NULL => p \in Nodes
    BY DEF Pointers
  <1>6. \A l \in Lists, i \in Int : At(Shown[l], i) # NULL => At(Shown[l], i) \in live
    BY <1>1, <1>4, <1>5 DEF Allocated
  <1> QED BY <1>1, <1>2, <1>3, <1>4, <1>6

LEMMA PushBackStep ==
    ASSUME ListIInv, NEW l \in Lists, PushBack(l)
    PROVE  /\ ListIInv'
           /\ \E n \in Nodes \ live : Shown' = [Shown EXCEPT ![l] = Append(@, n)]
  <1>1. PICK n \in Nodes :
           /\ Allocate(n)
           /\ back' = [back EXCEPT ![l] = n]
           /\ size' = [size EXCEPT ![l] = @ + 1]
           /\ IF front[l] = NULL
                THEN /\ front' = [front EXCEPT ![l] = n]
                     /\ next' = [next EXCEPT ![n] = NULL]
                     /\ prev' = [prev EXCEPT ![n] = NULL]
                ELSE /\ next' = [next EXCEPT ![n] = NULL, ![back[l]] = n]
                     /\ prev' = [prev EXCEPT ![n] = back[l]]
                     /\ UNCHANGED front
           /\ UNCHANGED node
    BY DEF PushBack
  <1> DEFINE S == Shown
             s == S[l]
             T == [S EXCEPT ![l] = Append(@, n)]
  <1>2. n \notin live /\ live' = live \cup {n} /\ n # NULL /\ n \in Pointers /\ NULL \in Pointers
    BY <1>1 DEF Allocate, Nodes, NULL, Pointers
  <1>3. /\ T \in [Lists -> Seq(Nodes)]
        /\ \A m \in Lists : Len(T[m]) = IF m = l THEN Len(s) + 1 ELSE Len(S[m])
        /\ \A m \in Lists, i \in Int :
              At(T[m], i) = IF m = l /\ i = Len(s) + 1 THEN n ELSE At(S[m], i)
    <2>1. S \in [Lists -> Seq(Nodes)] /\ s \in Seq(Nodes)
      BY Places
    <2>2. \A m \in Lists : T[m] = IF m = l THEN Append(s, n) ELSE S[m]
      BY <2>1
    <2>3. Append(s, n) \in Seq(Nodes)
      BY <2>1, AtAppend
    <2>4. T \in [Lists -> Seq(Nodes)]
      BY <2>1, <2>3
    <2> HIDE DEF T, S
    <2>5. /\ Len(Append(s, n)) = Len(s) + 1
          /\ \A i \in Int : At(Append(s, n), i) = IF i = Len(s) + 1 THEN n ELSE At(s, i)
      BY <2>1, AtAppend
    <2>6. ASSUME NEW m \in Lists
          PROVE  /\ Len(T[m]) = IF m = l THEN Len(s) + 1 ELSE Len(S[m])
                 /\ \A i \in Int :
                       At(T[m], i) = IF m = l /\ i = Len(s) + 1 THEN n ELSE At(S[m], i)
      BY <2>2, <2>5
    <2> QED BY <2>4, <2>6
  <1>4. /\ \A m \in Lists : Len(S[m]) \in Nat
        /\ \A m \in Lists, i \in Int :
              /\ At(S[m], i) # n /\ At(S[m], i) \in Pointers
              /\ At(S[m], i) # NULL <=> i \in 1..Len(S[m])
    BY <1>2, Places
  <1>5. /\ Ends(S, front, back, size) /\ Chained(S, next, prev) /\ Apart(S) /\ Allocated(S, live)
        /\ PointerTypes /\ IteratorLives
    BY DEF ListIInv, Spelled
  <1>6. front[l] = NULL <=> Len(s) = 0
    <2>1. front[l] = At(s, 1)
      BY <1>5 DEF Ends
    <2> QED BY <1>4, <2>1
  <1>7. back[l] = At(s, Len(s)) /\ size[l] = Len(s)
    BY <1>5 DEF Ends
  <1>8. PointerTypes' /\ IteratorLives'
    BY <1>1, <1>2, <1>5 DEF PointerTypes, IteratorLives
  <1> HIDE DEF S, T
  <1>9. Ends(T, front', back', size')
    BY <1>1, <1>2, <1>3, <1>4, <1>5, <1>6, <1>7 DEF Ends, PointerTypes
  <1>10. ASSUME NEW m \in Lists, NEW i \in Int, At(T[m], i) # NULL
         PROVE  next'[At(T[m], i)] = At(T[m], i + 1) /\ prev'[At(T[m], i)] = At(T[m], i - 1)
    <2>1. CASE m = l /\ i = Len(s) + 1
      <3>1. i + 1 \in Int /\ i - 1 \in Int /\ i + 1 # Len(s) + 1 /\ i - 1 # Len(s) + 1
            /\ i - 1 = Len(s) /\ ~(i + 1 \in 1..Len(s))
        BY <1>4, <2>1
      <3>2. At(T[m], i) = n /\ At(T[m], i + 1) = NULL /\ At(T[m], i - 1) = At(s, Len(s))
        BY <1>3, <1>4, <2>1, <3>1
      <3>3. CASE front[l] = NULL
        <4>1. At(s, Len(s)) = NULL
          BY <1>4, <1>6, <3>3
        <4>2. next'[n] = NULL /\ prev'[n] = NULL
          BY <1>1, <1>5, <3>3 DEF PointerTypes
        <4> QED BY <3>2, <4>1, <4>2
      <3>4. CASE front[l] # NULL
        <4>1. back[l] # n
          BY <1>4, <1>7
        <4>2. next'[n] = NULL /\ prev'[n] = back[l]
          BY <1>1, <1>5, <3>4, <4>1 DEF PointerTypes
        <4> QED BY <1>7, <3>2, <4>2
      <3> QED BY <3>3, <3>4
    <2>2. CASE ~(m = l /\ i = Len(s) + 1)
      <3>1. At(T[m], i) = At(S[m], i) /\ At(S[m], i) # NULL /\ At(S[m], i) # n
        BY <1>3, <1>4, <1>10, <2>2
      <3>2. i \in 1..Len(S[m]) /\ At(S[m], i) \in Nodes
        BY <1>4, <3>1 DEF Pointers
      <3>3. next[At(S[m], i)] = At(S[m], i + 1) /\ prev[At(S[m], i)] = At(S[m], i - 1)
        BY <1>5, <3>1 DEF Chained
      <3>4. prev'[At(S[m], i)] = At(S[m], i - 1)
        BY <1>1, <1>5, <3>1, <3>2, <3>3 DEF PointerTypes
      <3>5. At(T[m], i - 1) = At(S[m], i - 1)
        <4>1. i - 1 \in Int /\ ~(m = l /\ i - 1 = Len(s) + 1)
          BY <1>4, <3>2
        <4> QED BY <1>3, <4>1
      <3>6. CASE m = l /\ i = Len(s)
        <4>1. At(S[m], i) = back[l] /\ front[l] # NULL
          BY <1>4, <1>6, <1>7, <3>2, <3>6
        <4>2. next'[back[l]] = n
          BY <1>1, <1>5, <3>2, <4>1 DEF PointerTypes
        <4>3. At(T[m], i + 1) = n
          BY <1>3, <3>6
        <4> QED BY <3>1, <3>4, <3>5, <4>1, <4>2, <4>3
      <3>7. CASE ~(m = l /\ i = Len(s))
        <4>1. At(S[m], i) # back[l] \/ front[l] = NULL
          <5>1. CASE front[l] # NULL
            <6>1. Len(s) \in Int /\ At(s, Len(s)) # NULL
              BY <1>4, <1>6, <5>1
            <6> QED BY <1>5, <1>7, <3>1, <3>7, <6>1 DEF Apart
          <5> QED BY <5>1
        <4>2. next'[At(S[m], i)] = At(S[m], i + 1)
          BY <1>1, <1>5, <3>1, <3>2, <3>3, <4>1 DEF PointerTypes
        <4>3. At(T[m], i + 1) = At(S[m], i + 1)
          <5>1. i + 1 \in Int /\ ~(m = l /\ i + 1 = Len(s) + 1)
            BY <1>4, <3>7
          <5> QED BY <1>3, <5>1
        <4> QED BY <3>1, <3>4, <3>5, <4>2, <4>3
      <3> QED BY <3>6, <3>7
    <2> QED BY <2>1, <2>2
  <1>11. Chained(T, next', prev')
    BY <1>10 DEF Chained
  <1>12. Apart(T)
    <2> SUFFICES ASSUME NEW m \in Lists, NEW k \in Lists, NEW i \in Int, NEW j \in Int,
                        At(T[m], i) = At(T[k], j), At(T[m], i) # NULL
                 PROVE  m = k /\ i = j
      BY DEF Apart
    <2>1. CASE At(T[m], i) = n
      BY <1>3, <1>4, <2>1
    <2>2. CASE At(T[m], i) # n
      <3>1. At(S[m], i) = At(S[k], j) /\ At(S[m], i) # NULL
        BY <1>3, <2>2
      <3>2. Apart(S)
        BY <1>5
      <3> QED BY <3>1, <3>2 DEF Apart
    <2> QED BY <2>1, <2>2
  <1>13. Allocated(T, live')
    <2> SUFFICES ASSUME NEW p \in Nodes
                 PROVE  p \in live' <=> \E m \in Lists, i \in Int : At(T[m], i) = p
      BY DEF Allocated
    <2>1. CASE p = n
      <3>1. At(T[l], Len(s) + 1) = n /\ Len(s) + 1 \in Int
        BY <1>3, <1>4
      <3> QED BY <1>2, <2>1, <3>1
    <2>2. CASE p # n
      <3>1. p \in live' <=> p \in live
        BY <1>2, <2>2
      <3>2. ASSUME NEW m \in Lists, NEW i \in Int
            PROVE  At(T[m], i) = p <=> At(S[m], i) = p
        <4>1. CASE m = l /\ i = Len(s) + 1
          <5>1. At(S[m], i) = NULL /\ At(T[m], i) = n
            BY <1>3, <1>4, <4>1
          <5>2. p # NULL
            BY DEF Nodes, NULL
          <5> QED BY <2>2, <5>1, <5>2
        <4>2. CASE ~(m = l /\ i = Len(s) + 1)
          BY <1>3, <4>2
        <4> QED BY <4>1, <4>2
      <3> QED BY <1>5, <3>1, <3>2 DEF Allocated
    <2> QED BY <2>1, <2>2
  <1>14. Shown' = T /\ ListIInv'
    BY <1>3, <1>8, <1>9, <1>11, <1>12, <1>13, NowShown
  <1> QED BY <1>2, <1>14 DEF S, T

LEMMA PushFrontStep ==
    ASSUME ListIInv, NEW l \in Lists, PushFront(l)
    PROVE  /\ ListIInv'
           /\ \E n \in Nodes \ live : Shown' = [Shown EXCEPT ![l] = <<n>> \o @]
  <1>1. PICK n \in Nodes :
           /\ Allocate(n)
           /\ front' = [front EXCEPT ![l] = n]
           /\ size' = [size EXCEPT ![l] = @ + 1]
           /\ IF front[l] = NULL
                THEN /\ back' = [back EXCEPT ![l] = n]
                     /\ next' = [next EXCEPT ![n] = NULL]
                     /\ prev' = [prev EXCEPT ![n] = NULL]
                ELSE /\ next' = [next EXCEPT ![n] = front[l]]
                     /\ prev' = [prev EXCEPT ![n] = NULL, ![front[l]] = n]
                     /\ UNCHANGED back
           /\ UNCHANGED node
    BY DEF PushFront
  <1> DEFINE S == Shown
             s == S[l]
             T == [S EXCEPT ![l] = <<n>> \o @]
  <1>2. n \notin live /\ live' = live \cup {n} /\ n # NULL /\ n \in Pointers /\ NULL \in Pointers
    BY <1>1 DEF Allocate, Nodes, NULL, Pointers
  <1>3. /\ T \in [Lists -> Seq(Nodes)]
        /\ Len(T[l]) = Len(s) + 1
        /\ At(T[l], 1) = n
        /\ \A i \in Int : i # 1 => At(T[l], i) = At(s, i - 1)
        /\ \A m \in Lists : m # l => T[m] = S[m]
    <2>1. S \in [Lists -> Seq(Nodes)] /\ s \in Seq(Nodes)
      BY Places
    <2>2. /\ <<n>> \o s \in Seq(Nodes)
          /\ Len(<<n>> \o s) = Len(s) + 1
          /\ \A i \in Int : At(<<n>> \o s, i) = IF i = 1 THEN n ELSE At(s, i - 1)
      BY <2>1, AtPrepend
    <2>3. T[l] = <<n>> \o s /\ \A m \in Lists : m # l => T[m] = S[m]
      BY <2>1
    <2>4. T \in [Lists -> Seq(Nodes)]
      BY <2>1, <2>2
    <2> HIDE DEF T, S
    <2> QED BY <2>2, <2>3, <2>4
  <1>4. /\ \A m \in Lists : Len(S[m]) \in Nat
        /\ \A m \in Lists, i \in Int :
              /\ At(S[m], i) # n /\ At(S[m], i) \in Pointers
              /\ At(S[m], i) # NULL <=> i \in 1..Len(S[m])
    BY <1>2, Places
  <1>5. PointerTypes /\ IteratorLives
    BY DEF ListIInv
  <1>6. Ends(S, front, back, size) /\ Chained(S, next, prev)
    BY DEF ListIInv, Spelled
  <1>7. Apart(S)
    BY DEF ListIInv, Spelled
  <1>8. Allocated(S, live)
    BY DEF ListIInv, Spelled
  <1>9. PointerTypes' /\ IteratorLives'
    BY <1>1, <1>2, <1>5 DEF PointerTypes, IteratorLives
  <1>10. front[l] = At(s, 1) /\ back[l] = At(s, Len(s)) /\ size[l] = Len(s)
    BY <1>6 DEF Ends
  <1> HIDE DEF S, T
  <1>11. front[l] = NULL <=> Len(s) = 0
    BY <1>4, <1>10
  <1>12. Ends(T, front', back', size')
    <2>1. ASSUME NEW m \in Lists, m # l
          PROVE  /\ front'[m] = At(T[m], 1) /\ back'[m] = At(T[m], Len(T[m]))
                 /\ size'[m] = Len(T[m])
      BY <1>1, <1>3, <1>5, <1>6, <2>1 DEF Ends, PointerTypes
    <2>2. front'[l] = n /\ size'[l] = Len(s) + 1
      BY <1>1, <1>5, <1>10 DEF PointerTypes
    <2>3. back'[l] = At(T[l], Len(s) + 1)
      <3>1. CASE Len(s) = 0
        BY <1>1, <1>3, <1>5, <1>11, <3>1 DEF PointerTypes
      <3>2. CASE Len(s) # 0
        <4>1. At(T[l], Len(s) + 1) = At(s, Len(s))
          <5>1. Len(s) + 1 \in Int /\ Len(s) + 1 # 1 /\ (Len(s) + 1) - 1 = Len(s)
            BY <1>4, <3>2
          <5> QED BY <1>3, <5>1
        <4> QED BY <1>1, <1>10, <1>11, <3>2, <4>1
      <3> QED BY <3>1, <3>2
    <2> QED BY <1>3, <2>1, <2>2, <2>3 DEF Ends
  <1>13. ASSUME NEW m \in Lists, NEW i \in Int, At(T[m], i) # NULL
         PROVE  next'[At(T[m], i)] = At(T[m], i + 1) /\ prev'[At(T[m], i)] = At(T[m], i - 1)
    <2>1. CASE m = l /\ i = 1
      <3>1. At(T[m], i) = n /\ At(T[m], i + 1) = At(s, 1) /\ At(T[m], i - 1) = NULL
        <4>1. i + 1 = 2 /\ i - 1 = 0 /\ At(T[l], 2) = At(s, 2 - 1) /\ At(T[l], 0) = At(s, 0 - 1)
          BY <1>3, <2>1
        <4>2. At(s, 0 - 1) = NULL /\ 2 - 1 = 1
          BY <1>4
        <4> QED BY <1>3, <2>1, <4>1, <4>2
      <3>2. CASE front[l] = NULL
        BY <1>1, <1>5, <1>10, <3>1, <3>2 DEF PointerTypes
      <3>3. CASE front[l] # NULL
        <4>1. front[l] # n
          BY <1>4, <1>10
        <4>2. next'[n] = front[l] /\ prev'[n] = NULL
          BY <1>1, <1>5, <3>3, <4>1 DEF PointerTypes
        <4> QED BY <1>10, <3>1, <4>2
      <3> QED BY <3>2, <3>3
    <2>2. ASSUME NEW j \in Int, At(S[m], j) # NULL
          PROVE  /\ next'[At(S[m], j)] = At(S[m], j + 1)
                 /\ prev'[At(S[m], j)] = IF m = l /\ j = 1 THEN n ELSE At(S[m], j - 1)
      <3>1. At(S[m], j) \in Nodes /\ At(S[m], j) # n
        BY <1>4, <2>2 DEF Pointers
      <3>2. next[At(S[m], j)] = At(S[m], j + 1) /\ prev[At(S[m], j)] = At(S[m], j - 1)
        BY <1>6, <2>2 DEF Chained
      <3>3. next'[At(S[m], j)] = At(S[m], j + 1)
        BY <1>1, <1>5, <3>1, <3>2 DEF PointerTypes
      <3>4. CASE m = l /\ j = 1
        <4>1. front[l] = At(S[m], j) /\ front[l] # NULL
          BY <1>10, <2>2, <3>4
        <4>2. prev'[front[l]] = n
          BY <1>1, <1>5, <3>1, <4>1 DEF PointerTypes
        <4> QED BY <3>3, <3>4, <4>1, <4>2
      <3>5. CASE ~(m = l /\ j = 1)
        <4>1. At(S[m], j) # front[l]
          BY <1>7, <1>10, <2>2, <3>5 DEF Apart
        <4>2. prev'[At(S[m], j)] = prev[At(S[m], j)]
          BY <1>1, <1>5, <3>1, <4>1 DEF PointerTypes
        <4> QED BY <3>2, <3>3, <3>5, <4>2
      <3> QED BY <3>4, <3>5
    <2>3. CASE m = l /\ i # 1
      <3> DEFINE j == i - 1
      <3>1. j \in Int /\ At(T[m], i) = At(S[m], j) /\ At(S[m], j) # NULL
        BY <1>3, <1>13, <2>3
      <3>2. At(T[m], i + 1) = At(S[m], j + 1)
        <4>1. i # 0
          BY <1>4, <2>3, <3>1
        <4>2. i + 1 \in Int /\ i + 1 # 1 /\ (i + 1) - 1 = j + 1
          BY <4>1
        <4> QED BY <1>3, <2>3, <4>2
      <3>3. At(T[m], i - 1) = IF j = 1 THEN n ELSE At(S[m], j - 1)
        BY <1>3, <2>3
      <3> HIDE DEF j
      <3> QED BY <2>2, <2>3, <3>1, <3>2, <3>3
    <2>4. CASE m # l
      <3>1. T[m] = S[m]
        BY <1>3, <2>4
      <3> QED BY <1>13, <2>2, <2>4, <3>1
    <2> QED BY <2>1, <2>3, <2>4
  <1>14. Chained(T, next', prev')
    BY <1>13 DEF Chained
  <1>15. ASSUME NEW m \in Lists, NEW i \in Int
         PROVE  \/ m = l /\ i = 1 /\ At(T[m], i) = n
                \/ m = l /\ i # 1 /\ At(T[m], i) = At(S[m], i - 1)
                \/ m # l /\ At(T[m], i) = At(S[m], i)
    BY <1>3
  <1>16. Apart(T)
    <2> SUFFICES ASSUME NEW m \in Lists, NEW k \in Lists, NEW i \in Int, NEW j \in Int,
                        At(T[m], i) = At(T[k], j), At(T[m], i) # NULL
                 PROVE  m = k /\ i = j
      BY DEF Apart
    <2>1. CASE At(T[m], i) = n
      <3>1. /\ i - 1 \in Int => At(S[m], i - 1) # n
            /\ j - 1 \in Int => At(S[k], j - 1) # n
            /\ At(S[m], i) # n /\ At(S[k], j) # n
        BY <1>4
      <3>2. m = l /\ i = 1
        BY <1>15, <2>1, <3>1
      <3>3. At(T[k], j) = n
        BY <2>1
      <3>4. k = l /\ j = 1
        BY <1>15, <3>1, <3>3
      <3> QED BY <3>2, <3>4
    <2>2. CASE At(T[m], i) # n
      <3> DEFINE a == IF m = l THEN i - 1 ELSE i
                 b == IF k = l THEN j - 1 ELSE j
      <3>1. At(S[m], a) = At(S[k], b) /\ At(S[m], a) # NULL /\ a \in Int /\ b \in Int
        BY <1>15, <2>2
      <3>2. m = k /\ a = b
        <4> HIDE DEF a, b
        <4> QED BY <1>7, <3>1 DEF Apart
      <3> QED BY <3>2
    <2> QED BY <2>1, <2>2
  <1>17. Allocated(T, live')
    <2> SUFFICES ASSUME NEW p \in Nodes
                 PROVE  p \in live' <=> \E m \in Lists, i \in Int : At(T[m], i) = p
      BY DEF Allocated
    <2>1. CASE p = n
      BY <1>2, <1>3, <2>1
    <2>2. CASE p # n
      <3>1. p \in live' <=> \E m \in Lists, i \in Int : At(S[m], i) = p
        BY <1>2, <1>8, <2>2 DEF Allocated
      <3>2. ASSUME NEW m \in Lists, NEW i \in Int, At(S[m], i) = p
            PROVE  \E j \in Int : At(T[m], j) = p
        <4>1. CASE m = l
          <5>1. p # NULL
            BY DEF Nodes, NULL
          <5>2. i + 1 \in Int /\ i + 1 # 1 /\ (i + 1) - 1 = i
            BY <1>4, <3>2, <5>1
          <5> QED BY <1>3, <3>2, <4>1, <5>2
        <4>2. CASE m # l
          BY <1>3, <3>2, <4>2
        <4> QED BY <4>1, <4>2
      <3>3. ASSUME NEW m \in Lists, NEW i \in Int, At(T[m], i) = p
            PROVE  \E j \in Int : At(S[m], j) = p
        <4>1. i - 1 \in Int
          OBVIOUS
        <4> QED BY <1>15, <2>2, <3>3, <4>1
      <3> QED BY <3>1, <3>2, <3>3
    <2> QED BY <2>1, <2>2
  <1>18. Shown' = T /\ ListIInv'
    BY <1>3, <1>9, <1>12, <1>14, <1>16, <1>17, NowShown
  <1> QED BY <1>2, <1>18 DEF S, T

\* Moving the iterator changes no list.
LEMMA IteratorStep ==
    ASSUME ListIInv, UNCHANGED <<live, next, prev, front, back, size>>,
           node' \in live \cup {NULL}
    PROVE  ListIInv' /\ Shown' = Shown
  <1>1. PointerTypes' /\ IteratorLives'
    BY DEF ListIInv, PointerTypes, IteratorLives, Pointers
  <1>2. Ends(Shown, front', back', size') /\ Chained(Shown, next', prev') /\ Allocated(Shown, live')
    BY DEF ListIInv, Spelled
  <1>3. Apart(Shown) /\ Shown \in [Lists -> Seq(Nodes)]
    BY DEF ListIInv, Spelled
  <1> QED BY <1>1, <1>2, <1>3, NowShown

Links == [Nodes -> Pointers]

\* g is f with the link of n, if there is a node n, turned to target.
Turned(g, f, n, target) ==
    g \in Links /\ \A p \in Nodes : g[p] = IF p = n THEN target ELSE f[p]

LEMMA Relinked ==
    ASSUME NEW f \in Links, NEW n \in Pointers, NEW target \in Pointers
    PROVE  Turned(Relink(f, n, target), f, n, target)
  <1>1. \A p \in Nodes : p # NULL
    BY DEF Nodes, NULL
  <1>2. CASE n = NULL
    BY <1>1, <1>2 DEF Relink, Turned
  <1>3. CASE n # NULL
    BY <1>3 DEF Relink, Turned, Links
  <1> QED BY <1>2, <1>3

\* The node in the place k of the list l is erased, and the iterator goes to one
\* of its neighbours.
LEMMA EraseStep ==
    ASSUME ListIInv, NEW l \in Lists, NEW k \in 1..Len(Shown[l]), node = At(Shown[l], k),
           Cerase(l), node' = next[node] \/ node' = prev[node]
    PROVE  ListIInv' /\ Shown' = [Shown EXCEPT ![l] = RemoveAt(@, k)]
  <1> DEFINE S == Shown
             s == S[l]
             T == [S EXCEPT ![l] = RemoveAt(@, k)]
             \* The old place of what has the place i of m.
             old(m, i) == IF m = l /\ i >= k THEN i + 1 ELSE i
  <1>1. /\ S \in [Lists -> Seq(Nodes)]
        /\ \A m \in Lists : Len(S[m]) \in Nat
        /\ \A m \in Lists, i \in Int :
              /\ At(S[m], i) \in Pointers
              /\ At(S[m], i) # NULL <=> i \in 1..Len(S[m])
              /\ At(S[m], i) # NULL => At(S[m], i) \in live
    BY Places
  <1>2. PointerTypes
    BY DEF ListIInv
  <1>3. Ends(S, front, back, size) /\ Chained(S, next, prev)
    BY DEF ListIInv, Spelled
  <1>4. Apart(S)
    BY DEF ListIInv, Spelled
  <1>5. Allocated(S, live)
    BY DEF ListIInv, Spelled
  <1>6. /\ T \in [Lists -> Seq(Nodes)]
        /\ Len(T[l]) = Len(s) - 1
        /\ \A i \in Int : At(T[l], i) = IF i < k THEN At(s, i) ELSE At(s, i + 1)
        /\ \A m \in Lists : m # l => T[m] = S[m]
    <2>1. s \in Seq(Nodes)
      BY <1>1
    <2>2. /\ RemoveAt(s, k) \in Seq(Nodes)
          /\ Len(RemoveAt(s, k)) = Len(s) - 1
          /\ \A i \in Int : At(RemoveAt(s, k), i) = IF i < k THEN At(s, i) ELSE At(s, i + 1)
      BY <2>1, AtRemoved
    <2>3. T[l] = RemoveAt(s, k) /\ \A m \in Lists : m # l => T[m] = S[m]
      BY <1>1
    <2>4. T \in [Lists -> Seq(Nodes)]
      BY <1>1, <2>2
    <2> HIDE DEF T, S
    <2> QED BY <2>2, <2>3, <2>4
  <1>7. node = At(s, k) /\ k \in Int
    OBVIOUS
  <1> HIDE DEF S, T
  <1>8. node # NULL /\ node \in Nodes /\ k \in 1..Len(s)
    BY <1>1, <1>7 DEF Pointers, S
  <1>9. next[node] = At(s, k + 1) /\ prev[node] = At(s, k - 1)
    BY <1>3, <1>7, <1>8 DEF Chained
  <1>10. At(s, k + 1) # node /\ At(s, k - 1) # node
    <2>1. k + 1 \in Int /\ k - 1 \in Int /\ k + 1 # k /\ k - 1 # k
      BY <1>7
    <2> QED BY <1>4, <1>7, <1>8, <2>1 DEF Apart
  <1>11. /\ next' = Relink(next, At(s, k - 1), At(s, k + 1))
         /\ prev' = Relink(prev, At(s, k + 1), At(s, k - 1))
         /\ back' = [back EXCEPT ![l] = IF @ = node THEN At(s, k - 1) ELSE @]
         /\ front' = [front EXCEPT ![l] = IF @ = node THEN At(s, k + 1) ELSE @]
         /\ live' = live \ {node}
         /\ size' = [size EXCEPT ![l] = @ - 1]
         /\ node' = At(s, k + 1) \/ node' = At(s, k - 1)
    BY <1>9 DEF Cerase
  <1>12. At(s, k - 1) \in Pointers /\ At(s, k + 1) \in Pointers
    BY <1>1, <1>7
  <1>13. /\ next' \in [Nodes -> Pointers] /\ prev' \in [Nodes -> Pointers]
         /\ \A p \in Nodes : /\ next'[p] = IF p = At(s, k - 1) THEN At(s, k + 1) ELSE next[p]
                             /\ prev'[p] = IF p = At(s, k + 1) THEN At(s, k - 1) ELSE prev[p]
    <2>1. next \in [Nodes -> Pointers] /\ prev \in [Nodes -> Pointers]
      BY <1>2 DEF PointerTypes
    <2> DEFINE a == At(s, k - 1)
               b == At(s, k + 1)
    <2>2. a \in Pointers /\ b \in Pointers
      BY <1>12
    <2>3. next' = Relink(next, a, b) /\ prev' = Relink(prev, b, a)
      BY <1>11
    <2> HIDE DEF a, b
    <2>4. next \in Links /\ prev \in Links
      BY <2>1 DEF Links
    <2>5. Turned(next', next, a, b) /\ Turned(prev', prev, b, a)
      BY <2>2, <2>3, <2>4, Relinked
    <2> QED BY <2>5 DEF Turned, Links, a, b
  <1>14. size[l] = Len(s) /\ front[l] = At(s, 1) /\ back[l] = At(s, Len(s))
    BY <1>3 DEF Ends
  <1>15. PointerTypes'
    <2>1. size[l] - 1 \in Nat
      BY <1>1, <1>8, <1>14
    <2> QED BY <1>2, <1>11, <1>12, <1>13, <2>1 DEF PointerTypes
  <1>16. IteratorLives'
    <2>1. At(s, k + 1) \in live \cup {NULL} /\ At(s, k - 1) \in live \cup {NULL}
      BY <1>1, <1>7
    <2> QED BY <1>10, <1>11, <2>1 DEF IteratorLives
  <1>17. Ends(T, front', back', size')
    <2>1. ASSUME NEW m \in Lists, m # l
          PROVE  /\ front'[m] = At(T[m], 1) /\ back'[m] = At(T[m], Len(T[m]))
                 /\ size'[m] = Len(T[m])
      BY <1>2, <1>3, <1>6, <1>11, <2>1 DEF Ends, PointerTypes
    <2>2. size'[l] = Len(T[l])
      BY <1>2, <1>6, <1>11, <1>14 DEF PointerTypes
    <2>3. front'[l] = At(T[l], 1)
      <3>1. front[l] = node <=> k = 1
        <4>1. k = 1 => front[l] = node
          BY <1>7, <1>14
        <4>2. front[l] = node => k = 1
          BY <1>4, <1>7, <1>8, <1>14 DEF Apart
        <4> QED BY <4>1, <4>2
      <3>2. front'[l] = IF k = 1 THEN At(s, k + 1) ELSE At(s, 1)
        BY <1>2, <1>11, <1>14, <3>1 DEF PointerTypes
      <3>3. CASE k = 1
        BY <1>6, <3>2, <3>3
      <3>4. CASE k # 1
        <4>1. 1 < k
          BY <1>8, <3>4
        <4> QED BY <1>6, <3>2, <3>4, <4>1
      <3> QED BY <3>3, <3>4
    <2>4. back'[l] = At(T[l], Len(T[l]))
      <3>0. Len(s) \in Int /\ Len(s) - 1 \in Int /\ (Len(s) - 1) + 1 = Len(s)
        BY <1>1
      <3>1. back[l] = node <=> k = Len(s)
        <4>1. k = Len(s) => back[l] = node
          BY <1>7, <1>14
        <4>2. back[l] = node => k = Len(s)
          BY <1>4, <1>7, <1>8, <1>14, <3>0 DEF Apart
        <4> QED BY <4>1, <4>2
      <3>2. back'[l] = IF k = Len(s) THEN At(s, k - 1) ELSE At(s, Len(s))
        BY <1>2, <1>11, <1>14, <3>1 DEF PointerTypes
      <3>3. At(T[l], Len(T[l])) = IF Len(s) - 1 < k THEN At(s, Len(s) - 1) ELSE At(s, Len(s))
        BY <1>6, <3>0
      <3>4. k = Len(s) <=> Len(s) - 1 < k
        BY <1>8, <3>0
      <3> QED BY <3>2, <3>3, <3>4
    <2> QED BY <2>1, <2>2, <2>3, <2>4 DEF Ends
  <1>18. ASSUME NEW m \in Lists, NEW i \in Int
         PROVE  At(T[m], i) = At(S[m], old(m, i)) /\ old(m, i) \in Int /\ ~(m = l /\ old(m, i) = k)
    <2>1. CASE m = l
      <3>1. old(m, i) = (IF i >= k THEN i + 1 ELSE i) /\ old(m, i) \in Int /\ old(m, i) # k
        BY <1>7, <2>1
      <3>2. At(T[l], i) = IF i < k THEN At(s, i) ELSE At(s, i + 1)
        BY <1>6
      <3>3. At(T[l], i) = At(s, old(m, i))
        BY <1>7, <3>1, <3>2
      <3> QED BY <2>1, <3>1, <3>3
    <2>2. CASE m # l
      BY <1>6, <2>2
    <2> QED BY <2>1, <2>2
  <1>19. ASSUME NEW m \in Lists, NEW i \in Int, At(T[m], i) # NULL
         PROVE  next'[At(T[m], i)] = At(T[m], i + 1) /\ prev'[At(T[m], i)] = At(T[m], i - 1)
    <2> DEFINE j == old(m, i)
               p == At(S[m], j)
    <2>1. At(T[m], i) = p /\ p # NULL /\ j \in Int /\ ~(m = l /\ j = k)
      BY <1>18, <1>19
    <2>2. p \in Nodes
      BY <1>1, <2>1 DEF Pointers
    <2>3. next[p] = At(S[m], j + 1) /\ prev[p] = At(S[m], j - 1)
      BY <1>3, <2>1 DEF Chained
    <2>10. k - 1 \in Int /\ k + 1 \in Int /\ At(S[m], j) # NULL
      BY <1>7, <2>1
    <2>4. p = At(s, k - 1) <=> m = l /\ j = k - 1
      <3>1. ASSUME p = At(s, k - 1) PROVE m = l /\ j = k - 1
        BY ONLY <1>4, <2>1, <2>10, <3>1, m \in Lists, l \in Lists DEF Apart
      <3>2. ASSUME m = l, j = k - 1 PROVE p = At(s, k - 1)
        BY <3>2
      <3> QED BY <3>1, <3>2
    <2>5. p = At(s, k + 1) <=> m = l /\ j = k + 1
      <3>1. ASSUME p = At(s, k + 1) PROVE m = l /\ j = k + 1
        BY ONLY <1>4, <2>1, <2>10, <3>1, m \in Lists, l \in Lists DEF Apart
      <3>2. ASSUME m = l, j = k + 1 PROVE p = At(s, k + 1)
        BY <3>2
      <3> QED BY <3>1, <3>2
    <2>6. next'[p] = IF m = l /\ j = k - 1 THEN At(s, k + 1) ELSE At(S[m], j + 1)
      BY <1>13, <2>2, <2>3, <2>4
    <2>7. prev'[p] = IF m = l /\ j = k + 1 THEN At(s, k - 1) ELSE At(S[m], j - 1)
      BY <1>13, <2>2, <2>3, <2>5
    <2>8. CASE m = l
      <3>1. CASE i < k
        <4>1. j = i
          BY <2>8, <3>1
        <4>2. At(T[m], i - 1) = At(s, i - 1) /\ prev'[p] = At(s, j - 1)
          <5>1. i - 1 \in Int /\ i - 1 < k /\ j # k + 1
            BY <1>7, <3>1, <4>1
          <5> QED BY <1>6, <2>7, <2>8, <4>1, <5>1
        <4>3. next'[p] = At(T[m], i + 1)
          <5>1. CASE i = k - 1
            BY <1>6, <1>7, <2>6, <2>8, <4>1, <5>1
          <5>2. CASE i # k - 1
            <6>1. i + 1 \in Int /\ i + 1 < k
              BY <1>7, <3>1, <5>2
            <6> QED BY <1>6, <2>6, <2>8, <4>1, <5>2, <6>1
          <5> QED BY <5>1, <5>2
        <4> QED BY <2>1, <4>1, <4>2, <4>3
      <3>2. CASE i >= k
        <4>1. j = i + 1 /\ j # k - 1
          BY <1>7, <2>8, <3>2
        <4>2. At(T[m], i + 1) = At(s, j + 1)
          <5>1. i + 1 \in Int /\ ~(i + 1 < k)
            BY <1>7, <3>2
          <5> QED BY <1>6, <2>8, <4>1, <5>1
        <4>3. next'[p] = At(s, j + 1)
          BY <2>6, <2>8, <4>1
        <4>4. prev'[p] = At(T[m], i - 1)
          <5>1. CASE i = k
            <6>1. j = k + 1 /\ i - 1 < k /\ i - 1 \in Int
              BY <1>7, <4>1, <5>1
            <6> QED BY <1>6, <2>7, <2>8, <5>1, <6>1
          <5>2. CASE i # k
            <6>1. j # k + 1 /\ ~(i - 1 < k) /\ i - 1 \in Int /\ (i - 1) + 1 = j - 1
              BY <1>7, <3>2, <4>1, <5>2
            <6> QED BY <1>6, <2>7, <2>8, <6>1
          <5> QED BY <5>1, <5>2
        <4> QED BY <2>1, <4>2, <4>3, <4>4
      <3> QED BY <1>7, <3>1, <3>2
    <2>9. CASE m # l
      <3>1. j = i /\ T[m] = S[m]
        BY <1>6, <2>9
      <3> QED BY <2>1, <2>6, <2>7, <2>9, <3>1
    <2> QED BY <2>8, <2>9
  <1>20. Chained(T, next', prev')
    BY <1>19 DEF Chained
  <1>21. Apart(T)
    <2> SUFFICES ASSUME NEW m \in Lists, NEW n \in Lists, NEW i \in Int, NEW j \in Int,
                        At(T[m], i) = At(T[n], j), At(T[m], i) # NULL
                 PROVE  m = n /\ i = j
      BY DEF Apart
    <2>1. At(S[m], old(m, i)) = At(S[n], old(n, j)) /\ At(S[m], old(m, i)) # NULL
          /\ old(m, i) \in Int /\ old(n, j) \in Int
      BY <1>18
    <2>2. m = n /\ old(m, i) = old(n, j)
      <3> HIDE DEF old
      <3> QED BY <1>4, <2>1 DEF Apart
    <2>3. ASSUME m = n, old(m, i) = old(n, j) PROVE i = j
      <3>1. CASE m = l
        BY <1>7, <2>3, <3>1
      <3>2. CASE m # l
        BY <2>3, <3>2
      <3> QED BY <3>1, <3>2
    <2> HIDE DEF old
    <2> QED BY <2>2, <2>3
  <1>22. Allocated(T, live')
    <2> SUFFICES ASSUME NEW p \in Nodes
                 PROVE  p \in live' <=> \E m \in Lists, i \in Int : At(T[m], i) = p
      BY DEF Allocated
    <2>0. p # NULL
      BY DEF Nodes, NULL
    <2>1. ASSUME p \in live' PROVE \E m \in Lists, i \in Int : At(T[m], i) = p
      <3>1. p \in live /\ p # node
        BY <1>11, <2>1
      <3>2. PICK m \in Lists, j \in Int : At(S[m], j) = p
        BY <1>5, <3>1 DEF Allocated
      <3>3. CASE m = l /\ j > k
        <4>1. j - 1 \in Int /\ ~(j - 1 < k) /\ (j - 1) + 1 = j
          BY <1>7, <3>3
        <4>2. At(T[l], j - 1) = p
          BY <1>6, <3>2, <3>3, <4>1
        <4> QED BY <4>1, <4>2
      <3>4. CASE m = l /\ j < k
        BY <1>6, <3>2, <3>4
      <3>5. CASE m # l
        BY <1>6, <3>2, <3>5
      <3>6. ~(m = l /\ j = k)
        BY <1>7, <3>1, <3>2
      <3> QED BY <1>7, <3>3, <3>4, <3>5, <3>6
    <2>2. ASSUME NEW m \in Lists, NEW i \in Int, At(T[m], i) = p PROVE p \in live'
      <3>1. At(S[m], old(m, i)) = p /\ old(m, i) \in Int /\ ~(m = l /\ old(m, i) = k)
        BY <1>18, <2>2
      <3> HIDE DEF old
      <3>2. p \in live
        BY <1>5, <3>1 DEF Allocated
      <3>3. p # node
        BY <1>4, <1>7, <1>8, <3>1 DEF Apart
      <3> QED BY <1>11, <3>2, <3>3
    <2> QED BY <2>1, <2>2
  <1>23. Shown' = T /\ ListIInv'
    BY <1>6, <1>15, <1>16, <1>17, <1>20, <1>21, <1>22, NowShown
  <1> QED BY <1>23 DEF S, T

----------------------------------------------------------------------------
(* Whole lists.                                                              *)

\* The links of all the nodes but two are as they were: the last node of l leads
\* to the first of m and back, when both have one.
LEMMA SpliceStep ==
    ASSUME ListIInv, NEW l \in Lists, NEW m \in Lists, SpliceBack(l, m)
    PROVE  ListIInv' /\ Shown' = [Shown EXCEPT ![l] = Shown[l] \o Shown[m], ![m] = <<>>]
  <1> DEFINE S == Shown
             s == S[l]
             t == S[m]
             T == [S EXCEPT ![l] = S[l] \o S[m], ![m] = <<>>]
             joined == front[l] # NULL /\ front[m] # NULL
             \* Where the item in the place i of n has come from.
             Came(n, i) ==
                \/ n = l /\ i <= Len(s) /\ At(T[n], i) = At(s, i)
                \/ n = l /\ i > Len(s) /\ At(T[n], i) = At(t, i - Len(s)) /\ i - Len(s) \in Int
                \/ n # l /\ n # m /\ At(T[n], i) = At(S[n], i)
  <1>0. l # m
    BY DEF SpliceBack
  <1>1. /\ S \in [Lists -> Seq(Nodes)]
        /\ \A n \in Lists : Len(S[n]) \in Nat
        /\ \A n \in Lists, i \in Int :
              /\ At(S[n], i) \in Pointers
              /\ At(S[n], i) # NULL <=> i \in 1..Len(S[n])
    BY Places
  <1>2. PointerTypes /\ IteratorLives
    BY DEF ListIInv
  <1>3. Ends(S, front, back, size) /\ Chained(S, next, prev)
    BY DEF ListIInv, Spelled
  <1>4. Apart(S)
    BY DEF ListIInv, Spelled
  <1>5. Allocated(S, live)
    BY DEF ListIInv, Spelled
  <1>6. /\ T \in [Lists -> Seq(Nodes)]
        /\ Len(T[l]) = Len(s) + Len(t)
        /\ \A i \in Int : At(T[l], i) = IF i <= Len(s) THEN At(s, i) ELSE At(t, i - Len(s))
        /\ Len(T[m]) = 0 /\ \A i \in Int : At(T[m], i) = NULL
        /\ \A n \in Lists : n # l /\ n # m => T[n] = S[n]
    <2>1. s \in Seq(Nodes) /\ t \in Seq(Nodes)
      BY <1>1
    <2>2. s \o t \in Seq(Nodes) /\ Len(s \o t) = Len(s) + Len(t)
      BY <2>1, AtConcat
    <2>3. \A i \in Int : At(s \o t, i) = IF i <= Len(s) THEN At(s, i) ELSE At(t, i - Len(s))
      BY <2>1, AtConcat
    <2>4. /\ T[l] = s \o t /\ T[m] = <<>>
          /\ \A n \in Lists : n # l /\ n # m => T[n] = S[n]
      BY <1>0, <1>1
    <2>5. <<>> \in Seq(Nodes)
      OBVIOUS
    <2>6. T \in [Lists -> Seq(Nodes)]
      BY <1>1, <2>2, <2>5
    <2> HIDE DEF T, S
    <2> QED BY <2>2, <2>3, <2>4, <2>6, AtNone
  <1> HIDE DEF S, T
  <1>7. /\ front[l] = At(s, 1) /\ back[l] = At(s, Len(s)) /\ size[l] = Len(s)
        /\ front[m] = At(t, 1) /\ back[m] = At(t, Len(t)) /\ size[m] = Len(t)
    BY <1>3 DEF Ends
  <1>8. (front[l] = NULL <=> Len(s) = 0) /\ (front[m] = NULL <=> Len(t) = 0)
        /\ Len(s) \in Nat /\ Len(t) \in Nat
    BY <1>1, <1>7
  <1>9. /\ front \in [Lists -> Pointers] /\ back \in [Lists -> Pointers]
        /\ size \in [Lists -> Nat]
        /\ next \in [Nodes -> Pointers] /\ prev \in [Nodes -> Pointers]
    BY <1>2 DEF PointerTypes
  <1>10. /\ front' = [front EXCEPT ![l] = IF front[l] = NULL THEN front[m] ELSE front[l],
                                   ![m] = NULL]
         /\ size' = [size EXCEPT ![l] = Len(s) + Len(t), ![m] = 0]
         /\ live' = live /\ node' = node
    BY <1>0, <1>7, <1>9 DEF SpliceBack
  <1>11. back' = [back EXCEPT ![l] = IF joined \/ front[l] = NULL THEN back[m] ELSE back[l],
                              ![m] = NULL]
    BY <1>0, <1>9 DEF SpliceBack
  <1>12. /\ next' = IF joined THEN [next EXCEPT ![back[l]] = front[m]] ELSE next
         /\ prev' = IF joined THEN [prev EXCEPT ![front[m]] = back[l]] ELSE prev
    BY DEF SpliceBack
  <1>13. PointerTypes' /\ IteratorLives'
    <2>0. Len(s) \in Nat /\ Len(t) \in Nat
      BY <1>8
    <2>1. NULL \in Pointers /\ 0 \in Nat /\ Len(s) + Len(t) \in Nat
      <3>1. \A x, y \in Nat : x + y \in Nat
        OBVIOUS
      <3>2. Len(s) + Len(t) \in Nat
        BY <2>0, <3>1, Zenon
      <3> QED BY <3>2 DEF Pointers
    <2>2. front' \in [Lists -> Pointers] /\ back' \in [Lists -> Pointers]
      BY <1>9, <1>10, <1>11, <2>1
    <2>3. size' \in [Lists -> Nat]
      BY <1>9, <1>10, <2>1
    <2>4. next' \in [Nodes -> Pointers] /\ prev' \in [Nodes -> Pointers]
      BY <1>9, <1>12
    <2> QED BY <1>2, <1>10, <2>2, <2>3, <2>4 DEF PointerTypes, IteratorLives
  <1>14. Ends(T, front', back', size')
    <2>1. ASSUME NEW n \in Lists, n # l, n # m
          PROVE  /\ front'[n] = At(T[n], 1) /\ back'[n] = At(T[n], Len(T[n]))
                 /\ size'[n] = Len(T[n])
      BY <1>3, <1>6, <1>9, <1>10, <1>11, <2>1 DEF Ends
    <2>2. front'[m] = At(T[m], 1) /\ back'[m] = At(T[m], Len(T[m])) /\ size'[m] = Len(T[m])
      BY <1>6, <1>9, <1>10, <1>11
    <2>3. size'[l] = Len(T[l])
      BY <1>0, <1>6, <1>9, <1>10
    <2>4. front'[l] = At(T[l], 1)
      <3>1. front'[l] = IF front[l] = NULL THEN front[m] ELSE front[l]
        BY <1>0, <1>9, <1>10
      <3>2. CASE Len(s) = 0
        <4>1. At(T[l], 1) = At(t, 1 - Len(s)) /\ 1 - Len(s) = 1
          BY <1>6, <3>2
        <4> QED BY <1>7, <1>8, <3>1, <3>2, <4>1
      <3>3. CASE Len(s) # 0
        <4>1. 1 <= Len(s)
          BY <1>8, <3>3
        <4> QED BY <1>6, <1>7, <1>8, <3>1, <3>3, <4>1
      <3> QED BY <3>2, <3>3
    <2>5. back'[l] = At(T[l], Len(T[l]))
      <3>1. back'[l] = IF joined \/ front[l] = NULL THEN back[m] ELSE back[l]
        BY <1>0, <1>9, <1>11
      <3>2. CASE Len(t) = 0
        <4>1. Len(s) + Len(t) = Len(s) /\ Len(s) <= Len(s) /\ Len(s) \in Int
          BY <1>8, <3>2
        <4>2. At(T[l], Len(T[l])) = At(s, Len(s))
          BY <1>6, <4>1
        <4>3. back[m] = NULL /\ (Len(s) = 0 => back[l] = NULL)
          BY <1>1, <1>7, <1>8, <3>2
        <4> QED BY <1>7, <1>8, <3>1, <3>2, <4>2, <4>3
      <3>3. CASE Len(t) # 0
        <4>0. Len(s) \in Nat /\ Len(t) \in Nat
          BY <1>8
        <4> DEFINE x == Len(s) + Len(t)
        <4>1. x \in Int /\ ~(x <= Len(s)) /\ x - Len(s) = Len(t) /\ Len(T[l]) = x
          <5> DEFINE u == Len(s)
                     v == Len(t)
          <5>1. u \in Nat /\ v \in Nat /\ v # 0
            BY <3>3, <4>0
          <5> HIDE DEF u, v
          <5>2. u + v \in Int /\ ~(u + v <= u) /\ (u + v) - u = v
            BY <5>1
          <5> USE DEF u, v
          <5>3. Len(T[l]) = x
            BY <1>6
          <5> QED BY <5>2, <5>3
        <4> HIDE DEF x
        <4>2. At(T[l], x) = At(t, Len(t)) /\ Len(T[l]) = x
          BY <1>6, <4>1
        <4> QED BY <1>7, <1>8, <3>1, <3>3, <4>2
      <3> QED BY <3>2, <3>3
    <2> QED BY <2>1, <2>2, <2>3, <2>4, <2>5 DEF Ends
  <1>15. ASSUME NEW n \in Lists, NEW j \in Int, At(S[n], j) # NULL
         PROVE  /\ next'[At(S[n], j)] = IF joined /\ n = l /\ j = Len(s) THEN At(t, 1)
                                        ELSE At(S[n], j + 1)
                /\ prev'[At(S[n], j)] = IF joined /\ n = m /\ j = 1 THEN At(s, Len(s))
                                        ELSE At(S[n], j - 1)
    <2> DEFINE p == At(S[n], j)
    <2>1. p \in Nodes /\ p # NULL
      BY <1>1, <1>15 DEF Pointers
    <2>2. next[p] = At(S[n], j + 1) /\ prev[p] = At(S[n], j - 1)
      BY <1>3, <1>15 DEF Chained
    <2>3. p = back[l] <=> n = l /\ j = Len(s)
      BY <1>4, <1>7, <1>8, <1>15 DEF Apart
    <2>4. p = front[m] <=> n = m /\ j = 1
      BY <1>4, <1>7, <1>8, <1>15 DEF Apart
    <2> HIDE DEF p
    <2>5. next'[p] = IF joined /\ p = back[l] THEN front[m] ELSE next[p]
      BY <1>9, <1>12, <2>1
    <2>6. prev'[p] = IF joined /\ p = front[m] THEN back[l] ELSE prev[p]
      BY <1>9, <1>12, <2>1
    <2>7. /\ next'[p] = IF joined /\ n = l /\ j = Len(s) THEN At(t, 1) ELSE At(S[n], j + 1)
          /\ prev'[p] = IF joined /\ n = m /\ j = 1 THEN At(s, Len(s)) ELSE At(S[n], j - 1)
      BY <1>7, <2>2, <2>3, <2>4, <2>5, <2>6
    <2> QED BY <2>7 DEF p
  <1>16. ASSUME NEW n \in Lists, NEW i \in Int, At(T[n], i) # NULL
         PROVE  next'[At(T[n], i)] = At(T[n], i + 1) /\ prev'[At(T[n], i)] = At(T[n], i - 1)
    <2>0. i + 1 \in Int /\ i - 1 \in Int
      OBVIOUS
    <2>1. CASE n = l /\ i <= Len(s)
      <3>1. At(T[l], i) = At(s, i) /\ i \in 1..Len(s)
        BY <1>1, <1>6, <1>16, <2>1
      <3>2. At(T[l], i - 1) = At(s, i - 1)
        <4>1. i - 1 <= Len(s)
          BY <1>8, <2>1
        <4> QED BY <1>6, <2>0, <4>1
      <3>3. prev'[At(s, i)] = At(s, i - 1)
        BY <1>0, <1>15, <1>16, <2>1, <3>1
      <3>4. CASE i = Len(s)
        <4>1. ~(i + 1 <= Len(s)) /\ (i + 1) - Len(s) = 1
          BY <1>8, <3>4
        <4>2. At(T[l], i + 1) = At(t, 1)
          BY <1>6, <2>0, <4>1
        <4>3. next'[At(s, i)] = IF joined THEN At(t, 1) ELSE At(s, i + 1)
          BY <1>15, <1>16, <2>1, <3>1, <3>4
        <4>4. CASE joined
          BY <2>1, <3>1, <3>2, <3>3, <4>2, <4>3, <4>4
        <4>5. CASE ~joined
          <5>1. Len(s) # 0
            BY <3>1, <3>4
          <5>2. At(t, 1) = NULL
            BY <1>7, <1>8, <4>5, <5>1
          <5>3. At(s, i + 1) = NULL
            BY <1>1, <2>0, <4>1
          <5> QED BY <2>1, <3>1, <3>2, <3>3, <4>2, <4>3, <4>5, <5>2, <5>3
        <4> QED BY <4>4, <4>5
      <3>5. CASE i # Len(s)
        <4>1. i + 1 <= Len(s)
          BY <1>8, <2>1, <3>5
        <4>2. At(T[l], i + 1) = At(s, i + 1)
          BY <1>6, <2>0, <4>1
        <4>3. next'[At(s, i)] = At(s, i + 1)
          BY <1>15, <1>16, <2>1, <3>1, <3>5
        <4> QED BY <2>1, <3>1, <3>2, <3>3, <4>2, <4>3
      <3> QED BY <3>4, <3>5
    <2>2. CASE n = l /\ i > Len(s)
      <3> DEFINE j == i - Len(s)
      <3>1. j \in Int /\ ~(i <= Len(s)) /\ ~(i + 1 <= Len(s)) /\ (i + 1) - Len(s) = j + 1
        BY <1>8, <2>2
      <3>2. At(T[l], i) = At(t, j) /\ At(T[l], i + 1) = At(t, j + 1)
        BY <1>6, <2>0, <3>1
      <3>3. At(t, j) # NULL /\ j \in 1..Len(t)
        BY <1>1, <1>16, <2>2, <3>1, <3>2
      <3>4. next'[At(t, j)] = At(t, j + 1)
        <4> HIDE DEF j
        <4> QED BY <1>0, <1>15, <3>1, <3>3
      <3>5. prev'[At(t, j)] = IF joined /\ j = 1 THEN At(s, Len(s)) ELSE At(t, j - 1)
        <4> HIDE DEF j
        <4> QED BY <1>15, <3>1, <3>3
      <3>6. CASE j = 1
        <4>1. i - 1 = Len(s) /\ Len(s) <= Len(s)
          BY <1>8, <3>6
        <4>2. At(T[l], i - 1) = At(s, Len(s))
          BY <1>6, <2>0, <4>1
        <4>3. CASE joined
          BY <2>2, <3>2, <3>4, <3>5, <3>6, <4>2, <4>3
        <4>4. CASE ~joined
          <5>1. Len(t) # 0
            BY <3>3
          <5>2. At(s, Len(s)) = NULL
            BY <1>1, <1>8, <4>4, <5>1
          <5>3. At(t, j - 1) = NULL
            BY <1>1, <3>6
          <5> QED BY <2>2, <3>2, <3>4, <3>5, <4>2, <4>4, <5>2, <5>3
        <4> QED BY <4>3, <4>4
      <3>7. CASE j # 1
        <4>1. ~(i - 1 <= Len(s)) /\ (i - 1) - Len(s) = j - 1
          BY <1>8, <3>3, <3>7
        <4>2. At(T[l], i - 1) = At(t, j - 1)
          BY <1>6, <2>0, <4>1
        <4> QED BY <2>2, <3>2, <3>4, <3>5, <3>7, <4>2
      <3> QED BY <3>6, <3>7
    <2>3. CASE n # l
      <3>1. n # m /\ T[n] = S[n]
        BY <1>6, <1>16, <2>3
      <3> QED BY <1>15, <1>16, <2>3, <3>1
    <2> QED BY <1>8, <2>1, <2>2, <2>3
  <1>17. Chained(T, next', prev')
    BY <1>16 DEF Chained
  <1>18. ASSUME NEW n \in Lists, NEW i \in Int, At(T[n], i) # NULL
         PROVE  Came(n, i)
    BY <1>6, <1>8, <1>18
  <1>19. Apart(T)
    <2> SUFFICES ASSUME NEW a \in Lists, NEW b \in Lists, NEW i \in Int, NEW j \in Int,
                        At(T[a], i) = At(T[b], j), At(T[a], i) # NULL
                 PROVE  a = b /\ i = j
      BY DEF Apart
    <2>1. Came(a, i) /\ Came(b, j)
      BY <1>18
    <2>2. CASE a = l /\ i <= Len(s)
      BY <1>0, <1>4, <2>1, <2>2 DEF Apart
    <2>3. CASE a = l /\ i > Len(s)
      <3>1. CASE b = l /\ j > Len(s)
        <4>1. i - Len(s) = j - Len(s)
          BY <1>4, <1>8, <2>1, <2>3, <3>1 DEF Apart
        <4> QED BY <1>8, <2>3, <3>1, <4>1
      <3>2. CASE ~(b = l /\ j > Len(s))
        BY <1>0, <1>4, <2>1, <2>3, <3>2 DEF Apart
      <3> QED BY <3>1, <3>2
    <2>4. CASE a # l
      <3>1. a # m /\ At(T[a], i) = At(S[a], i)
        BY <2>1, <2>4
      <3>2. CASE b = l /\ j > Len(s)
        BY <1>4, <2>1, <2>4, <3>1, <3>2 DEF Apart
      <3>3. CASE ~(b = l /\ j > Len(s))
        <4>1. At(T[b], j) = At(S[b], j)
          BY <2>1, <3>3
        <4>2. At(S[a], i) = At(S[b], j) /\ At(S[a], i) # NULL
          BY <3>1, <4>1
        <4> QED BY <1>4, <4>2, OnePlace
      <3> QED BY <3>2, <3>3
    <2>5. i <= Len(s) \/ i > Len(s)
      BY <1>8
    <2> QED BY <2>2, <2>3, <2>4, <2>5
  <1>20. Allocated(T, live')
    <2> SUFFICES ASSUME NEW p \in Nodes
                 PROVE  p \in live <=> \E n \in Lists, i \in Int : At(T[n], i) = p
      BY <1>10 DEF Allocated
    <2>0. p # NULL
      BY DEF Nodes, NULL
    <2>1. ASSUME p \in live PROVE \E n \in Lists, i \in Int : At(T[n], i) = p
      <3>1. PICK n \in Lists, j \in Int : At(S[n], j) = p
        BY <1>5, <2>1 DEF Allocated
      <3>2. j \in 1..Len(S[n])
        BY <1>1, <2>0, <3>1
      <3>3. CASE n = l
        BY <1>6, <3>1, <3>2, <3>3
      <3>4. CASE n = m
        <4>1. j + Len(s) \in Int /\ ~(j + Len(s) <= Len(s)) /\ (j + Len(s)) - Len(s) = j
          BY <1>8, <3>2
        <4>2. At(T[l], j + Len(s)) = p
          BY <1>6, <3>1, <3>4, <4>1
        <4> QED BY <4>1, <4>2
      <3>5. CASE n # l /\ n # m
        BY <1>6, <3>1, <3>5
      <3> QED BY <3>3, <3>4, <3>5
    <2>2. ASSUME NEW n \in Lists, NEW i \in Int, At(T[n], i) = p PROVE p \in live
      BY <1>5, <1>18, <2>0, <2>2 DEF Allocated
    <2> QED BY <2>1, <2>2
  <1>21. Shown' = T /\ ListIInv'
    BY <1>6, <1>13, <1>14, <1>17, <1>19, <1>20, NowShown
  <1> QED BY <1>21 DEF S, T

LEMMA SwapStep ==
    ASSUME ListIInv, NEW l \in Lists, NEW m \in Lists, Swap(l, m)
    PROVE  ListIInv' /\ Shown' = [Shown EXCEPT ![l] = Shown[m], ![m] = Shown[l]]
  <1> DEFINE S == Shown
             T == [S EXCEPT ![l] = S[m], ![m] = S[l]]
             from(n) == IF n = l THEN m ELSE IF n = m THEN l ELSE n
  <1>1. PointerTypes /\ IteratorLives
    BY DEF ListIInv
  <1>2. Ends(S, front, back, size) /\ Chained(S, next, prev)
    BY DEF ListIInv, Spelled
  <1>3. Apart(S)
    BY DEF ListIInv, Spelled
  <1>4. Allocated(S, live)
    BY DEF ListIInv, Spelled
  <1>5. T \in [Lists -> Seq(Nodes)] /\ \A n \in Lists : T[n] = S[from(n)]
    BY Places DEF Swap
  <1>6. \A n \in Lists : from(n) \in Lists /\ from(from(n)) = n
    OBVIOUS
  <1>7. /\ front' = [front EXCEPT ![l] = front[m], ![m] = front[l]]
        /\ back' = [back EXCEPT ![l] = back[m], ![m] = back[l]]
        /\ size' = [size EXCEPT ![l] = size[m], ![m] = size[l]]
        /\ UNCHANGED <<live, next, prev, node>>
    BY DEF Swap
  <1>8. PointerTypes' /\ IteratorLives'
    BY <1>1, <1>7 DEF PointerTypes, IteratorLives
  <1>9. \A n \in Lists : front'[n] = front[from(n)] /\ back'[n] = back[from(n)]
                          /\ size'[n] = size[from(n)]
    BY <1>1, <1>7 DEF PointerTypes
  <1> HIDE DEF S, T, from
  <1>10. Ends(T, front', back', size')
    <2> SUFFICES ASSUME NEW n \in Lists
                 PROVE  /\ front'[n] = At(T[n], 1) /\ back'[n] = At(T[n], Len(T[n]))
                        /\ size'[n] = Len(T[n])
      BY DEF Ends
    <2>1. T[n] = S[from(n)] /\ from(n) \in Lists
      BY <1>5, <1>6
    <2> QED BY <1>2, <1>9, <2>1 DEF Ends
  <1>11. Chained(T, next', prev')
    <2> SUFFICES ASSUME NEW n \in Lists, NEW i \in Int, At(T[n], i) # NULL
                 PROVE  next[At(T[n], i)] = At(T[n], i + 1) /\ prev[At(T[n], i)] = At(T[n], i - 1)
      BY <1>7 DEF Chained
    <2>1. T[n] = S[from(n)] /\ from(n) \in Lists
      BY <1>5, <1>6
    <2> QED BY <1>2, <2>1 DEF Chained
  <1>12. Apart(T)
    <2> SUFFICES ASSUME NEW a \in Lists, NEW b \in Lists, NEW i \in Int, NEW j \in Int,
                        At(T[a], i) = At(T[b], j), At(T[a], i) # NULL
                 PROVE  a = b /\ i = j
      BY DEF Apart
    <2>1. T[a] = S[from(a)] /\ from(a) \in Lists /\ T[b] = S[from(b)] /\ from(b) \in Lists
      BY <1>5, <1>6
    <2>2. from(a) = from(b) /\ i = j
      BY <1>3, <2>1 DEF Apart
    <2> QED BY <1>6, <2>2
  <1>13. Allocated(T, live')
    <2> SUFFICES ASSUME NEW p \in Nodes
                 PROVE  p \in live <=> \E n \in Lists, i \in Int : At(T[n], i) = p
      BY <1>7 DEF Allocated
    <2>1. p \in live <=> \E n \in Lists, i \in Int : At(S[n], i) = p
      BY <1>4 DEF Allocated
    <2>2. ASSUME NEW n \in Lists, NEW i \in Int
          PROVE  T[n] = S[from(n)] /\ T[from(n)] = S[n] /\ from(n) \in Lists
      BY <1>5, <1>6
    <2> QED BY <2>1, <2>2
  <1>14. Shown' = T /\ ListIInv'
    BY <1>5, <1>8, <1>10, <1>11, <1>12, <1>13, NowShown
  <1> QED BY <1>14 DEF S, T

LEMMA DestroyStep ==
    ASSUME ListIInv, NEW l \in Lists, Destroy(l)
    PROVE  ListIInv' /\ Shown' = [Shown EXCEPT ![l] = <<>>]
  <1> DEFINE S == Shown
             s == S[l]
             T == [S EXCEPT ![l] = <<>>]
  <1>1. /\ S \in [Lists -> Seq(Nodes)] /\ s \in Seq(Nodes)
        /\ \A n \in Lists, i \in Int :
              /\ At(S[n], i) \in Pointers
              /\ At(S[n], i) # NULL <=> i \in 1..Len(S[n])
    BY Places
  <1>2. PointerTypes /\ IteratorLives
    BY DEF ListIInv
  <1>3. Ends(S, front, back, size) /\ Chained(S, next, prev)
    BY DEF ListIInv, Spelled
  <1>4. Apart(S)
    BY DEF ListIInv, Spelled
  <1>5. Allocated(S, live)
    BY DEF ListIInv, Spelled
  <1>6. T[l] = <<>> /\ (\A n \in Lists : n # l => T[n] = S[n]) /\ T \in [Lists -> Seq(Nodes)]
    BY <1>1
  <1>7. Holds(l) = s
    BY DEF Shown
  <1>8. /\ front' = [front EXCEPT ![l] = NULL] /\ back' = [back EXCEPT ![l] = NULL]
        /\ size' = [size EXCEPT ![l] = 0]
        /\ next' = next /\ prev' = prev /\ node' = node
        /\ live' = live \ Range(s)
        /\ node = NULL \/ node \notin Range(s)
    BY <1>7 DEF Destroy, Mine
  <1> HIDE DEF S, T
  <1>9. \A p : p \in Range(s) <=> \E i \in Int : At(s, i) = p /\ p # NULL
    <2>1. DOMAIN s = 1..Len(s) /\ Len(s) \in Nat
      BY <1>1
    <2>2. \A i \in 1..Len(s) : At(s, i) = s[i] /\ i \in Int /\ s[i] # NULL
      BY <1>1, AtPlace
    <2>3. \A i \in Int : At(s, i) # NULL => i \in 1..Len(s)
      BY <1>1
    <2> QED BY <2>1, <2>2, <2>3 DEF Range
  <1>10. PointerTypes' /\ IteratorLives'
    <2>1. NULL \in Pointers /\ 0 \in Nat
      BY DEF Pointers
    <2> QED BY <1>2, <1>8, <2>1 DEF PointerTypes, IteratorLives
  <1>11. Ends(T, front', back', size')
    <2>1. At(T[l], 1) = NULL /\ At(T[l], Len(T[l])) = NULL /\ Len(T[l]) = 0
      BY <1>6, AtNone
    <2>2. front'[l] = NULL /\ back'[l] = NULL /\ size'[l] = 0
      BY <1>2, <1>8 DEF PointerTypes
    <2>3. ASSUME NEW n \in Lists, n # l
          PROVE  /\ front'[n] = At(T[n], 1) /\ back'[n] = At(T[n], Len(T[n]))
                 /\ size'[n] = Len(T[n])
      BY <1>2, <1>3, <1>6, <1>8, <2>3 DEF Ends, PointerTypes
    <2> QED BY <2>1, <2>2, <2>3 DEF Ends
  <1>12. \A n \in Lists, i \in Int : IF n = l THEN At(T[n], i) = NULL ELSE T[n] = S[n]
    BY <1>6, AtNone
  <1>13. Chained(T, next', prev')
    BY <1>3, <1>8, <1>12 DEF Chained
  <1>14. Apart(T)
    BY <1>4, <1>12 DEF Apart
  <1>15. Allocated(T, live')
    <2> SUFFICES ASSUME NEW p \in Nodes
                 PROVE  p \in live' <=> \E n \in Lists, i \in Int : At(T[n], i) = p
      BY DEF Allocated
    <2>0. p # NULL
      BY DEF Nodes, NULL
    <2>1. ASSUME p \in live' PROVE \E n \in Lists, i \in Int : At(T[n], i) = p
      <3>1. p \in live /\ p \notin Range(s)
        BY <1>8, <2>1
      <3>2. PICK n \in Lists, i \in Int : At(S[n], i) = p
        BY <1>5, <3>1 DEF Allocated
      <3> QED BY <1>9, <1>12, <2>0, <3>1, <3>2
    <2>2. ASSUME NEW n \in Lists, NEW i \in Int, At(T[n], i) = p PROVE p \in live'
      <3>1. n # l /\ At(S[n], i) = p
        BY <1>12, <2>0, <2>2
      <3>2. p \in live
        BY <1>5, <3>1 DEF Allocated
      <3>3. p \notin Range(s)
        BY <1>4, <1>9, <2>0, <3>1 DEF Apart
      <3> QED BY <1>8, <3>2, <3>3
    <2> QED BY <2>1, <2>2
  <1>16. Shown' = T /\ ListIInv'
    BY <1>6, <1>10, <1>11, <1>13, <1>14, <1>15, NowShown
  <1> QED BY <1>16 DEF S, T

----------------------------------------------------------------------------
(* The invariant holds, and every step of the lists is a step of Items.      *)

LEMMA ListInitIInv == ListInit => ListIInv /\ Abstract!Init
  <1> SUFFICES ASSUME ListInit PROVE ListIInv /\ Abstract!Init
    OBVIOUS
  <1> DEFINE S == [l \in Lists |-> <<>>]
  <1>1. \A l \in Lists : S[l] = <<>> /\ Len(S[l]) = 0 /\ \A i \in Int : At(S[l], i) = NULL
    BY AtNone
  <1>2. S \in [Lists -> Seq(Nodes)]
    BY AtNone
  <1> HIDE DEF S
  <1>3. Ends(S, front, back, size)
    BY <1>1 DEF Ends, ListInit
  <1>4. Chained(S, next, prev) /\ Apart(S)
    BY <1>1 DEF Chained, Apart
  <1>5. Allocated(S, live)
    <2>1. \A n \in Nodes : n # NULL
      BY DEF Nodes, NULL
    <2> QED BY <1>1, <2>1 DEF Allocated, ListInit
  <1>6. PointerTypes /\ IteratorLives
    <2>1. NULL \in Pointers
      BY DEF Pointers
    <2> QED BY <2>1 DEF ListInit, PointerTypes, IteratorLives
  <1>7. \A l \in Lists : Walk(front[l], next) = S[l]
    BY <1>2, <1>3, <1>4, WalksSpell
  <1>8. Shown = [l \in Lists |-> S[l]]
    BY <1>7 DEF Shown, Holds
  <1>9. Shown = S
    BY <1>2, <1>8
  <1>10. ListIInv
    BY <1>2, <1>3, <1>4, <1>5, <1>6, <1>9 DEF ListIInv, Spelled
  <1>11. Abstract!Init
    BY <1>9 DEF Abstract!Init, Shown, S, ListInit
  <1> QED BY <1>10, <1>11

\* The items of a list are its places.
LEMMA HeldPlaces ==
    ASSUME ListIInv, NEW l \in Lists
    PROVE  /\ Holds(l) = Shown[l]
           /\ \A p : p \in Range(Holds(l)) <=>
                 \E i \in 1..Len(Shown[l]) : At(Shown[l], i) = p
  <1> DEFINE s == Shown[l]
  <1>1. Holds(l) = s
    BY DEF Shown
  <1>2. s \in Seq(Nodes)
    BY Places
  <1> HIDE DEF s
  <1>3. DOMAIN s = 1..Len(s) /\ \A i \in 1..Len(s) : At(s, i) = s[i]
    BY <1>2 DEF At
  <1> QED BY <1>1, <1>3 DEF Range, s

LEMMA HeapHeld ==
    ASSUME ListIInv
    PROVE  live = UNION {Range(Holds(l)) : l \in Lists}
  <1>1. /\ \A l \in Lists, i \in Int :
              /\ At(Shown[l], i) # NULL <=> i \in 1..Len(Shown[l])
              /\ At(Shown[l], i) # NULL => At(Shown[l], i) \in live
    BY Places
  <1>2. \A l \in Lists : Len(Shown[l]) \in Nat
    BY Places
  <1>3. ASSUME NEW p \in live PROVE \E l \in Lists : p \in Range(Holds(l))
    <2>1. p \in Nodes /\ p # NULL
      BY DEF ListIInv, PointerTypes, Nodes, NULL
    <2>2. PICK l \in Lists, i \in Int : At(Shown[l], i) = p
      BY <2>1 DEF ListIInv, Spelled, Allocated
    <2> QED BY <1>1, <2>1, <2>2, HeldPlaces
  <1>4. ASSUME NEW l \in Lists, NEW p \in Range(Holds(l)) PROVE p \in live
    <2>1. PICK i \in 1..Len(Shown[l]) : At(Shown[l], i) = p
      BY HeldPlaces
    <2>2. i \in Int
      BY <1>2
    <2> QED BY <1>1, <2>1, <2>2
  <1> QED BY <1>3, <1>4

\* The node of the iterator is in a place, and its links lead to the places
\* beside.
LEMMA AtIterator ==
    ASSUME ListIInv, NEW l \in Lists, NEW i \in 1..Len(Shown[l]), node = At(Shown[l], i)
    PROVE  /\ next[node] = At(Shown[l], i + 1) /\ prev[node] = At(Shown[l], i - 1)
           /\ next[node] \in live \cup {NULL} /\ prev[node] \in live \cup {NULL}
           /\ Shown[l][i] = node
  <1>1. Len(Shown[l]) \in Nat /\ i \in Int /\ i + 1 \in Int /\ i - 1 \in Int
    BY Places
  <1>2. node # NULL
    BY <1>1, Places
  <1>3. next[node] = At(Shown[l], i + 1) /\ prev[node] = At(Shown[l], i - 1)
    BY <1>1, <1>2 DEF ListIInv, Spelled, Chained
  <1>4. Shown[l][i] = node
    BY DEF At
  <1> QED BY <1>1, <1>3, <1>4, Places

\* A step of the lists is a step of Items, read in what the lists show.
LEMMA ShownAdd ==
    ASSUME NEW l \in Lists, NEW n \in Nodes \ UNION {Range(Holds(k)) : k \in Lists},
           node' = node,
           \/ Shown' = [Shown EXCEPT ![l] = Append(@, n)]
           \/ Shown' = [Shown EXCEPT ![l] = <<n>> \o @]
    PROVE  Abstract!Next
  <1>1. \A k \in Lists : Shown[k] = Holds(k)
    BY DEF Shown
  <1>2. n \notin UNION {Range(Shown[k]) : k \in Lists}
    BY <1>1
  <1>3. Abstract!Add(l, n)
    BY <1>2, Zenon DEF Abstract!Add, Abstract!Used, Abstract!Range, Range, Shown
  <1> QED BY <1>3 DEF Abstract!Next

LEMMA ShownPlace ==
    ASSUME NEW l \in Lists, Shown' = Shown,
           \/ node' = At(Shown[l], 1) \/ node' = At(Shown[l], Len(Shown[l]))
           \/ \E i \in 1..Len(Shown[l]) :
                 Shown[l][i] = node /\ (node' = At(Shown[l], i + 1) \/ node' = At(Shown[l], i - 1)),
           Len(Shown[l]) \in Nat
    PROVE  Abstract!Next
  <1>1. CASE node' = At(Shown[l], 1)
    <2>1. Abstract!Place(l, 0, 1)
      BY <1>1 DEF Abstract!Place, Abstract!At, At, Shown
    <2> QED BY <2>1 DEF Abstract!Next
  <1>2. CASE node' = At(Shown[l], Len(Shown[l]))
    <2>1. (Len(Shown[l]) + 1) + (-1) = Len(Shown[l])
      OBVIOUS
    <2>2. Abstract!Place(l, Len(Shown[l]) + 1, -1)
      BY <1>2, <2>1 DEF Abstract!Place, Abstract!At, At, Shown
    <2> QED BY <2>2, Zenon DEF Abstract!Next, Shown
  <1>3. ASSUME NEW i \in 1..Len(Shown[l]), Shown[l][i] = node,
               node' = At(Shown[l], i + 1) \/ node' = At(Shown[l], i - 1)
        PROVE  Abstract!Next
    <2>1. PICK d \in {1, -1} : node' = At(Shown[l], i + d)
      <3>1. i - 1 = i + (-1)
        OBVIOUS
      <3> QED BY <1>3, <3>1
    <2>2. Abstract!Place(l, i, d)
      BY <2>1, Zenon DEF Abstract!Place, Abstract!At, At, Shown
    <2> QED BY <1>3, <2>2, Zenon DEF Abstract!Next, Shown
  <1> QED BY <1>1, <1>2, <1>3

LEMMA ShownErase ==
    ASSUME NEW l \in Lists, NEW i \in 1..Len(Shown[l]), Shown[l][i] = node,
           node' = At(Shown[l], i + 1) \/ node' = At(Shown[l], i - 1),
           Shown' = [Shown EXCEPT ![l] = RemoveAt(@, i)]
    PROVE  Abstract!Next
  <1>1. PICK d \in {1, -1} : node' = At(Shown[l], i + d)
    <2>1. i - 1 = i + (-1)
      OBVIOUS
    <2> QED BY <2>1
  <1>2. Abstract!Erase(l, i, d)
    BY <1>1, Zenon DEF Abstract!Erase, Abstract!At, At, Abstract!RemoveAt, RemoveAt, Shown
  <1> QED BY <1>2, Zenon DEF Abstract!Next, Shown

LEMMA ShownWhole ==
    ASSUME NEW l \in Lists, node' = node,
           \/ \E m \in Lists : l # m /\
                 \/ Shown' = [Shown EXCEPT ![l] = Shown[l] \o Shown[m], ![m] = <<>>]
                 \/ Shown' = [Shown EXCEPT ![l] = Shown[m], ![m] = Shown[l]]
           \/ Shown' = [Shown EXCEPT ![l] = <<>>] /\ node \notin Range(Holds(l))
    PROVE  Abstract!Next
  <1>1. ASSUME NEW m \in Lists, l # m,
               Shown' = [Shown EXCEPT ![l] = Shown[l] \o Shown[m], ![m] = <<>>]
        PROVE  Abstract!Next
    <2>1. Abstract!Splice(l, m)
      BY <1>1, Zenon DEF Abstract!Splice, Shown
    <2> QED BY <1>1, <2>1 DEF Abstract!Next
  <1>2. ASSUME NEW m \in Lists, l # m,
               Shown' = [Shown EXCEPT ![l] = Shown[m], ![m] = Shown[l]]
        PROVE  Abstract!Next
    <2>1. Abstract!Swap(l, m)
      BY <1>2, Zenon DEF Abstract!Swap, Shown
    <2> QED BY <1>2, <2>1 DEF Abstract!Next
  <1>3. CASE Shown' = [Shown EXCEPT ![l] = <<>>] /\ node \notin Range(Holds(l))
    <2>1. Shown[l] = Holds(l)
      BY DEF Shown
    <2>2. node \notin Range(Shown[l])
      BY <1>3, <2>1
    <2>3. Abstract!Clear(l)
      BY <1>3, <2>2, Zenon DEF Abstract!Clear, Abstract!Range, Range, Shown
    <2> QED BY <2>3 DEF Abstract!Next
  <1> QED BY <1>1, <1>2, <1>3

LEMMA ListStep ==
    ASSUME ListIInv, [ListNext]_listVars
    PROVE  ListIInv' /\ [Abstract!Next]_Abstract!vars
  <1>0. \A l \in Lists : Len(Shown[l]) \in Nat
    BY Places
  <1>1. ASSUME NEW l \in Lists, PushBack(l) \/ PushFront(l)
        PROVE  ListIInv' /\ Abstract!Next
    <2>1. node' = node
      BY <1>1 DEF PushBack, PushFront
    <2>2. live \subseteq Nodes
      BY DEF ListIInv, PointerTypes
    <2>3. /\ ListIInv'
          /\ \E n \in Nodes \ live :
                \/ Shown' = [Shown EXCEPT ![l] = Append(@, n)]
                \/ Shown' = [Shown EXCEPT ![l] = <<n>> \o @]
      BY <1>1, PushBackStep, PushFrontStep
    <2>4. live = UNION {Range(Holds(k)) : k \in Lists}
      BY HeapHeld
    <2> QED BY <2>1, <2>3, <2>4, ShownAdd
  <1>2. ASSUME NEW l \in Lists, Begin(l) \/ RBegin(l)
        PROVE  ListIInv' /\ Abstract!Next
    <2>1. front[l] = At(Shown[l], 1) /\ back[l] = At(Shown[l], Len(Shown[l]))
      BY DEF ListIInv, Spelled, Ends
    <2>2. node' = At(Shown[l], 1) \/ node' = At(Shown[l], Len(Shown[l]))
      BY <1>2, <2>1 DEF Begin, RBegin
    <2>3. node' \in live \cup {NULL}
      BY <1>0, <2>2, Places
    <2>4. ListIInv' /\ Shown' = Shown
      BY <1>2, <2>3, IteratorStep DEF Begin, RBegin
    <2> QED BY <1>0, <2>2, <2>4, ShownPlace
  <1>3. ASSUME Forth \/ Back PROVE ListIInv' /\ Abstract!Next
    <2>1. node # NULL /\ node \in live
      BY <1>3 DEF Forth, Back, Step, ListIInv, IteratorLives
    <2>2. PICK l \in Lists : \E i \in 1..Len(Shown[l]) : At(Shown[l], i) = node
      BY <2>1, HeapHeld, HeldPlaces
    <2>3. PICK i \in 1..Len(Shown[l]) : At(Shown[l], i) = node
      BY <2>2
    <2>4. /\ next[node] = At(Shown[l], i + 1) /\ prev[node] = At(Shown[l], i - 1)
          /\ next[node] \in live \cup {NULL} /\ prev[node] \in live \cup {NULL}
          /\ Shown[l][i] = node
      BY <2>3, AtIterator
    <2>5. ListIInv' /\ Shown' = Shown
      BY <1>3, <2>4, IteratorStep DEF Forth, Back, Step
    <2>6. node' = At(Shown[l], i + 1) \/ node' = At(Shown[l], i - 1)
      BY <1>3, <2>4 DEF Forth, Back, Step
    <2> QED BY <1>0, <2>4, <2>5, <2>6, ShownPlace
  <1>4. ASSUME NEW l \in Lists, Erase(l) \/ Rerase(l)
        PROVE  ListIInv' /\ Abstract!Next
    <2>1. Mine(l) /\ Cerase(l) /\ (node' = next[node] \/ node' = prev[node])
      BY <1>4 DEF Erase, Rerase
    <2>2. PICK i \in 1..Len(Shown[l]) : At(Shown[l], i) = node
      BY <2>1, HeldPlaces DEF Mine
    <2>3. /\ next[node] = At(Shown[l], i + 1) /\ prev[node] = At(Shown[l], i - 1)
          /\ Shown[l][i] = node
      BY <2>2, AtIterator
    <2>4. ListIInv' /\ Shown' = [Shown EXCEPT ![l] = RemoveAt(@, i)]
      BY <2>1, <2>2, EraseStep
    <2>5. node' = At(Shown[l], i + 1) \/ node' = At(Shown[l], i - 1)
      BY <2>1, <2>3
    <2> QED BY <2>3, <2>4, <2>5, ShownErase
  <1>5. ASSUME NEW l \in Lists, Destroy(l) PROVE ListIInv' /\ Abstract!Next
    <2>1. node' = node /\ node \notin Range(Holds(l))
      <3>1. NULL \notin Range(Holds(l))
        <4>1. \A i \in 1..Len(Shown[l]) : At(Shown[l], i) # NULL
          BY <1>0, Places
        <4> QED BY <4>1, HeldPlaces
      <3> QED BY <1>5, <3>1 DEF Destroy, Mine
    <2>2. ListIInv' /\ Shown' = [Shown EXCEPT ![l] = <<>>]
      BY <1>5, DestroyStep
    <2> QED BY <2>1, <2>2, ShownWhole
  <1>6. ASSUME NEW l \in Lists, NEW m \in Lists, SpliceBack(l, m) \/ Swap(l, m)
        PROVE  ListIInv' /\ Abstract!Next
    <2>1. l # m /\ node' = node
      BY <1>6 DEF SpliceBack, Swap
    <2>2. CASE SpliceBack(l, m)
      <3>1. ListIInv' /\ Shown' = [Shown EXCEPT ![l] = Shown[l] \o Shown[m], ![m] = <<>>]
        BY <2>2, SpliceStep
      <3> QED BY <2>1, <3>1, ShownWhole
    <2>3. CASE Swap(l, m)
      <3>1. ListIInv' /\ Shown' = [Shown EXCEPT ![l] = Shown[m], ![m] = Shown[l]]
        BY <2>3, SwapStep
      <3> QED BY <2>1, <3>1, ShownWhole
    <2> QED BY <1>6, <2>2, <2>3
  <1>7. CASE UNCHANGED listVars
    <2>1. UNCHANGED <<live, next, prev, front, back, size>> /\ node' = node
      BY <1>7 DEF listVars
    <2>2. ListIInv' /\ Shown' = Shown
      BY <2>1, IteratorStep DEF ListIInv, IteratorLives
    <2> QED BY <2>1, <2>2, Zenon DEF Abstract!vars, Shown
  <1> QED BY <1>1, <1>2, <1>3, <1>4, <1>5, <1>6, <1>7 DEF ListNext

THEOREM ListInvariance == ListSpec => []ListIInv
  <1>1. ListIInv /\ [ListNext]_listVars => ListIInv'
    BY ListStep
  <1> QED BY <1>1, ListInitIInv, PTL DEF ListSpec

\* What the pointers spell, from either end, is what the counts say; and the heap
\* holds just the nodes spelled, each in one place.
LEMMA ListConsequences == ListIInv => LinksAgree /\ NothingDangles
  <1> SUFFICES ASSUME ListIInv PROVE LinksAgree /\ NothingDangles
    OBVIOUS
  <1>1. /\ Shown \in [Lists -> Seq(Nodes)] /\ Apart(Shown)
        /\ Ends(Shown, front, back, size) /\ Chained(Shown, next, prev)
    BY DEF ListIInv, Spelled
  <1>2. ASSUME NEW l \in Lists
        PROVE  /\ Holds(l) = Shown[l] /\ Walk(back[l], prev) = Reverse(Shown[l])
               /\ Shown[l] \in Seq(Nodes) /\ Len(Shown[l]) \in Nat
               /\ Len(Shown[l]) <= MaxNodes /\ size[l] = Len(Shown[l])
    <2>1. Holds(l) = Shown[l]
      BY DEF Shown
    <2>2. Walk(back[l], prev) = Reverse(Shown[l])
      BY <1>1, WalksSpell
    <2>3. Len(Shown[l]) <= MaxNodes
      BY <1>1, NoLonger
    <2>4. size[l] = Len(Shown[l])
      BY <1>1 DEF Ends
    <2> QED BY <1>1, <2>1, <2>2, <2>3, <2>4
  <1>3. BothWaysAlike
    <2>1. ASSUME NEW l \in Lists PROVE Holds(l) = Reverse(Walk(back[l], prev))
      <3> DEFINE s == Shown[l]
      <3>1. s \in Seq(Nodes) /\ Holds(l) = s /\ Walk(back[l], prev) = Reverse(s)
        BY <1>2
      <3> HIDE DEF s
      <3>2. /\ Reverse(s) \in Seq(Nodes) /\ Len(Reverse(s)) = Len(s)
            /\ \A i \in Int : At(Reverse(s), i) = At(s, Len(s) + 1 - i)
        BY <3>1, AtReverse
      <3> DEFINE r == Reverse(s)
                 q == Reverse(r)
      <3>3. r \in Seq(Nodes)
        BY <3>2
      <3>4. Len(r) = Len(s) /\ \A i \in Int : At(r, i) = At(s, Len(s) + 1 - i)
        BY <3>2
      <3>5. q \in Seq(Nodes) /\ \A i \in Int : At(q, i) = At(r, Len(r) + 1 - i)
        <4> HIDE DEF r
        <4> QED BY <3>3, AtReverse
      <3> HIDE DEF q, r
      <3>6. \A i \in Int : At(q, i) = At(s, i)
        <4>1. ASSUME NEW i \in Int PROVE At(q, i) = At(s, i)
          <5>1. Len(s) \in Nat
            BY <3>1
          <5>2. Len(s) + 1 - i \in Int /\ Len(s) + 1 - (Len(s) + 1 - i) = i
            BY <5>1
          <5> QED BY <3>4, <3>5, <5>2
        <4> QED BY <4>1
      <3>7. q = s
        BY <3>1, <3>5, <3>6, SameSequence
      <3> QED BY <3>1, <3>7 DEF q, r
    <2> QED BY <2>1 DEF BothWaysAlike
  <1>4. SizeIsLength
    BY <1>2 DEF SizeIsLength
  <1>5. ListTypeOK
    <2>1. PointerTypes
      BY DEF ListIInv
    <2>2. \A l \in Lists : size[l] \in 0..MaxNodes
      BY <1>2, MaxNodesAssumption
    <2>3. size \in [Lists -> 0..MaxNodes]
      BY <2>1, <2>2 DEF PointerTypes
    <2> QED BY <2>1, <2>3 DEF PointerTypes, ListTypeOK
  <1>6. HeapIsShared
    <2>1. live = UNION {Range(Holds(l)) : l \in Lists}
      BY HeapHeld
    <2>2. ASSUME NEW l \in Lists PROVE IsInjective(Holds(l))
      <3>1. \A i \in DOMAIN Holds(l) : i \in Int /\ At(Shown[l], i) = Holds(l)[i]
                                       /\ At(Shown[l], i) # NULL
        <4>1. DOMAIN Holds(l) = 1..Len(Shown[l])
          BY <1>2
        <4>2. \A i \in 1..Len(Shown[l]) : i \in Int /\ At(Shown[l], i) = Shown[l][i]
                                           /\ At(Shown[l], i) # NULL
          BY <1>2, AtPlace
        <4> QED BY <1>2, <4>1, <4>2
      <3>2. \A i, j \in DOMAIN Holds(l) : Holds(l)[i] = Holds(l)[j] => i = j
        BY <1>1, <3>1, OnePlace
      <3> QED BY <3>2 DEF IsInjective
    <2>3. ASSUME NEW l \in Lists, NEW m \in Lists, l # m
          PROVE  Range(Holds(l)) \cap Range(Holds(m)) = {}
      <3> SUFFICES ASSUME NEW p, p \in Range(Holds(l)), p \in Range(Holds(m)) PROVE FALSE
        OBVIOUS
      <3>1. PICK i \in 1..Len(Shown[l]) : At(Shown[l], i) = p
        BY HeldPlaces
      <3>2. PICK j \in 1..Len(Shown[m]) : At(Shown[m], j) = p
        BY HeldPlaces
      <3>3. i \in Int /\ j \in Int
        BY <1>2
      <3>4. p # NULL
        BY <3>1, <3>3, Places
      <3> QED BY <1>1, <2>3, <3>1, <3>2, <3>3, <3>4, OnePlace
    <2> QED BY <2>1, <2>2, <2>3 DEF HeapIsShared
  <1>7. IteratorLives
    BY DEF ListIInv
  <1> QED BY <1>3, <1>4, <1>5, <1>6, <1>7 DEF LinksAgree, NothingDangles

\* Links, ends and counts agree with each other: the walk from the back is that
\* from the front in reverse, and size_ is its length.
THEOREM AlwaysLinksAgree == ListSpec => []LinksAgree
  BY ListInvariance, ListConsequences, PTL

\* Every allocated node is in one place of one list, and neither a list nor the
\* iterator leads to a freed one.
THEOREM AlwaysNothingDangles == ListSpec => []NothingDangles
  BY ListInvariance, ListConsequences, PTL

\* The lists implement Items: the pointers are sequences and a cursor.
THEOREM ListsAreItems == ListSpec => ImplementsItems
  <1>1. ListInit => Abstract!Init
    BY ListInitIInv
  <1>2. ListIInv /\ [ListNext]_listVars => [Abstract!Next]_Abstract!vars
    BY ListStep
  <1> QED BY <1>1, <1>2, ListInvariance, PTL DEF ListSpec, ImplementsItems, Abstract!Spec

(***************************************************************************)
(* The slot registry.                                                        *)
(***************************************************************************)

(***************************************************************************)
(* Sequences.                                                                *)
(***************************************************************************)

\* Erasing keeps the order, and of a list in order takes off one number.
LEMMA ErasedInOrder ==
    ASSUME NEW s \in Seq(Ids), Ascending(s), NEW i \in 1..Len(s)
    PROVE  /\ Ascending(RemoveAt(s, i))
           /\ \A j \in 1..Len(RemoveAt(s, i)) :
                 /\ RemoveAt(s, i)[j] # s[i]
                 /\ \E k \in 1..Len(s) : RemoveAt(s, i)[j] = s[k]
  <1> DEFINE r == RemoveAt(s, i)
  <1>0. Len(s) \in Nat /\ i \in Nat /\ 1 <= i /\ i <= Len(s)
        /\ \A k \in 1..Len(s) : s[k] \in Int
    BY MaxIdAssumption DEF Ids
  <1>1. Len(r) = Len(s) - 1
        /\ \A j \in 1..(Len(s) - 1) : r[j] = IF j < i THEN s[j] ELSE s[j + 1]
    BY Erased
  <1> HIDE DEF r
  <1>2. Ascending(r)
    <2> SUFFICES ASSUME NEW j \in 1..(Len(s) - 1), NEW k \in 1..(Len(s) - 1), j < k
                 PROVE  r[j] < r[k]
      BY <1>0, <1>1 DEF Ascending
    <2>1. j \in 1..Len(s) /\ j + 1 \in 1..Len(s) /\ k \in 1..Len(s) /\ k + 1 \in 1..Len(s)
      BY <1>0
    <2>2. s[j] < s[k] /\ s[j] < s[k + 1] /\ s[j + 1] < s[k + 1]
      BY <1>0, <2>1 DEF Ascending
    <2> QED BY <1>0, <1>1, <2>1, <2>2
  <1>3. \A j \in 1..Len(r) : r[j] # s[i]
    BY <1>0, <1>1 DEF Ascending
  <1>4. \A j \in 1..Len(r) : \E k \in 1..Len(s) : r[j] = s[k]
    BY <1>0, <1>1
  <1> QED BY <1>2, <1>3, <1>4 DEF r

\* remove_by_index takes off the number it is given, and nothing else: the walk
\* from either end finds it, because the list is in order.
LEMMA RemovesTheId ==
    ASSUME NEW s \in Seq(Ids), Ascending(s), NEW id \in Ids
    PROVE  /\ RemoveByIndex(s, id) \in Seq(Ids)
           /\ Ascending(RemoveByIndex(s, id))
           /\ \A j \in 1..Len(RemoveByIndex(s, id)) :
                 /\ RemoveByIndex(s, id)[j] # id
                 /\ \E k \in 1..Len(s) : RemoveByIndex(s, id)[j] = s[k]
  <1> DEFINE hits == {i \in 1..Len(s) :
                         /\ s[1] <= id /\ id <= s[Len(s)]
                         /\ StopsAt(s, id, i)
                         /\ s[i] = id}
  <1>0. Len(s) \in Nat /\ id \in Int /\ \A k \in 1..Len(s) : s[k] \in Int
    BY MaxIdAssumption DEF Ids
  <1>1. ASSUME NEW k \in 1..Len(s), s[k] = id PROVE k \in hits
    <2>1. s[1] <= id /\ id <= s[Len(s)]
      BY <1>0, <1>1 DEF Ascending
    <2>2. /\ \A j \in 1..(k - 1) : s[j] < id
          /\ \A j \in (k + 1)..Len(s) : id < s[j]
      BY <1>0, <1>1 DEF Ascending
    <2> QED BY <1>0, <1>1, <2>1, <2>2 DEF StopsAt
  <1>2. CASE hits = {}
    <2>1. RemoveByIndex(s, id) = s
      BY <1>2 DEF RemoveByIndex
    <2> QED BY <1>1, <1>2, <2>1
  <1>3. CASE hits # {}
    <2>1. PICK i \in hits : RemoveByIndex(s, id) = RemoveAt(s, i)
      BY <1>3 DEF RemoveByIndex
    <2>2. i \in 1..Len(s) /\ s[i] = id
      OBVIOUS
    <2>3. RemoveAt(s, i) \in Seq(Ids)
      BY <2>2, Erased
    <2>4. /\ Ascending(RemoveAt(s, i))
          /\ \A j \in 1..Len(RemoveAt(s, i)) :
                /\ RemoveAt(s, i)[j] # id
                /\ \E k \in 1..Len(s) : RemoveAt(s, i)[j] = s[k]
      BY <2>2, ErasedInOrder
    <2> QED BY <2>1, <2>3, <2>4
  <1> QED BY <1>2, <1>3

(***************************************************************************)
(* The inductive invariant.                                                  *)
(***************************************************************************)

\* No number is on a list or unsubscribed before connect() has given it.
Given ==
    /\ \A i \in 1..Len(list) : list[i] < nextId
    /\ \A i \in 1..Len(added) : added[i] < nextId
    /\ \A id \in gone : id < nextId

\* What clear_removed has walked past is below all that it still looks for; at
\* the end of the list it may therefore drop the rest of the numbers.
WalkedPast ==
    /\ phase # "clear" => tmp = {}
    /\ \A i \in 1..Len(list), b \in tmp : i < cursor => list[i] < b

IInv == TypeOK /\ InOrder /\ Given /\ WalkedPast /\ GoneIsMarked

\* At the start there is no slot.
LEMMA InitIInv == Init => IInv
  <1> SUFFICES ASSUME Init PROVE IInv
    OBVIOUS
  <1>1. list = <<>> /\ added = <<>> /\ gone = {} /\ tmp = {}
    BY DEF Init
  <1>2. TypeOK
    BY MaxIdAssumption DEF Init, TypeOK
  <1> QED BY <1>1, <1>2 DEF Init, IInv, InOrder, Given, WalkedPast, GoneIsMarked, Ascending

\* Erasing the node at i from list_ keeps all that the invariant says of it.
LEMMA EraseFromList ==
    ASSUME IInv, NEW i \in 1..Len(list), list' = RemoveAt(list, i)
    PROVE  /\ list' \in Seq(Ids)
           /\ Ascending(list')
           /\ \A j \in 1..Len(list') :
                 /\ list'[j] # list[i]
                 /\ \E k \in 1..Len(list) : list'[j] = list[k]
  <1>1. list \in Seq(Ids) /\ Ascending(list)
    BY DEF IInv, TypeOK, InOrder
  <1>2. RemoveAt(list, i) \in Seq(Ids)
    BY <1>1, Erased
  <1>3. /\ Ascending(RemoveAt(list, i))
        /\ \A j \in 1..Len(RemoveAt(list, i)) :
              /\ RemoveAt(list, i)[j] # list[i]
              /\ \E k \in 1..Len(list) : RemoveAt(list, i)[j] = list[k]
    BY <1>1, ErasedInOrder
  <1> QED BY <1>2, <1>3, Zenon

\* Every step keeps the invariant.
LEMMA NextIInv ==
    ASSUME IInv, [Next]_vars
    PROVE  IInv'
  <1>0. TypeOK /\ InOrder /\ Given /\ WalkedPast /\ GoneIsMarked
    BY DEF IInv
  <1>a. /\ Len(list) \in Nat /\ Len(added) \in Nat /\ nextId \in Int /\ cursor \in Int
        /\ \A i \in 1..Len(list) : list[i] \in Int /\ list[i] \in Ids
        /\ \A i \in 1..Len(added) : added[i] \in Int /\ added[i] \in Ids
        /\ \A b \in tmp : b \in Int
        /\ MaxId \in Nat
    BY <1>0, MaxIdAssumption DEF TypeOK, Ids
  <1>1. CASE UNCHANGED vars
    BY <1>0, <1>1 DEF vars, IInv, TypeOK, InOrder, Given, WalkedPast, GoneIsMarked, Ascending
  <1>2. CASE Connect
    <2>1. nextId \in Ids /\ added' = Append(added, nextId) /\ nextId' = nextId + 1
          /\ nextId' \in 1..(MaxId + 1)
          /\ UNCHANGED <<list, removed, phase, cursor, tmp, gone, called, due>>
      BY <1>0, <1>2, <1>a DEF Connect, TypeOK, Ids
    <2>2. TypeOK'
      BY <1>0, <2>1 DEF TypeOK
    <2>3. /\ Len(added') = Len(added) + 1
          /\ \A j \in 1..Len(added) : added'[j] = added[j]
          /\ added'[Len(added) + 1] = nextId
      BY <1>0, <2>1 DEF TypeOK
    <2>4. InOrder'
      BY <1>0, <1>a, <2>1, <2>3 DEF InOrder, Ascending, Given
    <2>5. Given'
      <3>1. \A id \in gone : id \in Int
        BY <1>0, <1>a DEF TypeOK, Ids
      <3> QED BY <1>0, <1>a, <2>1, <2>3, <3>1 DEF Given
    <2>6. GoneIsMarked'
      <3>1. nextId \notin gone
        BY <1>0, <1>a DEF Given
      <3> QED BY <1>0, <1>a, <2>1, <2>3, <3>1 DEF GoneIsMarked
    <2> QED BY <1>0, <2>1, <2>2, <2>4, <2>5, <2>6 DEF IInv, WalkedPast
  <1>3. ASSUME NEW id \in Ids, Unsubscribe(id) PROVE IInv'
    <2>1. /\ id < nextId /\ removed' = removed \cup {id} /\ gone' = gone \cup {id}
          /\ added' = RemoveByIndex(added, id)
          /\ UNCHANGED <<list, nextId, phase, cursor, tmp, called, due>>
      BY <1>3 DEF Unsubscribe
    <2>2. /\ added' \in Seq(Ids) /\ Ascending(added')
          /\ \A j \in 1..Len(added') :
                added'[j] # id /\ \E k \in 1..Len(added) : added'[j] = added[k]
      <3>1. added \in Seq(Ids) /\ Ascending(added)
        BY <1>0 DEF TypeOK, InOrder
      <3>2. /\ RemoveByIndex(added, id) \in Seq(Ids)
            /\ Ascending(RemoveByIndex(added, id))
            /\ \A j \in 1..Len(RemoveByIndex(added, id)) :
                  /\ RemoveByIndex(added, id)[j] # id
                  /\ \E k \in 1..Len(added) : RemoveByIndex(added, id)[j] = added[k]
        BY <3>1, RemovesTheId
      <3> QED BY <2>1, <3>2
    <2>3. TypeOK'
      BY <1>0, <2>1, <2>2 DEF TypeOK
    <2>4. InOrder'
      BY <1>0, <2>1, <2>2 DEF InOrder
    <2>5. Given'
      BY <1>0, <2>1, <2>2 DEF Given
    <2>6. GoneIsMarked'
      BY <1>0, <2>1, <2>2 DEF GoneIsMarked
    <2> QED BY <1>0, <2>1, <2>3, <2>4, <2>5, <2>6 DEF IInv, WalkedPast
  <1>4. CASE UnsubscribeAll
    <2>1. /\ list' = <<>> /\ added' = <<>> /\ removed' = {} /\ gone' = 1..(nextId - 1)
          /\ phase = "idle" /\ UNCHANGED <<nextId, phase, cursor, tmp, called, due>>
      BY <1>4 DEF UnsubscribeAll
    <2>2. gone' \subseteq Ids /\ \A id \in gone' : id < nextId
      BY <1>0, <1>a, <2>1 DEF TypeOK, Ids
    <2>3. TypeOK'
      BY <1>0, <2>1, <2>2 DEF TypeOK
    <2> QED BY <1>0, <2>1, <2>2, <2>3
            DEF IInv, InOrder, Given, WalkedPast, GoneIsMarked, Ascending
  <1>5. CASE EmitBegin
    <2>1. /\ list' = list \o added /\ added' = <<>> /\ phase' = "scan" /\ cursor' = 1
          /\ called' = <<>> /\ due' = (1..(nextId - 1)) \ gone /\ phase = "idle"
          /\ UNCHANGED <<removed, nextId, tmp, gone>>
      BY <1>5 DEF EmitBegin
    <2>2. list \in Seq(Ids) /\ added \in Seq(Ids)
      BY <1>0 DEF TypeOK
    <2>3. /\ list' \in Seq(Ids) /\ Len(list') = Len(list) + Len(added)
          /\ \A i \in 1..Len(list) : list'[i] = list[i]
          /\ \A i \in 1..Len(added) : list'[Len(list) + i] = added[i]
      BY <2>1, <2>2
    <2>4. \A i \in 1..Len(list') :
             \/ i \in 1..Len(list) /\ list'[i] = list[i]
             \/ \E k \in 1..Len(added) : i = Len(list) + k /\ list'[i] = added[k]
      <3> TAKE i \in 1..Len(list')
      <3>1. CASE i <= Len(list)
        BY <1>a, <2>3, <3>1
      <3>2. CASE i > Len(list)
        <4>1. i - Len(list) \in 1..Len(added) /\ i = Len(list) + (i - Len(list))
          BY <1>a, <2>3, <3>2
        <4> QED BY <2>3, <4>1
      <3>3. i <= Len(list) \/ i > Len(list)
        BY <1>a, <2>3
      <3> QED BY <3>1, <3>2, <3>3
    <2>5. due' \subseteq Ids
      BY <1>0, <1>a, <2>1 DEF TypeOK, Ids
    <2>6. TypeOK'
      BY <1>0, <2>1, <2>3, <2>5 DEF TypeOK
    <2>7. Ascending(list')
      <3> SUFFICES ASSUME NEW i \in 1..Len(list'), NEW j \in 1..Len(list'), i < j
                   PROVE  list'[i] < list'[j]
        BY DEF Ascending
      <3>1. CASE i \in 1..Len(list) /\ j \in 1..Len(list)
        BY <1>0, <2>3, <3>1 DEF InOrder, Ascending
      <3>2. CASE i \in 1..Len(list) /\ \E k \in 1..Len(added) : list'[j] = added[k]
        BY <1>0, <2>3, <3>2 DEF InOrder
      <3>3. ASSUME NEW k \in 1..Len(added), NEW l \in 1..Len(added),
                   i = Len(list) + k, j = Len(list) + l
            PROVE  list'[i] < list'[j]
        <4>1. k < l
          BY <1>a, <3>3
        <4> QED BY <1>0, <2>3, <3>3, <4>1 DEF InOrder, Ascending
      <3>4. ASSUME NEW k \in 1..Len(added), i = Len(list) + k, j \in 1..Len(list)
            PROVE  FALSE
        BY <1>a, <3>4
      <3> QED BY <2>4, <3>1, <3>2, <3>3, <3>4
    <2>8. InOrder'
      BY <2>1, <2>7 DEF InOrder, Ascending
    <2>9. Given'
      BY <1>0, <2>1, <2>4 DEF Given
    <2>10. WalkedPast'
      BY <1>0, <2>1 DEF WalkedPast
    <2>11. GoneIsMarked'
      <3>1. \A i \in 1..Len(list') : list'[i] \in gone => list'[i] \in removed \cup tmp
        <4> SUFFICES ASSUME NEW i \in 1..Len(list'), list'[i] \in gone
                     PROVE  list'[i] \in removed \cup tmp
          OBVIOUS
        <4>1. CASE i \in 1..Len(list) /\ list'[i] = list[i]
          BY <1>0, <4>1 DEF GoneIsMarked
        <4>2. ASSUME NEW k \in 1..Len(added), list'[i] = added[k] PROVE FALSE
          BY <1>0, <4>2 DEF GoneIsMarked
        <4> QED BY <2>4, <4>1, <4>2
      <3>2. added' = <<>> /\ UNCHANGED <<gone, removed, tmp>>
        BY <2>1
      <3> QED BY <3>1, <3>2 DEF GoneIsMarked
    <2> QED BY <2>6, <2>8, <2>9, <2>10, <2>11 DEF IInv
  <1>6. CASE DropRemoved
    <2>1. /\ cursor \in 1..Len(list) /\ phase = "scan"
          /\ removed' = removed \ {list[cursor]} /\ list' = RemoveAt(list, cursor)
          /\ UNCHANGED <<added, nextId, phase, cursor, tmp, gone, called, due>>
      BY <1>0, <1>6 DEF DropRemoved, TypeOK
    <2>2. /\ list' \in Seq(Ids) /\ Ascending(list')
          /\ \A j \in 1..Len(list') :
                list'[j] # list[cursor] /\ \E k \in 1..Len(list) : list'[j] = list[k]
      BY <2>1, EraseFromList
    <2>3. TypeOK'
      BY <1>0, <2>1, <2>2 DEF TypeOK
    <2>4. InOrder' /\ Given' /\ WalkedPast'
      BY <1>0, <2>1, <2>2 DEF InOrder, Given, WalkedPast
    <2>5. GoneIsMarked'
      BY <1>0, <2>1, <2>2 DEF GoneIsMarked
    <2> QED BY <2>3, <2>4, <2>5 DEF IInv
  <1>7. CASE CallSlot
    <2>1. /\ cursor \in 1..Len(list) /\ phase = "scan" /\ phase' = "exec"
          /\ called' = Append(called, list[cursor])
          /\ UNCHANGED <<list, added, removed, nextId, cursor, tmp, gone, due>>
      BY <1>0, <1>7 DEF CallSlot, TypeOK
    <2>2. TypeOK'
      BY <1>0, <1>a, <2>1 DEF TypeOK
    <2> QED BY <1>0, <2>1, <2>2
            DEF IInv, InOrder, Given, WalkedPast, GoneIsMarked, Ascending
  <1>8. CASE SlotReturns \/ SlotThrows
    <2>1. /\ phase = "exec" /\ phase' \in {"scan", "idle"}
          /\ cursor' \in {cursor, cursor + 1}
          /\ UNCHANGED <<list, added, removed, nextId, tmp, gone, called, due>>
      BY <1>8 DEF SlotReturns, SlotThrows
    <2>2. cursor' \in Nat \ {0}
      BY <1>0, <2>1 DEF TypeOK
    <2>3. TypeOK'
      BY <1>0, <2>1, <2>2 DEF TypeOK
    <2>4. tmp = {} /\ phase' # "clear"
      BY <1>0, <2>1 DEF WalkedPast
    <2> QED BY <1>0, <2>1, <2>3, <2>4
            DEF IInv, InOrder, Given, WalkedPast, GoneIsMarked, Ascending
  <1>9. CASE SwapRemoved
    <2>1. /\ tmp' = removed /\ removed' = {} /\ cursor' = 1 /\ phase' = "clear"
          /\ phase = "scan" /\ UNCHANGED <<list, added, nextId, gone, called, due>>
      BY <1>9 DEF SwapRemoved
    <2>2. TypeOK'
      BY <1>0, <2>1 DEF TypeOK
    <2>3. WalkedPast'
      BY <2>1 DEF WalkedPast
    <2>4. GoneIsMarked'
      BY <1>0, <2>1 DEF GoneIsMarked, WalkedPast
    <2> QED BY <1>0, <2>1, <2>2, <2>3, <2>4 DEF IInv, InOrder, Given, Ascending
  <1>10. CASE ClearOne
    <2>1. PICK b \in tmp, stop \in cursor..(Len(list) + 1) :
             /\ \A o \in tmp : b <= o
             /\ \A j \in cursor..(stop - 1) : list[j] < b
             /\ stop <= Len(list) => list[stop] >= b
             /\ tmp' = tmp \ {b} /\ cursor' = stop
             /\ list' = IF stop <= Len(list) /\ list[stop] = b
                          THEN RemoveAt(list, stop) ELSE list
      BY <1>10 DEF ClearOne
    <2>2. phase = "clear" /\ UNCHANGED <<added, removed, nextId, phase, gone, called, due>>
      BY <1>10 DEF ClearOne
    <2>3. stop \in Nat \ {0} /\ b \in Int
      BY <1>0, <1>a DEF TypeOK
    <2>4. \A i \in 1..Len(list) : i < stop => list[i] < b
      BY <1>0, <1>a, <2>1, <2>3 DEF WalkedPast
    <2>5. CASE stop <= Len(list) /\ list[stop] = b
      <3>1. stop \in 1..Len(list) /\ list' = RemoveAt(list, stop)
        BY <1>a, <2>1, <2>3, <2>5
      <3>2. /\ list' \in Seq(Ids) /\ Ascending(list')
            /\ \A j \in 1..Len(list') :
                  list'[j] # b /\ \E k \in 1..Len(list) : list'[j] = list[k]
        BY <2>5, <3>1, EraseFromList
      <3>3. Len(list') = Len(list) - 1
            /\ \A j \in 1..(Len(list) - 1) : j < stop => list'[j] = list[j]
        BY <1>0, <3>1, Erased DEF TypeOK
      <3>4. TypeOK'
        BY <1>0, <2>1, <2>2, <2>3, <3>2 DEF TypeOK
      <3>5. InOrder' /\ Given'
        BY <1>0, <2>2, <3>2 DEF InOrder, Given
      <3>6. WalkedPast'
        <4> SUFFICES ASSUME NEW i \in 1..Len(list'), NEW c \in tmp', i < stop
                     PROVE  list'[i] < c
          BY <2>1, <2>2 DEF WalkedPast
        <4>1. i \in 1..(Len(list) - 1) /\ i \in 1..Len(list)
          BY <1>a, <3>3
        <4>2. list'[i] = list[i] /\ list[i] < b /\ b <= c /\ list[i] \in Int /\ c \in Int
          BY <1>a, <2>1, <2>4, <3>3, <4>1
        <4> QED BY <2>3, <4>2
      <3>7. GoneIsMarked'
        BY <1>0, <2>1, <2>2, <3>2 DEF GoneIsMarked
      <3> QED BY <3>4, <3>5, <3>6, <3>7 DEF IInv
    <2>6. CASE ~(stop <= Len(list) /\ list[stop] = b)
      <3>1. list' = list
        BY <2>1, <2>6
      <3>2. \A i \in 1..Len(list) : list[i] # b
        <4> SUFFICES ASSUME NEW i \in 1..Len(list), list[i] = b PROVE FALSE
          OBVIOUS
        <4>1. ~(i < stop) /\ i # stop
          BY <1>a, <2>3, <2>4, <2>6
        <4>2. stop \in 1..Len(list) /\ stop < i
          BY <1>a, <2>3, <4>1
        <4>3. list[stop] < list[i] /\ list[stop] >= b
          BY <1>0, <2>1, <4>2 DEF InOrder, Ascending
        <4> QED BY <1>a, <2>3, <4>2, <4>3
      <3>3. TypeOK'
        BY <1>0, <2>1, <2>2, <2>3, <3>1 DEF TypeOK
      <3>4. InOrder' /\ Given'
        BY <1>0, <2>2, <3>1 DEF InOrder, Given, Ascending
      <3>5. WalkedPast'
        <4> SUFFICES ASSUME NEW i \in 1..Len(list), NEW c \in tmp', i < stop
                     PROVE  list[i] < c
          BY <2>1, <2>2, <3>1 DEF WalkedPast
        <4>1. list[i] < b /\ b <= c /\ list[i] \in Int /\ c \in Int
          BY <1>a, <2>1, <2>4
        <4> QED BY <2>3, <4>1
      <3>6. GoneIsMarked'
        BY <1>0, <2>1, <2>2, <3>1, <3>2 DEF GoneIsMarked
      <3> QED BY <3>3, <3>4, <3>5, <3>6 DEF IInv
    <2> QED BY <2>5, <2>6
  <1>11. CASE EmitEnd
    <2>1. /\ phase = "clear" /\ (tmp = {} \/ cursor > Len(list))
          /\ tmp' = {} /\ phase' = "idle"
          /\ UNCHANGED <<list, added, removed, nextId, cursor, gone, called, due>>
      BY <1>11 DEF EmitEnd
    <2>2. \A i \in 1..Len(list) : list[i] \notin tmp
      BY <1>0, <1>a, <2>1 DEF WalkedPast
    <2>3. TypeOK'
      BY <1>0, <2>1 DEF TypeOK
    <2> QED BY <1>0, <2>1, <2>2, <2>3
            DEF IInv, InOrder, Given, WalkedPast, GoneIsMarked, Ascending
  <1> QED BY <1>1, <1>2, <1>3, <1>4, <1>5, <1>6, <1>7, <1>8, <1>9, <1>10, <1>11
          DEF Next, EmitStep

\* The invariant holds in every state of every behaviour.
THEOREM Invariance == Spec => []IInv
  BY InitIInv, NextIInv, PTL DEF Spec

\* The lists are in the order of connection, each slot once.
THEOREM AlwaysInOrder == Spec => []InOrder
  <1>1. IInv => InOrder
    BY DEF IInv
  <1> QED BY Invariance, <1>1, PTL

\* The mark of an unsubscribed slot is there as long as its node is.
THEOREM MarkNeverLost == Spec => []GoneIsMarked
  <1>1. IInv => GoneIsMarked
    BY DEF IInv
  <1> QED BY Invariance, <1>1, PTL

\* What the searches of remove_by_index and the emission rely on: the lists are in
\* order and every slot unsubscribed is marked.
THEOREM SlotsAreAccounted == Spec => []SlotsAccounted
  <1>1. IInv => SlotsAccounted
    BY DEF IInv, SlotsAccounted
  <1> QED BY Invariance, <1>1, PTL

\* No emission decides to call a slot whose unsubscribe has returned.
THEOREM UnsubscribedStaysSilent == Spec => NoCallAfterUnsubscribe
  <1>1. ASSUME IInv, [Next]_vars, Len(called') > Len(called)
        PROVE  called'[Len(called')] \notin gone
    <2>0. called \in Seq(Ids) /\ Len(called) \in Nat
      BY <1>1 DEF IInv, TypeOK
    <2>1. CASE CallSlot
      <3>1. /\ cursor \in 1..Len(list) /\ list[cursor] \notin removed /\ phase = "scan"
            /\ called' = Append(called, list[cursor])
        BY <1>1, <2>1 DEF CallSlot, IInv, TypeOK
      <3>2. list[cursor] \notin tmp
        BY <1>1, <3>1 DEF IInv, WalkedPast
      <3>3. list[cursor] \notin gone
        BY <1>1, <3>1, <3>2 DEF IInv, GoneIsMarked
      <3>4. list[cursor] \in Ids
        BY <1>1, <3>1 DEF IInv, TypeOK
      <3>5. called'[Len(called')] = list[cursor]
        BY <2>0, <3>1, <3>4
      <3> QED BY <3>3, <3>5
    <2>2. CASE EmitBegin
      <3>1. called' = <<>>
        BY <2>2 DEF EmitBegin
      <3> QED BY <1>1, <2>0, <3>1
    <2>3. CASE called' = called
      BY <1>1, <2>0, <2>3
    <2>4. CASE UNCHANGED vars
      BY <2>3, <2>4 DEF vars
    <2>5. ASSUME NEW id \in Ids, Unsubscribe(id) PROVE called' = called
      BY <2>5 DEF Unsubscribe
    <2>6. CASE Connect \/ UnsubscribeAll \/ SlotThrows
      BY <2>3, <2>6 DEF Connect, UnsubscribeAll, SlotThrows
    <2>7. CASE DropRemoved \/ SlotReturns \/ SwapRemoved \/ ClearOne \/ EmitEnd
      BY <2>3, <2>7 DEF DropRemoved, SlotReturns, SwapRemoved, ClearOne, EmitEnd
    <2> QED BY <1>1, <2>1, <2>2, <2>3, <2>4, <2>5, <2>6, <2>7 DEF Next, EmitStep
  <1>2. IInv /\ [Next]_vars
          => [ Len(called') > Len(called) => called'[Len(called')] \notin gone ]_vars
    BY <1>1
  <1> QED BY Invariance, <1>2, PTL DEF Spec, NoCallAfterUnsubscribe

(***************************************************************************)
(* What an emission calls.  A slot that is marked was unsubscribed, so that   *)
(* erasing it loses nothing; and while the list is walked, a slot that is due  *)
(* is called already, unsubscribed, or at the cursor or behind it.            *)
(***************************************************************************)
In(s, id) == \E i \in 1..Len(s) : s[i] = id

MarkedIsGone == removed \subseteq gone /\ tmp \subseteq gone

NothingLost == \A id \in Ids : id < nextId => id \in gone \/ In(list, id) \/ In(added, id)

CalledWereDue ==
    /\ Ascending(called)
    /\ \A i \in 1..Len(called) : called[i] \in due

Walking ==
    phase \in {"scan", "exec"} =>
        /\ \A i \in 1..Len(list) : list[i] \in due \cup gone
        /\ \A id \in due : \/ id \in gone \/ In(called, id)
                           \/ \E i \in 1..Len(list) : i >= cursor /\ list[i] = id
        /\ \A i \in 1..Len(called), j \in 1..Len(list) :
              j > cursor \/ (j = cursor /\ phase = "scan") => called[i] < list[j]
        /\ phase = "exec" => cursor <= Len(list) /\ In(called, list[cursor])

Walked == phase = "clear" => \A id \in due : id \in gone \/ In(called, id)

EInv == MarkedIsGone /\ NothingLost /\ CalledWereDue /\ Walking /\ Walked

\* Erasing a node leaves the others, those behind it one place further to the front.
LEMMA OthersStay ==
    ASSUME NEW s \in Seq(Ids), NEW i \in 1..Len(s)
    PROVE  /\ \A k \in 1..Len(s) : k # i =>
                 LET m == IF k < i THEN k ELSE k - 1
                 IN  m \in 1..Len(RemoveAt(s, i)) /\ RemoveAt(s, i)[m] = s[k]
           /\ \A id : In(s, id) /\ id # s[i] => In(RemoveAt(s, i), id)
  <1>1. /\ Len(s) \in Nat /\ Len(RemoveAt(s, i)) = Len(s) - 1
        /\ \A j \in 1..(Len(s) - 1) : RemoveAt(s, i)[j] = IF j < i THEN s[j] ELSE s[j + 1]
    BY Erased
  <1>2. ASSUME NEW k \in 1..Len(s), k # i, NEW m, m = IF k < i THEN k ELSE k - 1
        PROVE  m \in 1..Len(RemoveAt(s, i)) /\ RemoveAt(s, i)[m] = s[k]
    <2>1. CASE k < i
      <3>1. k \in 1..(Len(s) - 1)
        BY <1>1, <2>1
      <3> QED BY <1>1, <1>2, <2>1, <3>1
    <2>2. CASE ~(k < i)
      <3>1. k - 1 \in 1..(Len(s) - 1) /\ ~(k - 1 < i) /\ (k - 1) + 1 = k
        BY <1>1, <1>2, <2>2
      <3> QED BY <1>1, <1>2, <2>2, <3>1
    <2> QED BY <2>1, <2>2
  <1>3. ASSUME NEW id, In(s, id), id # s[i] PROVE In(RemoveAt(s, i), id)
    <2>1. PICK k \in 1..Len(s) : s[k] = id /\ k # i
      BY <1>3 DEF In
    <2> QED BY <1>2, <2>1 DEF In
  <1> QED BY <1>2, <1>3

\* remove_by_index leaves the other numbers.
LEMMA RemoveLeavesOthers ==
    ASSUME NEW s \in Seq(Ids), NEW id \in Ids, NEW other, In(s, other), other # id
    PROVE  In(RemoveByIndex(s, id), other)
  <1> DEFINE hits == {i \in 1..Len(s) :
                         /\ s[1] <= id /\ id <= s[Len(s)]
                         /\ StopsAt(s, id, i)
                         /\ s[i] = id}
  <1>1. CASE hits = {}
    BY <1>1 DEF RemoveByIndex
  <1>2. CASE hits # {}
    <2>1. PICK i \in hits : RemoveByIndex(s, id) = RemoveAt(s, i)
      BY <1>2 DEF RemoveByIndex
    <2>2. i \in 1..Len(s) /\ s[i] = id
      OBVIOUS
    <2>3. In(RemoveAt(s, i), other)
      BY <2>2, OthersStay
    <2> QED BY <2>1, <2>3
  <1> QED BY <1>1, <1>2

\* What the steps need of the types.
LEMMA Typing ==
    ASSUME IInv
    PROVE  /\ list \in Seq(Ids) /\ Len(list) \in Nat
           /\ added \in Seq(Ids) /\ Len(added) \in Nat
           /\ called \in Seq(Ids) /\ Len(called) \in Nat
           /\ cursor \in Nat /\ cursor > 0
           /\ nextId \in Nat /\ nextId > 0 /\ nextId <= MaxId + 1
           /\ phase # "clear" => tmp = {}
           /\ \A id : id \in Ids <=> id \in Nat /\ 0 < id /\ id <= MaxId
           /\ MaxId \in Nat
           /\ removed \subseteq Ids /\ tmp \subseteq Ids /\ gone \subseteq Ids /\ due \subseteq Ids
  BY MaxIdAssumption DEF IInv, TypeOK, WalkedPast, Ids

\* The numbers that were given.
LEMMA Numbered ==
    ASSUME IInv
    PROVE  \A id : id \in 1..(nextId - 1) <=> id \in Ids /\ id < nextId
  <1>1. nextId \in Int /\ nextId <= MaxId + 1 /\ MaxId \in Int
    BY Typing
  <1> QED BY <1>1 DEF Ids

LEMMA InitEInv == Init => EInv
  <1> SUFFICES ASSUME Init PROVE EInv
    OBVIOUS
  <1>1. list = <<>> /\ called = <<>> /\ nextId = 1 /\ removed = {} /\ tmp = {} /\ phase = "idle"
    BY DEF Init
  <1>2. Len(called) = 0 /\ \A id \in Ids : ~(id < nextId)
    BY <1>1, MaxIdAssumption DEF Ids
  <1> QED BY <1>1, <1>2 DEF EInv, MarkedIsGone, NothingLost, CalledWereDue, Ascending, Walking, Walked

\* A step that leaves the emission alone, but for what is unsubscribed, loses nothing.
LEMMA Aside ==
    ASSUME EInv, UNCHANGED <<list, phase, cursor, called, due>>, gone \subseteq gone',
           MarkedIsGone', NothingLost'
    PROVE  EInv'
  <1>1. CalledWereDue'
    BY DEF EInv, CalledWereDue, Ascending
  <1>2. Walked'
    BY DEF EInv, Walked, In
  <1>3. Walking'
    <2>1. CASE phase \notin {"scan", "exec"}
      BY <2>1 DEF Walking
    <2>2. CASE phase \in {"scan", "exec"}
      <3>1. /\ \A i \in 1..Len(list) : list[i] \in due \cup gone
            /\ \A id \in due : \/ id \in gone \/ In(called, id)
                               \/ \E i \in 1..Len(list) : i >= cursor /\ list[i] = id
            /\ \A i \in 1..Len(called), j \in 1..Len(list) :
                  j > cursor \/ (j = cursor /\ phase = "scan") => called[i] < list[j]
            /\ phase = "exec" => cursor <= Len(list) /\ In(called, list[cursor])
        BY <2>2 DEF EInv, Walking
      <3> QED BY <3>1 DEF Walking, In
    <2> QED BY <2>1, <2>2
  <1> QED BY <1>1, <1>2, <1>3 DEF EInv

LEMMA ConnectEInv ==
    ASSUME IInv, EInv, Connect
    PROVE  EInv'
  <1>1. /\ nextId <= MaxId /\ added' = Append(added, nextId) /\ nextId' = nextId + 1
        /\ UNCHANGED <<list, removed, phase, cursor, tmp, gone, called, due>>
    BY DEF Connect
  <1>2. /\ Len(added') = Len(added) + 1 /\ Len(added) \in Nat
        /\ added'[Len(added) + 1] = nextId
        /\ \A j \in 1..Len(added) : added'[j] = added[j]
    <2>1. nextId \in Ids
      BY <1>1, Typing
    <2> QED BY <1>1, <2>1, Typing
  <1>3. NothingLost'
    <2> SUFFICES ASSUME NEW id \in Ids, id < nextId'
                 PROVE  id \in gone \/ In(list, id) \/ In(added', id)
      BY <1>1 DEF NothingLost, In
    <2>1. CASE id = nextId
      BY <1>2, <2>1 DEF In
    <2>2. CASE id # nextId
      <3>1. id < nextId
        BY <1>1, <2>2, Typing
      <3>2. In(added, id) => In(added', id)
        BY <1>2 DEF In
      <3> QED BY <3>1, <3>2 DEF EInv, NothingLost
    <2> QED BY <2>1, <2>2
  <1>4. MarkedIsGone'
    BY <1>1 DEF EInv, MarkedIsGone
  <1> QED BY <1>1, <1>3, <1>4, Aside

LEMMA UnsubscribeEInv ==
    ASSUME IInv, EInv, NEW id \in Ids, Unsubscribe(id)
    PROVE  EInv'
  <1>1. /\ removed' = removed \cup {id} /\ added' = RemoveByIndex(added, id)
        /\ gone' = gone \cup {id}
        /\ UNCHANGED <<list, nextId, phase, cursor, tmp, called, due>>
    BY DEF Unsubscribe
  <1>2. NothingLost'
    <2> SUFFICES ASSUME NEW other \in Ids, other < nextId
                 PROVE  other \in gone' \/ In(list, other) \/ In(added', other)
      BY <1>1 DEF NothingLost, In
    <2>1. CASE other = id
      BY <1>1, <2>1
    <2>2. CASE other # id
      <3>1. In(added, other) => In(RemoveByIndex(added, id), other)
        BY <2>2, RemoveLeavesOthers, Typing
      <3> QED BY <1>1, <3>1 DEF EInv, NothingLost
    <2> QED BY <2>1, <2>2
  <1>3. MarkedIsGone'
    BY <1>1 DEF EInv, MarkedIsGone
  <1> QED BY <1>1, <1>2, <1>3, Aside

LEMMA EmitBeginEInv ==
    ASSUME IInv, EInv, EmitBegin
    PROVE  EInv'
  <1>1. /\ phase = "idle" /\ list' = list \o added /\ added' = <<>> /\ phase' = "scan"
        /\ cursor' = 1 /\ called' = <<>> /\ due' = (1..(nextId - 1)) \ gone
        /\ UNCHANGED <<removed, nextId, tmp, gone>>
    BY DEF EmitBegin
  <1>2. /\ list \in Seq(Ids) /\ added \in Seq(Ids)
    BY Typing
  <1>3. /\ Len(list \o added) = Len(list) + Len(added)
        /\ Len(list) \in Nat /\ Len(added) \in Nat
        /\ \A j \in 1..Len(list) : (list \o added)[j] = list[j]
        /\ \A j \in 1..Len(added) : (list \o added)[Len(list) + j] = added[j]
        /\ \A j \in 1..Len(list \o added) : (list \o added)[j] \in Ids
        /\ \A j \in 1..Len(list \o added) : (list \o added)[j] < nextId
    <2>1. /\ Len(list \o added) = Len(list) + Len(added)
          /\ Len(list) \in Nat /\ Len(added) \in Nat
          /\ \A j \in 1..Len(list) : (list \o added)[j] = list[j]
          /\ \A j \in 1..Len(added) : (list \o added)[Len(list) + j] = added[j]
      BY <1>2
    <2>2. ASSUME NEW j \in 1..Len(list \o added)
          PROVE  (list \o added)[j] \in Ids /\ (list \o added)[j] < nextId
      <3>1. CASE j <= Len(list)
        <4>1. j \in 1..Len(list)
          BY <2>1, <3>1
        <4>2. list[j] \in Ids /\ list[j] < nextId
          BY <1>2, <4>1 DEF IInv, Given
        <4> QED BY <2>1, <4>1, <4>2
      <3>2. CASE ~(j <= Len(list))
        <4>1. j - Len(list) \in 1..Len(added) /\ Len(list) + (j - Len(list)) = j
          BY <2>1, <3>2
        <4>2. added[j - Len(list)] \in Ids /\ added[j - Len(list)] < nextId
          BY <1>2, <4>1 DEF IInv, Given
        <4> QED BY <2>1, <4>1, <4>2
      <3> QED BY <3>1, <3>2
    <2> QED BY <2>1, <2>2
  <1>4. \A id : In(list, id) \/ In(added, id) => In(list \o added, id)
    <2>1. ASSUME NEW id, In(list, id) PROVE In(list \o added, id)
      BY <1>3, <2>1 DEF In
    <2>2. ASSUME NEW id, In(added, id) PROVE In(list \o added, id)
      <3>1. PICK j \in 1..Len(added) : added[j] = id
        BY <2>2 DEF In
      <3>2. Len(list) + j \in 1..Len(list \o added)
        BY <1>3
      <3> QED BY <1>3, <3>1, <3>2 DEF In
    <2> QED BY <2>1, <2>2
  <1> DEFINE l == list \o added
  <1>5. list' = l
    BY <1>1
  <1> HIDE DEF l
  <1>6. NothingLost'
    <2>1. \A id \in Ids : id < nextId => id \in gone \/ In(l, id)
      BY <1>4 DEF EInv, NothingLost, l
    <2> QED BY <1>1, <1>5, <2>1 DEF NothingLost, In
  <1>7. Len(called') = 0
    BY <1>1
  <1>8. CalledWereDue' /\ MarkedIsGone' /\ Walked'
    BY <1>1, <1>7 DEF EInv, MarkedIsGone, CalledWereDue, Ascending, Walked
  <1>9. \A i \in 1..Len(l) : l[i] \in due' \cup gone'
    <2>1. \A i \in 1..Len(l) : l[i] \in 1..(nextId - 1)
      BY <1>3, Numbered DEF l
    <2> QED BY <1>1, <2>1
  <1>10. \A id \in due' : \E i \in 1..Len(l) : i >= 1 /\ l[i] = id
    <2> SUFFICES ASSUME NEW id \in due' PROVE \E i \in 1..Len(l) : i >= 1 /\ l[i] = id
      OBVIOUS
    <2>1. id \in Ids /\ id < nextId /\ id \notin gone
      <3>1. id \in 1..(nextId - 1) /\ id \notin gone
        BY <1>1
      <3> QED BY <3>1, Numbered
    <2>2. In(l, id)
      BY <1>4, <2>1 DEF EInv, NothingLost, l
    <2> QED BY <2>2 DEF In
  <1>11. Walking'
    <2>1. \A i \in 1..Len(called') : FALSE
      BY <1>7
    <2>2. phase' # "exec" /\ cursor' = 1
      BY <1>1
    <2> QED BY <1>5, <1>9, <1>10, <2>1, <2>2 DEF Walking
  <1> QED BY <1>6, <1>8, <1>11 DEF EInv

\* A marked node at the cursor is erased: nothing that is due and not unsubscribed.
LEMMA DropRemovedEInv ==
    ASSUME IInv, EInv, DropRemoved
    PROVE  EInv'
  <1>1. /\ phase = "scan" /\ cursor <= Len(list) /\ list[cursor] \in removed
        /\ removed' = removed \ {list[cursor]} /\ list' = RemoveAt(list, cursor)
        /\ UNCHANGED <<added, nextId, phase, cursor, tmp, gone, called, due>>
    BY DEF DropRemoved
  <1>2. cursor \in 1..Len(list) /\ list[cursor] \in gone
    BY <1>1, Typing DEF EInv, MarkedIsGone
  <1> DEFINE r == RemoveAt(list, cursor)
  <1>a. list \in Seq(Ids) /\ Len(list) \in Nat
    BY Typing
  <1>3. /\ Len(list) \in Nat /\ Len(r) = Len(list) - 1
        /\ \A j \in 1..(Len(list) - 1) : r[j] = IF j < cursor THEN list[j] ELSE list[j + 1]
        /\ \A k \in 1..Len(list) : k # cursor =>
              LET m == IF k < cursor THEN k ELSE k - 1
              IN  m \in 1..Len(r) /\ r[m] = list[k]
        /\ \A id : In(list, id) /\ id # list[cursor] => In(r, id)
    <2>1. /\ Len(r) = Len(list) - 1
          /\ \A j \in 1..(Len(list) - 1) : r[j] = IF j < cursor THEN list[j] ELSE list[j + 1]
      BY <1>2, <1>a, Erased, Zenon
    <2>2. /\ \A k \in 1..Len(list) : k # cursor =>
                LET m == IF k < cursor THEN k ELSE k - 1
                IN  m \in 1..Len(r) /\ r[m] = list[k]
          /\ \A id : In(list, id) /\ id # list[cursor] => In(r, id)
      BY <1>2, <1>a, OthersStay
    <2> QED BY <1>a, <2>1, <2>2
  <1>4. list' = r
    BY <1>1
  <1> HIDE DEF r
  <1>5. NothingLost'
    <2>1. \A id \in Ids : id < nextId => id \in gone \/ In(r, id) \/ In(added, id)
      BY <1>2, <1>3 DEF EInv, NothingLost
    <2> QED BY <1>1, <1>4, <2>1 DEF NothingLost
  <1>6. CalledWereDue' /\ MarkedIsGone' /\ Walked'
    BY <1>1 DEF EInv, MarkedIsGone, CalledWereDue, Ascending, Walked
  <1>7. /\ \A i \in 1..Len(list) : list[i] \in due \cup gone
        /\ \A id \in due : \/ id \in gone \/ In(called, id)
                           \/ \E i \in 1..Len(list) : i >= cursor /\ list[i] = id
        /\ \A i \in 1..Len(called), j \in 1..Len(list) : j >= cursor => called[i] < list[j]
    <2>1. cursor \in Nat /\ Len(list) \in Nat
      BY Typing
    <2> QED BY <1>1, <2>1 DEF EInv, Walking
  <1>8. \A i \in 1..Len(r) : r[i] \in due \cup gone
    BY <1>2, <1>3, <1>7
  <1>9. ASSUME NEW id \in due, id \notin gone, ~In(called, id)
        PROVE  \E i \in 1..Len(r) : i >= cursor /\ r[i] = id
    <2>1. PICK k \in 1..Len(list) : k >= cursor /\ list[k] = id
      BY <1>7, <1>9
    <2>2. k # cursor
      BY <1>2, <1>9, <2>1
    <2>3. k - 1 \in 1..Len(r) /\ r[k - 1] = id /\ k - 1 >= cursor
      BY <1>2, <1>3, <2>1, <2>2
    <2> QED BY <2>3
  <1>10. ASSUME NEW i \in 1..Len(called), NEW j \in 1..Len(r), j >= cursor
         PROVE  called[i] < r[j]
    <2>1. j + 1 \in 1..Len(list) /\ j + 1 >= cursor /\ r[j] = list[j + 1]
      BY <1>2, <1>3, <1>10
    <2> QED BY <1>7, <2>1
  <1>11. Walking'
    <2>1. cursor \in Nat /\ Len(r) \in Nat
      BY <1>2, <1>3, Typing
    <2> QED BY <1>1, <1>4, <1>8, <1>9, <1>10, <2>1 DEF Walking
  <1> QED BY <1>5, <1>6, <1>11 DEF EInv

\* The slot at the cursor is called: the next in the order, and due.
LEMMA CallSlotEInv ==
    ASSUME IInv, EInv, CallSlot
    PROVE  EInv'
  <1> DEFINE n == Len(called)
             id == list[cursor]
  <1>1. /\ phase = "scan" /\ cursor <= Len(list) /\ id \notin removed
        /\ phase' = "exec" /\ called' = Append(called, id)
        /\ UNCHANGED <<list, added, removed, nextId, cursor, tmp, gone, due>>
    BY DEF CallSlot
  <1>2. cursor \in 1..Len(list) /\ id \in Ids /\ cursor \in Nat
    BY <1>1, Typing
  <1>3. id \notin gone
    BY <1>1, <1>2, Typing DEF IInv, GoneIsMarked
  <1>4. /\ \A i \in 1..Len(list) : list[i] \in due \cup gone
        /\ \A x \in due : \/ x \in gone \/ In(called, x)
                          \/ \E i \in 1..Len(list) : i >= cursor /\ list[i] = x
        /\ \A i \in 1..n, j \in 1..Len(list) : j >= cursor => called[i] < list[j]
    <2>1. Len(list) \in Nat
      BY Typing
    <2> QED BY <1>1, <1>2, <2>1 DEF EInv, Walking
  <1>5. /\ n \in Nat /\ Len(called') = n + 1 /\ called'[n + 1] = id
        /\ \A i \in 1..n : called'[i] = called[i]
        /\ \A i \in 1..n : called[i] \in Ids
    BY <1>1, <1>2, Typing
  <1>6. id \in due /\ \A i \in 1..n : called[i] < id
    BY <1>2, <1>3, <1>4
  <1> HIDE DEF n
  <1>7. CalledWereDue'
    <2>1. Ascending(called) /\ \A i \in 1..n : called[i] \in due
      BY DEF EInv, CalledWereDue, n
    <2>2. Ascending(called')
      <3> SUFFICES ASSUME NEW i \in 1..(n + 1), NEW j \in 1..(n + 1), i < j
                   PROVE  called'[i] < called'[j]
        BY <1>5 DEF Ascending
      <3>1. i \in 1..n
        BY <1>5
      <3>2. CASE j \in 1..n
        BY <1>5, <2>1, <3>1, <3>2 DEF Ascending, n
      <3>3. CASE j = n + 1
        BY <1>5, <1>6, <3>1, <3>3
      <3> QED BY <1>5, <3>2, <3>3
    <2>3. \A i \in 1..(n + 1) : called'[i] \in due
      BY <1>5, <1>6, <2>1
    <2> QED BY <1>1, <1>5, <2>2, <2>3 DEF CalledWereDue
  <1>8. /\ In(called', id)
        /\ \A x : In(called, x) => In(called', x)
    BY <1>5 DEF In, n
  <1>9. NothingLost' /\ MarkedIsGone' /\ Walked'
    BY <1>1 DEF EInv, NothingLost, In, MarkedIsGone, Walked
  <1>10. ASSUME NEW i \in 1..(n + 1), NEW j \in 1..Len(list), j > cursor
         PROVE  called'[i] < list[j]
    <2>1. CASE i \in 1..n
      <3>1. j >= cursor
        BY <1>2, <1>10, Typing
      <3> QED BY <1>4, <1>5, <2>1, <3>1
    <2>2. CASE i = n + 1
      <3>1. list[cursor] < list[j]
        BY <1>2, <1>10 DEF IInv, InOrder, Ascending
      <3> QED BY <1>5, <2>2, <3>1
    <2> QED BY <1>5, <2>1, <2>2
  <1>11. Walking'
    <2>1. \A x \in due : \/ x \in gone \/ In(called', x)
                         \/ \E i \in 1..Len(list) : i >= cursor /\ list[i] = x
      BY <1>4, <1>8
    <2>2. UNCHANGED <<list, cursor, gone, due>> /\ phase' = "exec" /\ Len(called') = n + 1
      BY <1>1, <1>5
    <2>3. cursor' <= Len(list') /\ In(called', list'[cursor'])
      BY <1>1, <1>8
    <2>4. \A i \in 1..Len(called'), j \in 1..Len(list') :
             j > cursor' \/ (j = cursor' /\ phase' = "scan") => called'[i] < list'[j]
      BY <1>10, <2>2
    <2> HIDE DEF id
    <2> QED BY <1>4, <2>1, <2>2, <2>3, <2>4 DEF Walking
  <1> QED BY <1>7, <1>9, <1>11 DEF EInv

\* The slot returns, and the walk goes on behind it.
LEMMA SlotReturnsEInv ==
    ASSUME IInv, EInv, SlotReturns
    PROVE  EInv'
  <1>1. /\ phase = "exec" /\ phase' = "scan" /\ cursor' = cursor + 1
        /\ UNCHANGED <<list, added, removed, nextId, tmp, gone, called, due>>
    BY DEF SlotReturns
  <1>2. /\ \A i \in 1..Len(list) : list[i] \in due \cup gone
        /\ \A x \in due : \/ x \in gone \/ In(called, x)
                          \/ \E i \in 1..Len(list) : i >= cursor /\ list[i] = x
        /\ \A i \in 1..Len(called), j \in 1..Len(list) : j > cursor => called[i] < list[j]
        /\ cursor <= Len(list) /\ In(called, list[cursor])
    BY <1>1 DEF EInv, Walking
  <1>3. cursor \in Nat /\ Len(list) \in Nat
    BY Typing
  <1>4. ASSUME NEW x \in due, x \notin gone, ~In(called, x)
        PROVE  \E i \in 1..Len(list) : i >= cursor + 1 /\ list[i] = x
    <2>1. PICK i \in 1..Len(list) : i >= cursor /\ list[i] = x
      BY <1>2, <1>4
    <2>2. i # cursor
      BY <1>2, <1>4, <2>1
    <2> QED BY <1>3, <2>1, <2>2
  <1>5. \A i \in 1..Len(called), j \in 1..Len(list) : j >= cursor + 1 => called[i] < list[j]
    BY <1>2, <1>3
  <1>6. Walking'
    <2>1. \A x \in due : \/ x \in gone \/ In(called, x)
                         \/ \E i \in 1..Len(list) : i >= cursor + 1 /\ list[i] = x
      BY <1>4
    <2> QED BY <1>1, <1>2, <1>3, <1>5, <2>1 DEF Walking, In
  <1>7. NothingLost' /\ MarkedIsGone' /\ Walked' /\ CalledWereDue'
    BY <1>1 DEF EInv, NothingLost, In, MarkedIsGone, Walked, CalledWereDue, Ascending
  <1> QED BY <1>6, <1>7 DEF EInv

\* The walk is over: what was due is called.
LEMMA SwapRemovedEInv ==
    ASSUME IInv, EInv, SwapRemoved
    PROVE  EInv'
  <1>1. /\ phase = "scan" /\ cursor > Len(list) /\ tmp' = removed /\ removed' = {}
        /\ phase' = "clear"
        /\ UNCHANGED <<list, added, nextId, gone, called, due>>
    BY DEF SwapRemoved
  <1>2. \A x \in due : \/ x \in gone \/ In(called, x)
                       \/ \E i \in 1..Len(list) : i >= cursor /\ list[i] = x
    BY <1>1 DEF EInv, Walking
  <1>3. \A x \in due : x \in gone \/ In(called, x)
    BY <1>1, <1>2, Typing
  <1>4. Walked' /\ Walking'
    BY <1>1, <1>3 DEF Walked, Walking, In
  <1>5. NothingLost' /\ MarkedIsGone' /\ CalledWereDue'
    BY <1>1 DEF EInv, NothingLost, In, MarkedIsGone, CalledWereDue, Ascending
  <1> QED BY <1>4, <1>5 DEF EInv

\* The clean-up erases what is unsubscribed, and nothing else.
LEMMA ClearOneEInv ==
    ASSUME IInv, EInv, ClearOne
    PROVE  EInv'
  <1>1. /\ phase = "clear"
        /\ UNCHANGED <<added, removed, nextId, phase, gone, called, due>>
    BY DEF ClearOne
  <1>2. PICK b \in tmp, stop \in cursor..(Len(list) + 1) :
           /\ tmp' = tmp \ {b}
           /\ list' = IF stop <= Len(list) /\ list[stop] = b
                        THEN RemoveAt(list, stop) ELSE list
    BY DEF ClearOne
  <1>3. \A id : In(list, id) /\ id # b => In(list', id)
    <2>1. CASE ~(stop <= Len(list) /\ list[stop] = b)
      BY <1>2, <2>1
    <2>2. CASE stop <= Len(list) /\ list[stop] = b
      <3>1. stop \in 1..Len(list)
        BY <2>2, Typing
      <3>2. \A id : In(list, id) /\ id # b => In(RemoveAt(list, stop), id)
        BY <2>2, <3>1, Typing, OthersStay
      <3> QED BY <1>2, <2>2, <3>2
    <2> QED BY <2>1, <2>2
  <1>4. b \in gone
    BY DEF EInv, MarkedIsGone
  <1>5. NothingLost'
    BY <1>1, <1>3, <1>4 DEF EInv, NothingLost, In
  <1>6. MarkedIsGone' /\ CalledWereDue' /\ Walked' /\ Walking'
    BY <1>1, <1>2 DEF EInv, MarkedIsGone, CalledWereDue, Ascending, Walked, Walking, In
  <1> QED BY <1>5, <1>6 DEF EInv

LEMMA NextEInv ==
    ASSUME IInv, EInv, [Next]_vars
    PROVE  EInv'
  <1>1. CASE UNCHANGED vars
    <2>1. UNCHANGED <<list, added, removed, nextId, phase, cursor, tmp, gone, called, due>>
      BY <1>1 DEF vars
    <2>2. NothingLost' /\ MarkedIsGone'
      BY <2>1 DEF EInv, NothingLost, In, MarkedIsGone
    <2> QED BY <2>1, <2>2, Aside
  <1>2. CASE UnsubscribeAll
    <2>1. /\ phase = "idle" /\ removed' = {} /\ gone' = 1..(nextId - 1)
          /\ UNCHANGED <<nextId, phase, cursor, tmp, called, due>>
      BY <1>2 DEF UnsubscribeAll
    <2>2. tmp = {}
      BY <2>1, Typing
    <2>3. NothingLost' /\ MarkedIsGone'
      BY <2>1, <2>2, Typing DEF NothingLost, MarkedIsGone
    <2>4. CalledWereDue' /\ Walking' /\ Walked'
      BY <2>1 DEF EInv, CalledWereDue, Ascending, Walking, Walked
    <2> QED BY <2>3, <2>4 DEF EInv
  <1>3. CASE SlotThrows
    <2>1. /\ phase' = "idle"
          /\ UNCHANGED <<list, added, removed, nextId, cursor, tmp, gone, called, due>>
      BY <1>3 DEF SlotThrows
    <2> QED BY <2>1 DEF EInv, NothingLost, In, MarkedIsGone, CalledWereDue, Ascending, Walking, Walked
  <1>4. CASE EmitEnd
    <2>1. /\ phase' = "idle" /\ tmp' = {}
          /\ UNCHANGED <<list, added, removed, nextId, cursor, gone, called, due>>
      BY <1>4 DEF EmitEnd
    <2> QED BY <2>1 DEF EInv, NothingLost, In, MarkedIsGone, CalledWereDue, Ascending, Walking, Walked
  <1> QED BY <1>1, <1>2, <1>3, <1>4, ConnectEInv, UnsubscribeEInv, EmitBeginEInv,
             DropRemovedEInv, CallSlotEInv, SlotReturnsEInv, SwapRemovedEInv, ClearOneEInv
          DEF Next, EmitStep

THEOREM EmissionInvariance == Spec => []EInv
  BY Invariance, InitEInv, NextEInv, PTL DEF Spec

\* Nobody who is subscribed is lost, and an emission calls who was subscribed when it
\* began: all of them, in the order of connection, and no other.
THEOREM EmissionsAreRight == Spec => []EmissionRight
  <1>1. ASSUME IInv, EInv PROVE EmissionRight
    <2>1. /\ \A id : In(list, id) => id \in Range(list)
          /\ \A id : In(added, id) => id \in Range(added)
          /\ \A id : In(called, id) => id \in Range(called)
      BY <1>1, Typing DEF In, Range
    <2>2. NoSlotLost
      <3>1. \A id \in 1..(nextId - 1) : id \in Ids /\ id < nextId
        BY <1>1, Numbered
      <3> QED BY <1>1, <2>1, <3>1 DEF NoSlotLost, EInv, NothingLost
    <2>3. EmissionComplete
      BY <1>1, <2>1 DEF EmissionComplete, EInv, Walked
    <2>4. CalledInOrder
      <3>1. \A id \in Range(called) : \E i \in 1..Len(called) : called[i] = id
        BY <1>1, Typing DEF Range
      <3> QED BY <1>1, <3>1 DEF CalledInOrder, EInv, CalledWereDue
    <2> QED BY <2>2, <2>3, <2>4 DEF EmissionRight
  <1> QED BY Invariance, EmissionInvariance, <1>1, PTL

----------------------------------------------------------------------------
(* Subscriptions.                                                            *)

(***************************************************************************)
(* What the steps do to the set of the slots that an emission would call.    *)
(***************************************************************************)

\* A slot is subscribed when it is in some signal.
LEMMA InSubscribed ==
    /\ \A t : t \in Subscribed <=> \E s \in Signals : t \in slots[s]
    /\ \A t : t \in Subscribed' <=> \E s \in Signals : t \in slots'[s]
  BY DEF Subscribed

\* The unsubscriber takes its slot off, and no other.
LEMMA RunTakesOff ==
    ASSUME NEW t, Run(t)
    PROVE  /\ Subscribed' = Subscribed \ {t}
           /\ \A s \in Signals : slots'[s] \subseteq slots[s]
  BY DEF Run, Subscribed

\* A subscription adds its slot, to the signal it was made at.
LEMMA SubscribeAdds ==
    ASSUME HandlesTypeOK, NEW s \in Signals, NEW p \in Plain, Subscribe(s, p)
    PROVE  /\ Subscribed' = Subscribed \cup {fresh}
           /\ slots'[s] = slots[s] \cup {fresh}
           /\ \A r \in Signals : r # s => slots'[r] = slots[r]
  <1>1. /\ slots'[s] = slots[s] \cup {fresh}
        /\ \A r \in Signals : r # s => slots'[r] = slots[r]
    BY DEF HandlesTypeOK, Subscribe
  <1> QED BY <1>1 DEF Subscribed

\* The end of a signal adds none.
LEMMA EmptyTakesOff ==
    ASSUME HandlesTypeOK, NEW s \in Signals, Empty(s)
    PROVE  /\ Subscribed' \subseteq Subscribed
           /\ \A r \in Signals : slots'[r] \subseteq slots[r]
  <1>1. \A r \in Signals : slots'[r] \subseteq slots[r]
    BY DEF HandlesTypeOK, Empty
  <1> QED BY <1>1 DEF Subscribed

\* A move of a signal adds none: it takes them from one to the other.
LEMMA MoveKeeps ==
    ASSUME HandlesTypeOK, NEW s \in Signals, NEW r \in Signals, MoveSignal(s, r)
    PROVE  /\ Subscribed' \subseteq Subscribed
           /\ slots'[s] = slots[r] /\ slots'[r] = {}
           /\ \A x \in Signals : x # s /\ x # r => slots'[x] = slots[x]
  <1>1. /\ slots'[s] = slots[r] /\ slots'[r] = {}
        /\ \A x \in Signals : x # s /\ x # r => slots'[x] = slots[x]
    BY DEF HandlesTypeOK, MoveSignal
  <1> QED BY <1>1 DEF Subscribed

(***************************************************************************)
(* The inductive invariant.  That no slot escapes its guard rests on the     *)
(* handles knowing only slots that were given out: a new subscription may    *)
(* not get a number that a guard has by chance.                               *)
(***************************************************************************)
GivenOut ==
    /\ \A p \in Plain : plain[p] < fresh
    /\ \A q \in Scoped : scoped[q] < fresh
    /\ \A t \in guarded : t < fresh

HandlesInv == SlotsKept /\ GivenOut

\* Every step keeps the types, and the handles know only what was given out.
LEMMA NextTyped ==
    ASSUME HandlesTypeOK, GivenOut, [HandlesNext]_handleVars
    PROVE  HandlesTypeOK' /\ GivenOut'
  <1>0. /\ MaxSlots \in Nat /\ fresh \in Nat
        /\ \A p \in Plain : plain[p] \in Slots \cup {None}
        /\ \A q \in Scoped : scoped[q] \in Slots \cup {None}
    BY MaxSlotsAssumption DEF HandlesTypeOK
  <1>1. ASSUME NEW t, Run(t) PROVE slots' \in [Signals -> SUBSET Slots]
    BY <1>1 DEF HandlesTypeOK, Run
  <1>2. CASE UNCHANGED handleVars
    BY <1>2 DEF handleVars, HandlesTypeOK, GivenOut
  <1>3. ASSUME NEW s \in Signals, Empty(s) PROVE HandlesTypeOK' /\ GivenOut'
    BY <1>3 DEF Empty, HandlesTypeOK, GivenOut
  <1>4. ASSUME NEW s \in Signals, NEW p \in Plain, Subscribe(s, p) PROVE HandlesTypeOK' /\ GivenOut'
    <2>1. fresh \in 1..MaxSlots /\ fresh' = fresh + 1 /\ fresh' \in 1..(MaxSlots + 1)
      BY <1>0, <1>4 DEF Subscribe, Slots
    <2>2. slots' \in [Signals -> SUBSET Slots] /\ plain' \in [Plain -> Slots \cup {None}]
      BY <1>4, <2>1 DEF Subscribe, HandlesTypeOK, Slots
    <2>3. HandlesTypeOK'
      BY <1>4, <2>1, <2>2 DEF Subscribe, HandlesTypeOK
    <2>4. UNCHANGED <<scoped, guarded>>
      BY <1>4 DEF Subscribe
    <2>5. \A o \in Plain : plain'[o] \in {plain[o], fresh}
      BY <1>4 DEF Subscribe, HandlesTypeOK
    <2>6. \A o \in Plain : plain'[o] < fresh'
      BY <1>0, <2>1, <2>5 DEF GivenOut, Slots, None
    <2>7. \A q \in Scoped : scoped'[q] < fresh'
      BY <1>0, <2>1, <2>4 DEF GivenOut, Slots, None
    <2>8. \A t \in guarded' : t < fresh'
      BY <1>0, <2>1, <2>4 DEF GivenOut, HandlesTypeOK, Slots
    <2> QED BY <2>3, <2>6, <2>7, <2>8 DEF GivenOut
  <1>5. ASSUME NEW s \in Signals, NEW r \in Signals, MoveSignal(s, r)
        PROVE  HandlesTypeOK' /\ GivenOut'
    BY <1>5 DEF MoveSignal, HandlesTypeOK, GivenOut
  <1>6. ASSUME NEW p \in Plain, UnsubscribePlain(p) PROVE HandlesTypeOK' /\ GivenOut'
    BY <1>1, <1>6 DEF UnsubscribePlain, HandlesTypeOK, GivenOut
  <1>7. ASSUME NEW p \in Plain, NEW o \in Plain, AssignPlain(p, o) \/ SwapPlain(p, o)
        PROVE  HandlesTypeOK' /\ GivenOut'
    BY <1>7 DEF AssignPlain, SwapPlain, HandlesTypeOK, GivenOut
  <1>8. ASSUME NEW q \in Scoped, NEW p \in Plain, TakePlain(q, p) \/ CopyPlain(q, p)
        PROVE  HandlesTypeOK' /\ GivenOut'
    <2>1. /\ slots' \in [Signals -> SUBSET Slots] /\ UNCHANGED fresh
          /\ scoped' = [scoped EXCEPT ![q] = plain[p]]
          /\ plain' = plain \/ plain' = [plain EXCEPT ![p] = scoped[q]]
          /\ guarded' = guarded \cup ({plain[p]} \ {None})
      BY <1>1, <1>8 DEF TakePlain, CopyPlain
    <2>2. plain[p] < fresh /\ scoped[q] < fresh
      BY DEF GivenOut
    <2>3. guarded' \in SUBSET Slots
      BY <1>0, <2>1 DEF HandlesTypeOK
    <2>4. HandlesTypeOK'
      BY <2>1, <2>3 DEF HandlesTypeOK
    <2> QED BY <2>1, <2>2, <2>4 DEF HandlesTypeOK, GivenOut
  <1>9. ASSUME NEW q \in Scoped, NEW p \in Plain, Release(q, p) PROVE HandlesTypeOK' /\ GivenOut'
    BY <1>0, <1>9 DEF Release, HandlesTypeOK, GivenOut, None
  <1>10. ASSUME NEW q \in Scoped, NEW o \in Scoped, MoveScoped(q, o) \/ SwapScoped(q, o)
         PROVE  HandlesTypeOK' /\ GivenOut'
    <2>1. /\ slots' \in [Signals -> SUBSET Slots] /\ UNCHANGED <<plain, fresh, guarded>>
          /\ \/ scoped' = [scoped EXCEPT ![q] = scoped[o], ![o] = None]
             \/ scoped' = [scoped EXCEPT ![q] = scoped[o], ![o] = scoped[q]]
      BY <1>1, <1>10 DEF MoveScoped, SwapScoped, HandlesTypeOK
    <2>2. None < fresh
      BY DEF HandlesTypeOK, None
    <2> QED BY <2>1, <2>2 DEF HandlesTypeOK, GivenOut
  <1>11. ASSUME NEW q \in Scoped, UnsubscribeScoped(q) \/ Reset(q) PROVE HandlesTypeOK' /\ GivenOut'
    <2>1. None < fresh
      BY DEF HandlesTypeOK, None
    <2> QED BY <1>1, <1>11, <2>1 DEF UnsubscribeScoped, Reset, HandlesTypeOK, GivenOut
  <1> QED BY <1>2, <1>3, <1>4, <1>5, <1>6, <1>7, <1>8, <1>9, <1>10, <1>11 DEF HandlesNext

\* Every step keeps a slot in one signal.
LEMMA NextOneSignal ==
    ASSUME HandlesInv, [HandlesNext]_handleVars
    PROVE  SlotInOneSignal'
  <1>0. HandlesTypeOK /\ SlotInOneSignal /\ fresh \in Nat
    BY DEF HandlesInv, SlotsKept, HandlesTypeOK
  <1>1. ASSUME UNCHANGED fresh, \A s \in Signals : slots'[s] \subseteq slots[s]
        PROVE  SlotInOneSignal'
    <2>1. Subscribed' \subseteq Subscribed
      BY <1>1, InSubscribed
    <2> QED BY <1>0, <1>1, <2>1 DEF SlotInOneSignal
  <1>2. CASE UNCHANGED <<slots, fresh>>
    BY <1>1, <1>2
  <1>3. ASSUME NEW t, Run(t), UNCHANGED fresh PROVE SlotInOneSignal'
    BY <1>1, <1>3, RunTakesOff
  <1>4. ASSUME NEW s \in Signals, Empty(s) PROVE SlotInOneSignal'
    BY <1>0, <1>1, <1>4, EmptyTakesOff DEF Empty
  <1>5. ASSUME NEW s \in Signals, NEW p \in Plain, Subscribe(s, p) PROVE SlotInOneSignal'
    <2>0. fresh' = fresh + 1 /\ fresh >= 1
      BY <1>0, <1>5 DEF Subscribe, Slots
    <2>1. /\ Subscribed' = Subscribed \cup {fresh}
          /\ slots'[s] = slots[s] \cup {fresh}
          /\ \A r \in Signals : r # s => slots'[r] = slots[r]
      BY <1>0, <1>5, SubscribeAdds
    <2>2. fresh \notin Subscribed
      BY <1>0 DEF SlotInOneSignal
    <2>3. \A r \in Signals : fresh \notin slots[r]
      BY <2>2, InSubscribed
    <2>4. \A x, r \in Signals : x # r => slots'[x] \cap slots'[r] = {}
      BY <1>0, <2>1, <2>3 DEF SlotInOneSignal
    <2>5. Subscribed' \subseteq 1..(fresh' - 1)
      BY <1>0, <2>0, <2>1 DEF SlotInOneSignal
    <2> QED BY <2>4, <2>5 DEF SlotInOneSignal
  <1>6. ASSUME NEW s \in Signals, NEW r \in Signals, MoveSignal(s, r) PROVE SlotInOneSignal'
    <2>1. /\ Subscribed' \subseteq Subscribed /\ s # r /\ UNCHANGED fresh
          /\ slots'[s] = slots[r] /\ slots'[r] = {}
          /\ \A x \in Signals : x # s /\ x # r => slots'[x] = slots[x]
      BY <1>0, <1>6, MoveKeeps DEF MoveSignal
    <2>2. \A x, y \in Signals : x # y => slots'[x] \cap slots'[y] = {}
      BY <1>0, <2>1 DEF SlotInOneSignal
    <2> QED BY <1>0, <2>1, <2>2 DEF SlotInOneSignal
  <1>7. CASE UNCHANGED handleVars
    BY <1>2, <1>7 DEF handleVars
  <1>8. ASSUME NEW p \in Plain, UnsubscribePlain(p) PROVE SlotInOneSignal'
    BY <1>3, <1>8 DEF UnsubscribePlain
  <1>9. ASSUME NEW p \in Plain, NEW o \in Plain, AssignPlain(p, o) \/ SwapPlain(p, o)
        PROVE  SlotInOneSignal'
    BY <1>2, <1>9 DEF AssignPlain, SwapPlain
  <1>10. ASSUME NEW q \in Scoped, NEW p \in Plain,
                TakePlain(q, p) \/ CopyPlain(q, p) \/ Release(q, p)
         PROVE  SlotInOneSignal'
    BY <1>2, <1>3, <1>10 DEF TakePlain, CopyPlain, Release
  <1>11. ASSUME NEW q \in Scoped, NEW o \in Scoped, MoveScoped(q, o) \/ SwapScoped(q, o)
         PROVE  SlotInOneSignal'
    BY <1>2, <1>3, <1>11 DEF MoveScoped, SwapScoped
  <1>12. ASSUME NEW q \in Scoped, UnsubscribeScoped(q) \/ Reset(q) PROVE SlotInOneSignal'
    BY <1>3, <1>12 DEF UnsubscribeScoped, Reset
  <1> QED BY <1>4, <1>5, <1>6, <1>7, <1>8, <1>9, <1>10, <1>11, <1>12 DEF HandlesNext

\* Every step keeps the guarded slots with their guards.
LEMMA NextNoEscape ==
    ASSUME HandlesInv, [HandlesNext]_handleVars
    PROVE  NoSlotEscapes'
  <1>0. HandlesTypeOK /\ NoSlotEscapes /\ GivenOut
    BY DEF HandlesInv, SlotsKept
  <1>1. ASSUME UNCHANGED <<scoped, guarded>>, Subscribed' \subseteq Subscribed
        PROVE  NoSlotEscapes'
    BY <1>0, <1>1 DEF NoSlotEscapes
  <1>2. CASE UNCHANGED <<scoped, guarded, slots>>
    BY <1>1, <1>2, InSubscribed
  <1>3. ASSUME NEW s \in Signals, Empty(s) PROVE NoSlotEscapes'
    BY <1>0, <1>1, <1>3, EmptyTakesOff DEF Empty
  <1>4. ASSUME NEW s \in Signals, NEW p \in Plain, Subscribe(s, p) PROVE NoSlotEscapes'
    <2>1. Subscribed' = Subscribed \cup {fresh} /\ UNCHANGED <<scoped, guarded>>
      BY <1>0, <1>4, SubscribeAdds DEF Subscribe
    <2>2. fresh \notin guarded
      BY <1>0 DEF GivenOut, HandlesTypeOK
    <2> QED BY <1>0, <2>1, <2>2 DEF NoSlotEscapes
  <1>5. ASSUME NEW s \in Signals, NEW r \in Signals, MoveSignal(s, r) PROVE NoSlotEscapes'
    BY <1>0, <1>1, <1>5, MoveKeeps DEF MoveSignal
  <1>6. ASSUME NEW p \in Plain, UnsubscribePlain(p) PROVE NoSlotEscapes'
    <2>1. Subscribed' \subseteq Subscribed
      BY <1>6, RunTakesOff DEF UnsubscribePlain
    <2> QED BY <1>1, <1>6, <2>1 DEF UnsubscribePlain
  <1>7. ASSUME NEW p \in Plain, NEW o \in Plain, AssignPlain(p, o) \/ SwapPlain(p, o)
        PROVE  NoSlotEscapes'
    BY <1>2, <1>7 DEF AssignPlain, SwapPlain
  <1>8. ASSUME NEW q \in Scoped, NEW p \in Plain, TakePlain(q, p) \/ CopyPlain(q, p)
        PROVE  NoSlotEscapes'
    <2>1. /\ Subscribed' = Subscribed \ {scoped[q]}
          /\ guarded' \subseteq guarded \cup {plain[p]}
      BY <1>8, RunTakesOff DEF TakePlain, CopyPlain
    <2>2. scoped'[q] = plain[p] /\ \A x \in Scoped : x # q => scoped'[x] = scoped[x]
      BY <1>0, <1>8 DEF TakePlain, CopyPlain, HandlesTypeOK
    <2> QED BY <1>0, <2>1, <2>2 DEF NoSlotEscapes
  <1>9. ASSUME NEW q \in Scoped, NEW p \in Plain, Release(q, p) PROVE NoSlotEscapes'
    <2>1. guarded' = guarded \ {scoped[q]} /\ Subscribed' = Subscribed
      BY <1>9, InSubscribed DEF Release
    <2>2. \A x \in Scoped : x # q => scoped'[x] = scoped[x]
      BY <1>0, <1>9 DEF Release, HandlesTypeOK
    <2> QED BY <1>0, <2>1, <2>2 DEF NoSlotEscapes
  <1>10. ASSUME NEW q \in Scoped, NEW o \in Scoped, MoveScoped(q, o) PROVE NoSlotEscapes'
    <2>1. Subscribed' = Subscribed \ {scoped[q]} /\ UNCHANGED guarded
      BY <1>10, RunTakesOff DEF MoveScoped
    <2>2. scoped'[q] = scoped[o] /\ \A x \in Scoped : x # q /\ x # o => scoped'[x] = scoped[x]
      BY <1>0, <1>10 DEF MoveScoped, HandlesTypeOK
    <2> QED BY <1>0, <2>1, <2>2 DEF NoSlotEscapes
  <1>11. ASSUME NEW q \in Scoped, NEW o \in Scoped, SwapScoped(q, o) PROVE NoSlotEscapes'
    <2>1. Subscribed' = Subscribed /\ UNCHANGED guarded
      BY <1>11, InSubscribed DEF SwapScoped
    <2>2. /\ scoped'[q] = scoped[o] /\ scoped'[o] = scoped[q]
          /\ \A x \in Scoped : x # q /\ x # o => scoped'[x] = scoped[x]
      BY <1>0, <1>11 DEF SwapScoped, HandlesTypeOK
    <2> QED BY <1>0, <2>1, <2>2 DEF NoSlotEscapes
  <1>12. ASSUME NEW q \in Scoped, UnsubscribeScoped(q) \/ Reset(q) PROVE NoSlotEscapes'
    <2>1. Subscribed' = Subscribed \ {scoped[q]} /\ UNCHANGED guarded
      BY <1>12, RunTakesOff DEF UnsubscribeScoped, Reset
    <2>2. \A x \in Scoped : x # q => scoped'[x] = scoped[x]
      BY <1>0, <1>12 DEF UnsubscribeScoped, Reset, HandlesTypeOK
    <2> QED BY <1>0, <2>1, <2>2 DEF NoSlotEscapes
  <1>13. CASE UNCHANGED handleVars
    BY <1>2, <1>13 DEF handleVars
  <1> QED BY <1>3, <1>4, <1>5, <1>6, <1>7, <1>8, <1>9, <1>10, <1>11, <1>12, <1>13 DEF HandlesNext

\* The invariant holds in every state of every behaviour.
THEOREM HandlesInvariance == HandlesSpec => []HandlesInv
  <1>1. HandlesInit => HandlesInv
    <2> SUFFICES ASSUME HandlesInit PROVE HandlesInv
      OBVIOUS
    <2>1. Subscribed = {}
      BY InSubscribed DEF HandlesInit
    <2>2. HandlesTypeOK /\ GivenOut
      BY MaxSlotsAssumption DEF HandlesInit, HandlesTypeOK, GivenOut, None
    <2>3. SlotInOneSignal
      BY <2>1 DEF HandlesInit, SlotInOneSignal
    <2> QED BY <2>1, <2>2, <2>3 DEF HandlesInv, SlotsKept, NoSlotEscapes
  <1>2. HandlesInv /\ [HandlesNext]_handleVars => HandlesInv'
    BY NextTyped, NextOneSignal, NextNoEscape DEF HandlesInv, SlotsKept
  <1> QED BY <1>1, <1>2, PTL DEF HandlesSpec

\* Every slot is where its handles look for it: in one signal at most, and, once a
\* guard was given it, subscribed only while a guard holds it.
THEOREM EverySlotIsKept == HandlesSpec => []SlotsKept
  <1>1. HandlesInv => SlotsKept
    BY DEF HandlesInv
  <1> QED BY HandlesInvariance, <1>1, PTL

(***************************************************************************)
(* The guards keep their promise: every step is a step of Guards, or changes *)
(* nothing there.                                                            *)
(***************************************************************************)

\* What a step takes off it may take off.
LEMMA EndsSome ==
    ASSUME Subscribed' \subseteq Subscribed, UNCHANGED <<plain, scoped>>
    PROVE  Ownership!Next
  <1>1. Ownership!End(Subscribed \ Subscribed')
    BY DEF Ownership!End
  <1> QED BY <1>1 DEF Ownership!Next

LEMMA StepImplements ==
    ASSUME HandlesInv, [HandlesNext]_handleVars
    PROVE  [Ownership!Next]_<<Subscribed, plain, scoped>>
  <1>0. HandlesTypeOK
    BY DEF HandlesInv, SlotsKept
  <1>1. CASE UNCHANGED handleVars
    BY <1>1, InSubscribed DEF handleVars
  <1>2. ASSUME NEW s \in Signals, Empty(s) PROVE Ownership!Next
    BY <1>0, <1>2, EmptyTakesOff, EndsSome DEF Empty
  <1>3. ASSUME NEW s \in Signals, NEW p \in Plain, Subscribe(s, p) PROVE Ownership!Next
    <2>1. Subscribed' = Subscribed \cup {fresh} /\ fresh \in Slots
      BY <1>0, <1>3, SubscribeAdds DEF Subscribe
    <2>2. Ownership!Connect(p, fresh)
      BY <1>3, <2>1 DEF Subscribe, Ownership!Connect
    <2> QED BY <2>1, <2>2 DEF Ownership!Next
  <1>4. ASSUME NEW s \in Signals, NEW r \in Signals, MoveSignal(s, r) PROVE Ownership!Next
    BY <1>0, <1>4, MoveKeeps, EndsSome DEF MoveSignal
  <1>5. ASSUME NEW t, Run(t), UNCHANGED <<plain, scoped>> PROVE Ownership!Next
    BY <1>5, RunTakesOff, EndsSome
  <1>6. ASSUME NEW p \in Plain, UnsubscribePlain(p) PROVE Ownership!Next
    BY <1>5, <1>6 DEF UnsubscribePlain
  <1>7. ASSUME NEW q \in Scoped, UnsubscribeScoped(q) PROVE Ownership!Next
    BY <1>5, <1>7 DEF UnsubscribeScoped
  <1>8. ASSUME NEW f \in [Plain -> Plain], plain' = [p \in Plain |-> plain[f[p]]],
               UNCHANGED <<slots, scoped>>
        PROVE  Ownership!Next
    <2>1. Subscribed' = Subscribed
      BY <1>8, InSubscribed
    <2>2. Ownership!Shuffle(f)
      BY <1>8, <2>1 DEF Ownership!Shuffle
    <2> QED BY <2>2 DEF Ownership!Next
  <1>9. ASSUME NEW p \in Plain, NEW o \in Plain, AssignPlain(p, o) PROVE Ownership!Next
    <2> DEFINE f == [x \in Plain |-> IF x = p THEN o ELSE x]
    <2>1. f \in [Plain -> Plain]
      OBVIOUS
    <2>2. plain' = [x \in Plain |-> plain[f[x]]]
      BY <1>0, <1>9 DEF AssignPlain, HandlesTypeOK
    <2>3. UNCHANGED <<slots, scoped>>
      BY <1>9 DEF AssignPlain
    <2> HIDE DEF f
    <2> QED BY <1>8, <2>1, <2>2, <2>3
  <1>10. ASSUME NEW p \in Plain, NEW o \in Plain, SwapPlain(p, o) PROVE Ownership!Next
    <2> DEFINE f == [x \in Plain |-> IF x = o THEN p ELSE IF x = p THEN o ELSE x]
    <2>1. f \in [Plain -> Plain]
      OBVIOUS
    <2>2. plain' = [x \in Plain |-> plain[f[x]]]
      BY <1>0, <1>10 DEF SwapPlain, HandlesTypeOK
    <2>3. UNCHANGED <<slots, scoped>>
      BY <1>10 DEF SwapPlain
    <2> HIDE DEF f
    <2> QED BY <1>8, <2>1, <2>2, <2>3
  <1>11. ASSUME NEW q \in Scoped, NEW p \in Plain, TakePlain(q, p) \/ CopyPlain(q, p)
         PROVE  Ownership!Next
    <2>1. Subscribed' = Subscribed \ {scoped[q]}
      BY <1>11, RunTakesOff DEF TakePlain, CopyPlain
    <2>2. Ownership!Give(q, p)
      BY <1>11, <2>1 DEF TakePlain, CopyPlain, Ownership!Give
    <2> QED BY <2>2 DEF Ownership!Next
  <1>12. ASSUME NEW q \in Scoped, NEW p \in Plain, Release(q, p) PROVE Ownership!Next
    <2>1. Subscribed' = Subscribed
      BY <1>12, InSubscribed DEF Release
    <2>2. Ownership!Release(q, p)
      BY <1>12, <2>1 DEF Release, Ownership!Release
    <2> QED BY <2>2 DEF Ownership!Next
  <1>13. ASSUME NEW q \in Scoped, NEW o \in Scoped, MoveScoped(q, o) PROVE Ownership!Next
    <2>1. Subscribed' = Subscribed \ {scoped[q]} /\ q # o
      BY <1>13, RunTakesOff DEF MoveScoped
    <2>2. Ownership!Move(q, o)
      BY <1>13, <2>1 DEF MoveScoped, Ownership!Move
    <2> QED BY <2>1, <2>2 DEF Ownership!Next
  <1>14. ASSUME NEW q \in Scoped, NEW o \in Scoped, SwapScoped(q, o) PROVE Ownership!Next
    <2>1. Subscribed' = Subscribed /\ q # o
      BY <1>14, InSubscribed DEF SwapScoped
    <2>2. Ownership!Swap(q, o)
      BY <1>14, <2>1 DEF SwapScoped, Ownership!Swap
    <2> QED BY <2>1, <2>2 DEF Ownership!Next
  <1>15. ASSUME NEW q \in Scoped, Reset(q) PROVE Ownership!Next
    <2>1. Subscribed' = Subscribed \ {scoped[q]}
      BY <1>15, RunTakesOff DEF Reset
    <2>2. Ownership!Drop(q)
      BY <1>15, <2>1 DEF Reset, Ownership!Drop
    <2> QED BY <2>2 DEF Ownership!Next
  <1> QED BY <1>1, <1>2, <1>3, <1>4, <1>6, <1>7, <1>9, <1>10, <1>11, <1>12, <1>13, <1>14, <1>15
          DEF HandlesNext

\* A guard ends what it owns when it should, and nothing else.
THEOREM GuardsKeepTheirPromise == HandlesSpec => ImplementsGuards
  <1>1. HandlesInit => Ownership!Init
    BY InSubscribed DEF HandlesInit, Ownership!Init
  <1>2. HandlesInv /\ [HandlesNext]_handleVars => [Ownership!Next]_<<Subscribed, plain, scoped>>
    BY StepImplements
  <1> QED BY HandlesInvariance, <1>1, <1>2, PTL DEF HandlesSpec, ImplementsGuards, Ownership!Spec
=============================================================================
