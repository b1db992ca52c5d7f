----------------------- MODULE PeriodicalTimer_proofs -----------------------
(***************************************************************************)
(* Proofs about PeriodicalTimer, for any threads and any number of calls and  *)
(* cancels: a handler that was cancelled is called once more at most, one     *)
(* that was told of an error never again.                                     *)
(***************************************************************************)
EXTENDS PeriodicalTimer, TLAPS

(***************************************************************************)
(* The inductive invariant.  A chain is in one place at a time: it waits, its  *)
(* handler is posted, runs, or some thread is in call() for it.               *)
(***************************************************************************)
UserSteps == {Nobody} \cup [at : {"set_enabled", "async_wait"}, chain : Chains]

Typed ==
    /\ enabled \in BOOLEAN
    /\ waits \in Seq(Chains)
    /\ ready \in Seq([chain : Chains, ok : BOOLEAN])
    /\ io \in {Nobody} \cup [at : {"enabled", "expires", "async_wait"}, chain : Chains]
    /\ user \in [Users -> UserSteps]
    /\ calls \in 0..MaxCalls /\ cancels \in 0..MaxCancels
    /\ late \in [Chains -> 0..2]
    /\ told \subseteq Chains

Waits(g) == \E i \in 1..Len(waits) : waits[i] = g
Posted(g) == \E i \in 1..Len(ready) : ready[i].chain = g
InCall(g) == \E u \in Users : user[u].chain = g

Begun == \A g \in Chains : Waits(g) \/ Posted(g) \/ io.chain = g \/ InCall(g) \/ g \in told
                              \/ late[g] # 0 => g <= calls

WaitsOnce == \A i, j \in 1..Len(waits) : waits[i] = waits[j] => i = j
PostedOnce == \A i, j \in 1..Len(ready) : ready[i].chain = ready[j].chain => i = j
CalledOnce == \A u, v \in Users : user[u].chain \in Chains /\ user[u].chain = user[v].chain => u = v

Elsewhere ==
    \A g \in Chains :
        /\ Waits(g) => ~Posted(g) /\ io.chain # g /\ ~InCall(g)
        /\ Posted(g) => io.chain # g /\ ~InCall(g)
        /\ io.chain = g => ~InCall(g)

OnePlace == WaitsOnce /\ PostedOnce /\ CalledOnce /\ Elsewhere

\* Who was told of an error is nowhere any more.
ToldIsNowhere ==
    \A g \in told : ~Waits(g) /\ ~Posted(g) /\ io.chain # g /\ ~InCall(g)

\* Whose handler was called while the timer is cancelled is at the test of enabled_,
\* or nowhere.
LateStops ==
    ~enabled => \A g \in Chains :
        late[g] # 0 => /\ ~Waits(g) /\ ~Posted(g) /\ ~InCall(g)
                       /\ io.chain = g => io.at = "enabled"

IInv == Typed /\ Begun /\ OnePlace /\ ToldIsNowhere /\ OneLateTick /\ LateStops

(***************************************************************************)
(* What the steps do to the places.                                           *)
(***************************************************************************)
LEMMA Typing ==
    ASSUME Typed
    PROVE  /\ waits \in Seq(Chains) /\ Len(waits) \in Nat
           /\ \A i \in 1..Len(waits) : waits[i] \in Chains
           /\ ready \in Seq([chain : Chains, ok : BOOLEAN]) /\ Len(ready) \in Nat
           /\ \A i \in 1..Len(ready) : ready[i].chain \in Chains /\ ready[i].ok \in BOOLEAN
           /\ 0 \notin Chains /\ \A g \in Chains : g \in Nat /\ g > 0 /\ g <= MaxCalls
           /\ calls \in Nat /\ calls <= MaxCalls /\ MaxCalls \in Nat
           /\ io = Nobody \/ io \in [at : {"enabled", "expires", "async_wait"}, chain : Chains]
           /\ late \in [Chains -> 0..2] /\ enabled \in BOOLEAN
           /\ told \subseteq Chains
  <1>1. /\ waits \in Seq(Chains) /\ ready \in Seq([chain : Chains, ok : BOOLEAN])
        /\ io = Nobody \/ io \in [at : {"enabled", "expires", "async_wait"}, chain : Chains]
        /\ calls \in 0..MaxCalls /\ late \in [Chains -> 0..2]
        /\ enabled \in BOOLEAN /\ told \subseteq Chains
    BY Zenon DEF Typed
  <1>2. Len(waits) \in Nat /\ \A i \in 1..Len(waits) : waits[i] \in Chains
    BY <1>1
  <1>3. Len(ready) \in Nat
        /\ \A i \in 1..Len(ready) : ready[i].chain \in Chains /\ ready[i].ok \in BOOLEAN
    <2> DEFINE S == [chain : Chains, ok : BOOLEAN]
    <2>1. \A h \in S : h.chain \in Chains /\ h.ok \in BOOLEAN
      OBVIOUS
    <2>2. ready \in Seq(S)
      BY <1>1
    <2> HIDE DEF S
    <2> QED BY <2>1, <2>2
  <1>4. 0 \notin Chains /\ \A g \in Chains : g \in Nat /\ g > 0 /\ g <= MaxCalls
    BY BoundsAssumption DEF Chains
  <1>5. calls \in Nat /\ calls <= MaxCalls /\ MaxCalls \in Nat
    BY <1>1, BoundsAssumption
  <1> QED BY <1>1, <1>2, <1>3, <1>4, <1>5, Zenon

\* All that wait are posted.
LEMMA CompleteEffect ==
    ASSUME Typed, WaitsOnce, PostedOnce, \A g \in Chains : Waits(g) => ~Posted(g),
           NEW ok \in BOOLEAN, Complete(ok)
    PROVE  /\ waits' \in Seq(Chains) /\ ready' \in Seq([chain : Chains, ok : BOOLEAN])
           /\ WaitsOnce' /\ PostedOnce'
           /\ \A g \in Chains : ~Waits(g)' /\ (Posted(g)' <=> Posted(g) \/ Waits(g))
  <1> DEFINE S == [chain : Chains, ok : BOOLEAN]
             posted == [i \in 1..Len(waits) |-> [chain |-> waits[i], ok |-> ok]]
  <1>1. waits' = <<>> /\ ready' = ready \o posted
    BY DEF Complete
  <1>2. /\ posted \in Seq(S) /\ Len(posted) = Len(waits)
        /\ \A i \in 1..Len(waits) : posted[i].chain = waits[i]
    <2>1. Len(waits) \in Nat /\ \A i \in 1..Len(waits) : waits[i] \in Chains
      BY Typing
    <2>2. \A i \in 1..Len(waits) : posted[i] \in S /\ posted[i].chain = waits[i]
      BY <2>1
    <2> QED BY <2>1, <2>2
  <1>3. ready \in Seq(S) /\ Len(ready) \in Nat /\ Len(waits) \in Nat
    BY Typing
  <1> HIDE DEF S, posted
  <1> DEFINE r == ready \o posted
  <1>4. /\ r \in Seq(S) /\ Len(r) = Len(ready) + Len(waits)
        /\ \A i \in 1..Len(ready) : r[i] = ready[i]
        /\ \A i \in 1..Len(waits) : r[Len(ready) + i] = posted[i]
    <2>1. posted \in Seq(S) /\ Len(posted) = Len(waits)
      BY <1>2
    <2>2. r \in Seq(S) /\ Len(r) = Len(ready) + Len(posted)
      BY <1>3, <2>1
    <2>3. \A i \in 1..Len(ready) : r[i] = ready[i]
      BY <1>3, <2>1
    <2>4. \A i \in 1..Len(posted) : r[Len(ready) + i] = posted[i]
      BY <1>3, <2>1
    <2> QED BY <2>1, <2>2, <2>3, <2>4
  <1>5. ready' = r
    BY <1>1
  <1> HIDE DEF r
  <1>6. \A i \in 1..Len(r) :
           \/ i \in 1..Len(ready) /\ r[i].chain = ready[i].chain
           \/ i - Len(ready) \in 1..Len(waits) /\ r[i].chain = waits[i - Len(ready)]
    <2> SUFFICES ASSUME NEW i \in 1..Len(r)
                 PROVE  \/ i \in 1..Len(ready) /\ r[i].chain = ready[i].chain
                        \/ i - Len(ready) \in 1..Len(waits) /\ r[i].chain = waits[i - Len(ready)]
      OBVIOUS
    <2>1. CASE i <= Len(ready)
      <3>1. i \in 1..Len(ready)
        BY <1>3, <1>4, <2>1
      <3> QED BY <1>4, <3>1
    <2>2. CASE ~(i <= Len(ready))
      <3>1. i - Len(ready) \in 1..Len(waits) /\ Len(ready) + (i - Len(ready)) = i
        BY <1>3, <1>4, <2>2
      <3> QED BY <1>2, <1>4, <3>1
    <2> QED BY <2>1, <2>2
  <1>7. \A i \in 1..Len(ready), j \in 1..Len(waits) : ready[i].chain # waits[j]
    BY Typing DEF Waits, Posted
  <1>8. \A i, j \in 1..Len(r) : r[i].chain = r[j].chain => i = j
    <2> SUFFICES ASSUME NEW i \in 1..Len(r), NEW j \in 1..Len(r), r[i].chain = r[j].chain
                 PROVE  i = j
      OBVIOUS
    <2>1. CASE i \in 1..Len(ready) /\ j \in 1..Len(ready)
      <3>1. ready[i].chain = ready[j].chain
        BY <1>4, <2>1
      <3> QED BY <2>1, <3>1 DEF PostedOnce
    <2>2. CASE i - Len(ready) \in 1..Len(waits) /\ j - Len(ready) \in 1..Len(waits)
      <3>1. i \notin 1..Len(ready) /\ j \notin 1..Len(ready)
        BY <1>3, <2>2
      <3>2. waits[i - Len(ready)] = waits[j - Len(ready)]
        BY <1>6, <3>1, Zenon
      <3>3. i - Len(ready) = j - Len(ready)
        BY <2>2, <3>2 DEF WaitsOnce
      <3> QED BY <1>3, <1>4, <3>3
    <2>3. CASE i \in 1..Len(ready) /\ j - Len(ready) \in 1..Len(waits)
      BY <1>3, <1>6, <1>7, <2>3
    <2>4. CASE j \in 1..Len(ready) /\ i - Len(ready) \in 1..Len(waits)
      BY <1>3, <1>6, <1>7, <2>4
    <2> QED BY <1>6, <2>1, <2>2, <2>3, <2>4
  <1>9. ASSUME NEW g \in Chains
        PROVE  (\E i \in 1..Len(r) : r[i].chain = g) <=> Posted(g) \/ Waits(g)
    <2>1. ASSUME Posted(g) PROVE \E i \in 1..Len(r) : r[i].chain = g
      BY <1>3, <1>4, <2>1 DEF Posted
    <2>2. ASSUME Waits(g) PROVE \E i \in 1..Len(r) : r[i].chain = g
      <3>1. PICK i \in 1..Len(waits) : waits[i] = g
        BY <2>2 DEF Waits
      <3>2. Len(ready) + i \in 1..Len(r)
        BY <1>3, <1>4
      <3> QED BY <1>2, <1>4, <3>1, <3>2
    <2>3. ASSUME \E i \in 1..Len(r) : r[i].chain = g PROVE Posted(g) \/ Waits(g)
      BY <1>6, <2>3 DEF Posted, Waits
    <2> QED BY <2>1, <2>2, <2>3
  <1>10. Len(waits') = 0
    BY <1>1
  <1>11. PostedOnce' /\ \A g \in Chains : Posted(g)' <=> Posted(g) \/ Waits(g)
    <2>1. PostedOnce'
      BY <1>5, <1>8 DEF PostedOnce
    <2>2. \A g \in Chains : Posted(g)' <=> \E i \in 1..Len(r) : r[i].chain = g
      BY <1>5 DEF Posted
    <2> QED BY <1>9, <2>1, <2>2
  <1>12. WaitsOnce' /\ \A g : ~Waits(g)'
    BY <1>10 DEF WaitsOnce, Waits
  <1> QED BY <1>1, <1>4, <1>5, <1>11, <1>12 DEF S

\* One more waits.
LEMMA AsyncWaitEffect ==
    ASSUME Typed, WaitsOnce, NEW g \in Chains, ~Waits(g), AsyncWait(g)
    PROVE  /\ waits' \in Seq(Chains) /\ WaitsOnce'
           /\ \A h : Waits(h)' <=> Waits(h) \/ h = g
  <1>1. /\ waits' \in Seq(Chains) /\ Len(waits) \in Nat /\ Len(waits') = Len(waits) + 1
        /\ waits'[Len(waits) + 1] = g
        /\ \A i \in 1..Len(waits) : waits'[i] = waits[i]
    BY Typing DEF AsyncWait
  <1>2. WaitsOnce'
    BY <1>1 DEF WaitsOnce, Waits
  <1>3. \A h : Waits(h)' <=> Waits(h) \/ h = g
    BY <1>1 DEF Waits
  <1> QED BY <1>1, <1>2, <1>3

\* The handler at the front is taken.
LEMMA TakenEffect ==
    ASSUME Typed, PostedOnce, ready # <<>>, ready' = Tail(ready)
    PROVE  /\ ready' \in Seq([chain : Chains, ok : BOOLEAN]) /\ PostedOnce'
           /\ Head(ready) \in [chain : Chains, ok : BOOLEAN]
           /\ Posted(Head(ready).chain)
           /\ \A g : Posted(g)' <=> Posted(g) /\ g # Head(ready).chain
  <1> DEFINE S == [chain : Chains, ok : BOOLEAN]
  <1>1. ready \in Seq(S)
    BY Typing
  <1> HIDE DEF S
  <1>2. /\ ready' \in Seq(S) /\ Len(ready) \in Nat /\ Len(ready) > 0
        /\ Len(ready') = Len(ready) - 1
        /\ \A i \in 1..(Len(ready) - 1) : ready'[i] = ready[i + 1]
        /\ Head(ready) = ready[1] /\ ready[1] \in S
    BY <1>1
  <1>3. PostedOnce'
    <2> SUFFICES ASSUME NEW i \in 1..Len(ready'), NEW j \in 1..Len(ready'),
                        ready'[i].chain = ready'[j].chain
                 PROVE  i = j
      BY DEF PostedOnce
    <2>1. i + 1 \in 1..Len(ready) /\ j + 1 \in 1..Len(ready)
      BY <1>2
    <2>2. ready[i + 1].chain = ready[j + 1].chain
      BY <1>2
    <2>3. i + 1 = j + 1
      BY <2>1, <2>2 DEF PostedOnce
    <2> QED BY <1>2, <2>3
  <1>4. ASSUME NEW g, Posted(g)' PROVE Posted(g) /\ g # Head(ready).chain
    <2>1. PICK i \in 1..Len(ready') : ready'[i].chain = g
      BY <1>4 DEF Posted
    <2>2. i + 1 \in 1..Len(ready) /\ ready[i + 1].chain = g /\ i + 1 # 1 /\ 1 \in 1..Len(ready)
      BY <1>2, <2>1
    <2>3. ready[1].chain # g
      BY <2>2 DEF PostedOnce
    <2> QED BY <1>2, <2>2, <2>3 DEF Posted
  <1>5. ASSUME NEW g, Posted(g), g # Head(ready).chain PROVE Posted(g)'
    <2>1. PICK i \in 1..Len(ready) : ready[i].chain = g
      BY <1>5 DEF Posted
    <2>2. i # 1
      BY <1>2, <1>5, <2>1
    <2>3. i - 1 \in 1..(Len(ready) - 1) /\ (i - 1) + 1 = i
      BY <1>2, <2>2
    <2>4. i - 1 \in 1..Len(ready') /\ ready'[i - 1].chain = g
      BY <1>2, <2>1, <2>3
    <2> QED BY <2>4 DEF Posted
  <1>6. Posted(Head(ready).chain)
    BY <1>2 DEF Posted
  <1> QED BY <1>2, <1>3, <1>4, <1>5, <1>6 DEF S

\* What a thread is in.
LEMMA UserTyping ==
    ASSUME Typed
    PROVE  /\ user \in [Users -> UserSteps]
           /\ \A u \in Users :
                 \/ user[u] = Nobody /\ user[u].chain = 0 /\ user[u].at = "idle"
                 \/ user[u].at \in {"set_enabled", "async_wait"} /\ user[u].chain \in Chains
           /\ 0 \notin Chains
  <1>1. user \in [Users -> UserSteps]
    BY Zenon DEF Typed
  <1>2. \A s \in UserSteps :
           \/ s = Nobody /\ s.chain = 0 /\ s.at = "idle"
           \/ s.at \in {"set_enabled", "async_wait"} /\ s.chain \in Chains
    BY DEF UserSteps, Nobody
  <1>3. 0 \notin Chains
    BY DEF Chains
  <1> QED BY <1>1, <1>2, <1>3

\* A thread comes to another step, with a chain that no other is in.
LEMMA UserEffect ==
    ASSUME Typed, CalledOnce, NEW u \in Users, NEW s \in UserSteps,
           user' = [user EXCEPT ![u] = s],
           s.chain \in Chains => \A v \in Users \ {u} : user[v].chain # s.chain
    PROVE  /\ user' \in [Users -> UserSteps] /\ CalledOnce'
           /\ \A g \in Chains :
                 InCall(g)' <=> s.chain = g \/ (InCall(g) /\ user[u].chain # g)
  <1>1. user' \in [Users -> UserSteps] /\ user'[u] = s
        /\ \A v \in Users : v # u => user'[v] = user[v]
    BY UserTyping
  <1>2. CalledOnce'
    BY <1>1 DEF CalledOnce
  <1>3. ASSUME NEW g \in Chains
        PROVE  InCall(g)' <=> s.chain = g \/ (InCall(g) /\ user[u].chain # g)
    <2>1. ASSUME InCall(g)' PROVE s.chain = g \/ (InCall(g) /\ user[u].chain # g)
      <3>1. PICK v \in Users : user'[v].chain = g
        BY <2>1 DEF InCall
      <3>2. CASE v = u
        BY <1>1, <3>1, <3>2
      <3>3. CASE v # u
        <4>1. user[v].chain = g
          BY <1>1, <3>1, <3>3
        <4> QED BY <3>3, <4>1 DEF CalledOnce, InCall
      <3> QED BY <3>2, <3>3
    <2>2. ASSUME s.chain = g PROVE InCall(g)'
      BY <1>1, <2>2 DEF InCall
    <2>3. ASSUME InCall(g), user[u].chain # g PROVE InCall(g)'
      <3>1. PICK v \in Users : user[v].chain = g
        BY <2>3 DEF InCall
      <3>2. user'[v].chain = g
        BY <1>1, <2>3, <3>1
      <3> QED BY <3>2 DEF InCall
    <2> QED BY <2>1, <2>2, <2>3
  <1> QED BY <1>1, <1>2, <1>3

LEMMA CallEffect ==
    ASSUME Typed, CalledOnce, NEW u \in Users, user[u] = Nobody, calls < MaxCalls,
           ~InCall(calls + 1), user' = [user EXCEPT ![u] = At("set_enabled", calls + 1)]
    PROVE  /\ user' \in [Users -> UserSteps] /\ CalledOnce' /\ calls + 1 \in Chains
           /\ \A g \in Chains : InCall(g)' <=> InCall(g) \/ g = calls + 1
  <1> DEFINE s == At("set_enabled", calls + 1)
  <1>1. calls + 1 \in Chains
    BY Typing, BoundsAssumption DEF Chains
  <1>2. s \in UserSteps /\ s.chain = calls + 1
    BY <1>1 DEF UserSteps, At
  <1>3. user' = [user EXCEPT ![u] = s]
    OBVIOUS
  <1> HIDE DEF s
  <1>4. \A v \in Users \ {u} : user[v].chain # s.chain
    BY <1>2 DEF InCall
  <1>5. user' \in [Users -> UserSteps] /\ CalledOnce'
        /\ \A g \in Chains : InCall(g)' <=> s.chain = g \/ (InCall(g) /\ user[u].chain # g)
    BY <1>2, <1>3, <1>4, UserEffect
  <1>6. user[u].chain \notin Chains
    BY UserTyping DEF Nobody
  <1> QED BY <1>1, <1>2, <1>5, <1>6

LEMMA SetEnabledEffect ==
    ASSUME Typed, CalledOnce, NEW u \in Users, user[u].at = "set_enabled",
           user' = [user EXCEPT ![u].at = "async_wait"]
    PROVE  /\ user' \in [Users -> UserSteps] /\ CalledOnce'
           /\ InCall(user[u].chain) /\ user[u].chain \in Chains
           /\ \A g \in Chains : InCall(g)' <=> InCall(g)
  <1> DEFINE s == [user[u] EXCEPT !.at = "async_wait"]
  <1>1. user[u] \in [at : {"set_enabled", "async_wait"}, chain : Chains]
    BY UserTyping DEF UserSteps, Nobody
  <1>2. s \in UserSteps /\ s.chain = user[u].chain /\ s.chain \in Chains
    BY <1>1 DEF UserSteps
  <1>3. user' = [user EXCEPT ![u] = s]
    OBVIOUS
  <1> HIDE DEF s
  <1>4. \A v \in Users \ {u} : user[v].chain # s.chain
    BY <1>2 DEF CalledOnce
  <1>5. user' \in [Users -> UserSteps] /\ CalledOnce'
        /\ \A g \in Chains : InCall(g)' <=> s.chain = g \/ (InCall(g) /\ user[u].chain # g)
    BY <1>2, <1>3, <1>4, UserEffect
  <1>6. InCall(user[u].chain)
    BY DEF InCall
  <1> QED BY <1>2, <1>5, <1>6

LEMMA CallWaitsEffect ==
    ASSUME Typed, CalledOnce, NEW u \in Users, user[u].at = "async_wait",
           user' = [user EXCEPT ![u] = Nobody]
    PROVE  /\ user' \in [Users -> UserSteps] /\ CalledOnce'
           /\ InCall(user[u].chain) /\ user[u].chain \in Chains
           /\ \A g \in Chains : InCall(g)' <=> InCall(g) /\ g # user[u].chain
  <1>1. user[u].chain \in Chains /\ 0 \notin Chains
    BY UserTyping
  <1>2. Nobody \in UserSteps /\ Nobody.chain = 0
    BY DEF UserSteps, Nobody
  <1>3. user' \in [Users -> UserSteps] /\ CalledOnce'
        /\ \A g \in Chains : InCall(g)' <=> Nobody.chain = g \/ (InCall(g) /\ user[u].chain # g)
    BY <1>1, <1>2, UserEffect
  <1>4. InCall(user[u].chain)
    BY DEF InCall
  <1> QED BY <1>1, <1>2, <1>3, <1>4

(***************************************************************************)
(* The invariant holds at the start, and every step keeps it.                *)
(***************************************************************************)
LEMMA InitIInv == Init => IInv
  <1> SUFFICES ASSUME Init PROVE IInv
    OBVIOUS
  <1>1. /\ waits = <<>> /\ ready = <<>> /\ Len(waits) = 0 /\ Len(ready) = 0
        /\ io = Nobody /\ io.chain = 0 /\ told = {} /\ 0 \notin Chains
        /\ \A u \in Users : user[u].chain = 0
        /\ \A g \in Chains : late[g] = 0
    BY DEF Init, Nobody, Chains
  <1>2. \A g \in Chains : ~Waits(g) /\ ~Posted(g) /\ io.chain # g /\ ~InCall(g)
    BY <1>1 DEF Waits, Posted, InCall
  <1>3. Typed
    <2>1. user \in [Users -> UserSteps]
      BY DEF Init, UserSteps
    <2>2. late \in [Chains -> 0..2] /\ calls \in 0..MaxCalls /\ cancels \in 0..MaxCancels
      BY BoundsAssumption DEF Init
    <2>3. waits \in Seq(Chains) /\ ready \in Seq([chain : Chains, ok : BOOLEAN])
      BY <1>1
    <2> QED BY <1>1, <2>1, <2>2, <2>3 DEF Init, Typed
  <1>4. WaitsOnce /\ PostedOnce /\ CalledOnce
    BY <1>1 DEF WaitsOnce, PostedOnce, CalledOnce
  <1> QED BY <1>1, <1>2, <1>3, <1>4 DEF IInv, Begun, OnePlace, Elsewhere, ToldIsNowhere, OneLateTick, LateStops

\* call(): the chain is new, so nothing of it is anywhere.
LEMMA CallIInv == ASSUME IInv, NEW u \in Users, Call(u) PROVE IInv'
  <1> USE DEF IInv
  <1>1. /\ user[u] = Nobody /\ calls < MaxCalls /\ calls' = calls + 1
        /\ user' = [user EXCEPT ![u] = At("set_enabled", calls + 1)]
        /\ UNCHANGED <<enabled, io, cancels, late, told>>
    BY DEF Call
  <1>2. Complete(FALSE)
    BY DEF Call, ExpiresFromNow
  <1>3. /\ waits' \in Seq(Chains) /\ ready' \in Seq([chain : Chains, ok : BOOLEAN])
        /\ WaitsOnce' /\ PostedOnce'
        /\ \A g \in Chains : ~Waits(g)' /\ (Posted(g)' <=> Posted(g) \/ Waits(g))
    BY <1>2, CompleteEffect DEF OnePlace, Elsewhere
  <1>4. calls + 1 \in Chains /\ \A g \in Chains : g <= calls => g # calls + 1 /\ g <= calls + 1
    BY <1>1, Typing, BoundsAssumption DEF Chains
  <1>5. ~InCall(calls + 1)
    BY <1>4, Typing DEF Begun
  <1>6. /\ user' \in [Users -> UserSteps] /\ CalledOnce'
        /\ \A g \in Chains : InCall(g)' <=> InCall(g) \/ g = calls + 1
    BY <1>1, <1>5, CallEffect DEF OnePlace
  <1>7. calls' \in 0..MaxCalls
    BY <1>1, Typing
  <1>8. Typed'
    BY <1>1, <1>3, <1>6, <1>7 DEF Typed
  <1>9. Begun'
    BY <1>1, <1>3, <1>4, <1>6, Typing DEF Begun
  <1>10. ~Waits(calls + 1) /\ ~Posted(calls + 1) /\ io.chain # calls + 1 /\ calls + 1 \notin told
         /\ late[calls + 1] = 0
    BY <1>4, Typing DEF Begun
  <1>11. OnePlace'
    BY <1>1, <1>3, <1>6, <1>10 DEF OnePlace, Elsewhere
  <1>12. ToldIsNowhere'
    BY <1>1, <1>3, <1>6, <1>10, Typing DEF ToldIsNowhere
  <1>13. OneLateTick' /\ LateStops'
    BY <1>1, <1>3, <1>6, <1>10 DEF OneLateTick, LateStops
  <1> QED BY <1>8, <1>9, <1>11, <1>12, <1>13

LEMMA SetEnabledIInv == ASSUME IInv, NEW u \in Users, SetEnabled(u) PROVE IInv'
  <1> USE DEF IInv
  <1>1. /\ user[u].at = "set_enabled" /\ enabled' = TRUE
        /\ user' = [user EXCEPT ![u].at = "async_wait"]
        /\ UNCHANGED <<waits, ready, io, calls, cancels, late, told>>
    BY DEF SetEnabled
  <1>2. /\ user' \in [Users -> UserSteps] /\ CalledOnce'
        /\ \A g \in Chains : InCall(g)' <=> InCall(g)
    BY <1>1, SetEnabledEffect DEF OnePlace
  <1>3. \A g \in Chains : (Waits(g)' <=> Waits(g)) /\ (Posted(g)' <=> Posted(g))
    BY <1>1 DEF Waits, Posted
  <1>4. Typed'
    BY <1>1, <1>2 DEF Typed
  <1>5. WaitsOnce' /\ PostedOnce'
    BY <1>1 DEF OnePlace, WaitsOnce, PostedOnce
  <1>6. OnePlace'
    BY <1>1, <1>2, <1>3, <1>5 DEF OnePlace, Elsewhere
  <1>7. Begun' /\ ToldIsNowhere'
    BY <1>1, <1>2, <1>3, Typing DEF Begun, ToldIsNowhere
  <1>8. OneLateTick' /\ LateStops'
    BY <1>1 DEF OneLateTick, LateStops
  <1> QED BY <1>4, <1>6, <1>7, <1>8

\* The wait of a call() begins: what was there is still late only where it was.
LEMMA CallWaitsIInv == ASSUME IInv, NEW u \in Users, CallWaits(u) PROVE IInv'
  <1> USE DEF IInv
  <1> DEFINE c == user[u].chain
  <1>1. /\ user[u].at = "async_wait" /\ AsyncWait(c)
        /\ user' = [user EXCEPT ![u] = Nobody]
        /\ UNCHANGED <<enabled, ready, io, calls, cancels, late, told>>
    BY DEF CallWaits
  <1>2. /\ user' \in [Users -> UserSteps] /\ CalledOnce'
        /\ InCall(c) /\ c \in Chains
        /\ \A g \in Chains : InCall(g)' <=> InCall(g) /\ g # c
    BY <1>1, CallWaitsEffect DEF OnePlace
  <1> HIDE DEF c
  <1>3. ~Waits(c) /\ ~Posted(c) /\ io.chain # c
    BY <1>2 DEF OnePlace, Elsewhere
  <1>4. /\ waits' \in Seq(Chains) /\ WaitsOnce'
        /\ \A g \in Chains : Waits(g)' <=> Waits(g) \/ g = c
    BY <1>1, <1>2, <1>3, AsyncWaitEffect DEF OnePlace
  <1>5. PostedOnce' /\ \A g \in Chains : Posted(g)' <=> Posted(g)
    BY <1>1 DEF Posted, PostedOnce, OnePlace
  <1>6. Typed'
    BY <1>1, <1>2, <1>4 DEF Typed
  <1>7. OnePlace'
    BY <1>1, <1>2, <1>3, <1>4, <1>5 DEF OnePlace, Elsewhere
  <1>8. Begun' /\ ToldIsNowhere'
    BY <1>1, <1>2, <1>4, <1>5, Typing DEF Begun, ToldIsNowhere
  <1>9. OneLateTick' /\ LateStops'
    BY <1>1, <1>2, <1>3, <1>4, <1>5 DEF OneLateTick, LateStops
  <1> QED BY <1>6, <1>7, <1>8, <1>9

\* cancel(): what waits is told, and no handler is late yet.
LEMMA CancelIInv == ASSUME IInv, NEW u \in Users, Cancel(u) PROVE IInv'
  <1> USE DEF IInv
  <1>1. /\ cancels < MaxCancels /\ enabled' = FALSE /\ Complete(FALSE) /\ cancels' = cancels + 1
        /\ late' = [g \in Chains |-> 0]
        /\ UNCHANGED <<io, user, calls, told>>
    BY DEF Cancel
  <1>2. /\ waits' \in Seq(Chains) /\ ready' \in Seq([chain : Chains, ok : BOOLEAN])
        /\ WaitsOnce' /\ PostedOnce'
        /\ \A g \in Chains : ~Waits(g)' /\ (Posted(g)' <=> Posted(g) \/ Waits(g))
    BY <1>1, CompleteEffect DEF OnePlace, Elsewhere
  <1>3. CalledOnce' /\ \A g \in Chains : InCall(g)' <=> InCall(g)
    BY <1>1 DEF InCall, CalledOnce, OnePlace
  <1>4. cancels' \in 0..MaxCancels
    BY <1>1, BoundsAssumption DEF Typed
  <1>5. late' \in [Chains -> 0..2] /\ \A g \in Chains : late'[g] = 0
    BY <1>1
  <1>6. Typed'
    BY <1>1, <1>2, <1>4, <1>5 DEF Typed
  <1>7. OnePlace'
    BY <1>1, <1>2, <1>3 DEF OnePlace, Elsewhere
  <1>8. Begun' /\ ToldIsNowhere'
    BY <1>1, <1>2, <1>3, <1>5, Typing DEF Begun, ToldIsNowhere
  <1>9. OneLateTick' /\ LateStops'
    BY <1>5 DEF OneLateTick, LateStops
  <1> QED BY <1>6, <1>7, <1>8, <1>9

\* The deadline is reached.
LEMMA ExpireIInv == ASSUME IInv, Expire PROVE IInv'
  <1> USE DEF IInv
  <1>1. Complete(TRUE) /\ UNCHANGED <<enabled, io, user, calls, cancels, late, told>>
    BY DEF Expire
  <1>2. /\ waits' \in Seq(Chains) /\ ready' \in Seq([chain : Chains, ok : BOOLEAN])
        /\ WaitsOnce' /\ PostedOnce'
        /\ \A g \in Chains : ~Waits(g)' /\ (Posted(g)' <=> Posted(g) \/ Waits(g))
    BY <1>1, CompleteEffect DEF OnePlace, Elsewhere
  <1>3. CalledOnce' /\ \A g \in Chains : InCall(g)' <=> InCall(g)
    BY <1>1 DEF InCall, CalledOnce, OnePlace
  <1>4. Typed'
    BY <1>1, <1>2 DEF Typed
  <1>5. OnePlace'
    BY <1>1, <1>2, <1>3 DEF OnePlace, Elsewhere
  <1>6. Begun' /\ ToldIsNowhere'
    BY <1>1, <1>2, <1>3, Typing DEF Begun, ToldIsNowhere
  <1>7. OneLateTick' /\ LateStops'
    BY <1>1, <1>2, <1>3 DEF OneLateTick, LateStops
  <1> QED BY <1>4, <1>5, <1>6, <1>7

\* The handler at the front is called: a chain that is posted has not been late before.
LEMMA UserHandlerIInv == ASSUME IInv, UserHandler PROVE IInv'
  <1> USE DEF IInv
  <1> DEFINE h == Head(ready)
             c == h.chain
  <1>1. /\ io = Nobody /\ ready # <<>> /\ ready' = Tail(ready)
        /\ io' = IF h.ok THEN At("enabled", c) ELSE Nobody
        /\ h.ok => /\ late' = [late EXCEPT ![c] = IF enabled \/ @ = 2 THEN @ ELSE @ + 1]
                   /\ told' = told
        /\ ~h.ok => late' = late /\ told' = told \cup {c}
        /\ UNCHANGED <<enabled, waits, user, calls, cancels>>
    BY DEF UserHandler, Succeeded
  <1>2. /\ ready' \in Seq([chain : Chains, ok : BOOLEAN]) /\ PostedOnce'
        /\ c \in Chains /\ h.ok \in BOOLEAN
        /\ Posted(c)
        /\ \A g \in Chains : Posted(g)' <=> Posted(g) /\ g # c
    BY <1>1, TakenEffect DEF OnePlace
  <1> HIDE DEF c
  <1>3. ~Waits(c) /\ ~InCall(c)
    BY <1>2 DEF OnePlace, Elsewhere
  <1>4. WaitsOnce' /\ CalledOnce'
        /\ \A g \in Chains : (InCall(g)' <=> InCall(g)) /\ (Waits(g)' <=> Waits(g))
    BY <1>1 DEF InCall, CalledOnce, OnePlace, Waits, WaitsOnce
  <1>5. /\ late' \in [Chains -> 0..2]
        /\ \A g \in Chains : g # c \/ enabled \/ ~h.ok => late'[g] = late[g]
        /\ ~enabled /\ h.ok => late'[c] = 1
    <2>1. late \in [Chains -> 0..2] /\ (~enabled => late[c] = 0)
      BY <1>2, Typing DEF LateStops
    <2> QED BY <1>1, <1>2, <2>1
  <1>6. /\ \/ io' = Nobody /\ io'.chain \notin Chains
           \/ h.ok /\ io'.chain = c /\ io'.at = "enabled"
              /\ io' \in [at : {"enabled", "expires", "async_wait"}, chain : Chains]
        /\ \A g \in Chains : io.chain # g
    BY <1>1, <1>2, Typing DEF At, Nobody
  <1>7. /\ told' \subseteq Chains
        /\ \A g \in told' : g \in told \/ (g = c /\ io' = Nobody /\ io'.chain \notin Chains)
    BY <1>1, <1>2, Typing DEF Nobody
  <1>8. Typed'
    BY <1>1, <1>2, <1>5, <1>6, <1>7 DEF Typed
  <1>9. OnePlace'
    BY <1>2, <1>3, <1>4, <1>6 DEF OnePlace, Elsewhere
  <1>10. Begun'
    BY <1>1, <1>2, <1>4, <1>5, <1>6, <1>7 DEF Begun
  <1>11. ToldIsNowhere'
    BY <1>2, <1>3, <1>4, <1>6, <1>7, Typing DEF ToldIsNowhere
  <1>12. OneLateTick'
    BY <1>2, <1>5 DEF OneLateTick
  <1>13. LateStops'
    BY <1>1, <1>2, <1>3, <1>4, <1>5, <1>6 DEF LateStops
  <1> QED BY <1>8, <1>9, <1>10, <1>11, <1>12, <1>13

LEMMA TestEnabledIInv == ASSUME IInv, TestEnabled PROVE IInv'
  <1> USE DEF IInv
  <1>1. /\ io.at = "enabled" /\ io' = IF enabled THEN At("expires", io.chain) ELSE Nobody
        /\ UNCHANGED <<enabled, waits, ready, user, calls, cancels, late, told>>
    BY DEF TestEnabled, GoesOn
  <1>2. io.chain \in Chains
    BY <1>1, Typing DEF Nobody
  <1>3. \/ io' = Nobody /\ io'.chain \notin Chains
        \/ enabled /\ io'.chain = io.chain
           /\ io' \in [at : {"enabled", "expires", "async_wait"}, chain : Chains]
    BY <1>1, <1>2, Typing DEF At, Nobody
  <1>4. WaitsOnce' /\ CalledOnce' /\ PostedOnce'
        /\ \A g \in Chains : (InCall(g)' <=> InCall(g)) /\ (Waits(g)' <=> Waits(g))
                             /\ (Posted(g)' <=> Posted(g))
    BY <1>1 DEF InCall, CalledOnce, OnePlace, Waits, WaitsOnce, Posted, PostedOnce
  <1>5. Typed'
    BY <1>1, <1>3 DEF Typed
  <1>6. OnePlace'
    BY <1>3, <1>4 DEF OnePlace, Elsewhere
  <1>7. Begun' /\ ToldIsNowhere'
    BY <1>1, <1>3, <1>4, Typing DEF Begun, ToldIsNowhere
  <1>8. OneLateTick' /\ LateStops'
    BY <1>1, <1>3, <1>4 DEF OneLateTick, LateStops
  <1> QED BY <1>5, <1>6, <1>7, <1>8

\* call_impl: the chain whose handler runs stays where it is, what waits is told.
LEMMA CallImplExpiresIInv == ASSUME IInv, CallImplExpires PROVE IInv'
  <1> USE DEF IInv
  <1>1. /\ io.at = "expires" /\ Complete(FALSE) /\ io' = At("async_wait", io.chain)
        /\ UNCHANGED <<enabled, user, calls, cancels, late, told>>
    BY DEF CallImplExpires, ExpiresFromNow
  <1>2. /\ io.chain \in Chains /\ io'.chain = io.chain
        /\ io' \in [at : {"enabled", "expires", "async_wait"}, chain : Chains]
    BY <1>1, Typing DEF Nobody, At
  <1>3. /\ waits' \in Seq(Chains) /\ ready' \in Seq([chain : Chains, ok : BOOLEAN])
        /\ WaitsOnce' /\ PostedOnce'
        /\ \A g \in Chains : ~Waits(g)' /\ (Posted(g)' <=> Posted(g) \/ Waits(g))
    BY <1>1, CompleteEffect DEF OnePlace, Elsewhere
  <1>4. CalledOnce' /\ \A g \in Chains : InCall(g)' <=> InCall(g)
    BY <1>1 DEF InCall, CalledOnce, OnePlace
  <1>5. Typed'
    BY <1>1, <1>2, <1>3 DEF Typed
  <1>6. OnePlace'
    BY <1>2, <1>3, <1>4 DEF OnePlace, Elsewhere
  <1>7. Begun' /\ ToldIsNowhere'
    BY <1>1, <1>2, <1>3, <1>4, Typing DEF Begun, ToldIsNowhere
  <1>8. ~enabled => late[io.chain] = 0
    BY <1>1, <1>2 DEF LateStops
  <1>9. OneLateTick' /\ LateStops'
    BY <1>1, <1>2, <1>3, <1>4, <1>8 DEF OneLateTick, LateStops
  <1> QED BY <1>5, <1>6, <1>7, <1>9

LEMMA CallImplWaitsIInv == ASSUME IInv, CallImplWaits PROVE IInv'
  <1> USE DEF IInv
  <1> DEFINE c == io.chain
  <1>1. /\ io.at = "async_wait" /\ AsyncWait(c) /\ io' = Nobody
        /\ UNCHANGED <<enabled, ready, user, calls, cancels, late, told>>
    BY DEF CallImplWaits
  <1>2. c \in Chains /\ io'.chain \notin Chains
    BY <1>1, Typing DEF Nobody
  <1>3. ~Waits(c) /\ ~Posted(c) /\ ~InCall(c) /\ c \notin told
    BY <1>2 DEF OnePlace, Elsewhere, ToldIsNowhere
  <1>4. ~enabled => late[c] = 0
    BY <1>1, <1>2 DEF LateStops
  <1>5. c <= calls
    BY <1>2 DEF Begun
  <1> HIDE DEF c
  <1>6. /\ waits' \in Seq(Chains) /\ WaitsOnce'
        /\ \A g \in Chains : Waits(g)' <=> Waits(g) \/ g = c
    BY <1>1, <1>2, <1>3, AsyncWaitEffect DEF OnePlace
  <1>7. PostedOnce' /\ CalledOnce'
        /\ \A g \in Chains : (InCall(g)' <=> InCall(g)) /\ (Posted(g)' <=> Posted(g))
    BY <1>1 DEF InCall, CalledOnce, OnePlace, Posted, PostedOnce
  <1>8. Typed'
    BY <1>1, <1>6 DEF Typed
  <1>9. OnePlace'
    BY <1>2, <1>3, <1>6, <1>7 DEF OnePlace, Elsewhere
  <1>10. Begun' /\ ToldIsNowhere'
    BY <1>1, <1>2, <1>3, <1>5, <1>6, <1>7, Typing DEF Begun, ToldIsNowhere
  <1>11. OneLateTick' /\ LateStops'
    BY <1>1, <1>2, <1>4, <1>6, <1>7 DEF OneLateTick, LateStops
  <1> QED BY <1>8, <1>9, <1>10, <1>11

LEMMA NextIInv == ASSUME IInv, [Next]_vars PROVE IInv'
  <1>1. CASE \E u \in Users : Call(u) \/ SetEnabled(u) \/ CallWaits(u) \/ Cancel(u)
    BY <1>1, CallIInv, SetEnabledIInv, CallWaitsIInv, CancelIInv
  <1>2. CASE Expire \/ UserHandler \/ TestEnabled \/ CallImplExpires \/ CallImplWaits
    BY <1>2, ExpireIInv, UserHandlerIInv, TestEnabledIInv, CallImplExpiresIInv, CallImplWaitsIInv
  <1>3. CASE UNCHANGED vars
    <2>1. UNCHANGED <<enabled, waits, ready, io, user, calls, cancels, late, told>>
      BY <1>3 DEF vars
    <2> QED BY <2>1 DEF IInv, Typed, Begun, OnePlace, WaitsOnce, PostedOnce, CalledOnce, Elsewhere,
                        ToldIsNowhere, OneLateTick, LateStops, Waits, Posted, InCall
  <1> QED BY <1>1, <1>2, <1>3 DEF Next, CallStep, IoStep

\* The inductive invariant holds always.
THEOREM Invariance == Spec => []IInv
  <1>1. Init => IInv
    BY InitIInv
  <1>2. IInv /\ [Next]_vars => IInv'
    BY NextIInv
  <1> QED BY <1>1, <1>2, PTL DEF Spec

\* Once a timer was cancelled, while nobody enables it again, the handler of each call()
\* is called once more at most, however the cancel runs into the handler and into the
\* calls of other threads; and a handler that is called with an error is not called again.
THEOREM CancelledIsDone == Spec => []DoneIsDone
  <1>1. IInv => DoneIsDone
    <2> SUFFICES ASSUME IInv PROVE DoneIsDone
      OBVIOUS
    <2>1. TypeOK
      BY UserTyping DEF IInv, Typed, TypeOK, UserSteps
    <2>2. ErrorIsLast
      <3> SUFFICES ASSUME NEW g \in told, g \in Living PROVE FALSE
        BY DEF ErrorIsLast
      <3>1. g \in Chains /\ ~Waits(g) /\ ~Posted(g) /\ io.chain # g /\ ~InCall(g)
        BY Typing DEF IInv, ToldIsNowhere
      <3>2. g \notin Range(waits)
        BY <3>1, Typing DEF IInv, Waits, Range
      <3>3. \A r \in Range(ready) : r.chain # g
        BY <3>1, Typing DEF IInv, Posted, Range
      <3>4. g \notin {user[u].chain : u \in Users}
        BY <3>1 DEF InCall
      <3> QED BY <3>1, <3>2, <3>3, <3>4 DEF Living
    <2> QED BY <2>1, <2>2 DEF IInv, DoneIsDone
  <1> QED BY <1>1, Invariance, PTL
=============================================================================
