----------------------- MODULE ConditionQueue_proofs -----------------------
(***************************************************************************)
(* Proofs about ConditionQueue, for any number of threads, keys, values and  *)
(* slots and for both queue traits: its types, that no wake-up is lost, that *)
(* erased slots keep no reader and give nothing out, and that the slots      *)
(* implement the boxes of Mailbox.                                            *)
(***************************************************************************)
EXTENDS ConditionQueue, FiniteSetTheorems, TLAPS

(***************************************************************************)
(* Sequences and finite sets.                                                *)
(***************************************************************************)

\* Taking a value out of a queue leaves a queue that is one shorter.
LEMMA RemovedOne ==
    ASSUME NEW S, NEW s \in Seq(S), NEW i \in 1..Len(s)
    PROVE  /\ RemoveAt(s, i) \in Seq(S)
           /\ Len(RemoveAt(s, i)) = Len(s) - 1
  <1> DEFINE a == SubSeq(s, 1, i - 1)
             b == SubSeq(s, i + 1, Len(s))
  <1>0. Len(s) \in Nat /\ i \in Nat /\ 1 <= i /\ i <= Len(s)
    OBVIOUS
  <1>1. a \in Seq(S) /\ Len(a) = i - 1
    BY <1>0
  <1>2. b \in Seq(S) /\ Len(b) = Len(s) - i
    BY <1>0
  <1>3. RemoveAt(s, i) = a \o b
    BY DEF RemoveAt
  <1> HIDE DEF a, b
  <1>4. a \o b \in Seq(S) /\ Len(a \o b) = Len(a) + Len(b)
    BY <1>1, <1>2
  <1>5. (i - 1) + (Len(s) - i) = Len(s) - 1
    BY <1>0
  <1> QED BY <1>1, <1>2, <1>3, <1>4, <1>5

\* The threads awake at a slot can be counted.
LEMMA AwakeIsFinite ==
    \A s : IsFiniteSet(Awake(s)) /\ Cardinality(Awake(s)) \in Nat
  <1> SUFFICES ASSUME NEW s
               PROVE  IsFiniteSet(Awake(s)) /\ Cardinality(Awake(s)) \in Nat
    OBVIOUS
  <1>1. Awake(s) \in SUBSET Threads
    BY DEF Awake
  <1>2. IsFiniteSet(Awake(s))
    BY <1>1, ConstantsAssumption, FS_Subset
  <1> QED BY <1>2, FS_CardinalityType

(***************************************************************************)
(* What the shared parts of the actions do.                                  *)
(***************************************************************************)

PcType == {"idle", "push"} \cup Reading

\* cancel() marks the slot and wakes all that wait on it.
LEMMA CancelEffect ==
    ASSUME TypeOK, NEW s \in Slots, Cancel(s)
    PROVE  /\ canceled' \in [Slots -> BOOLEAN]
           /\ canceled'[s] = TRUE
           /\ \A r \in Slots : r # s => canceled'[r] = canceled[r]
           /\ pc' \in [Threads -> PcType]
           /\ \A t \in Threads :
                 pc'[t] = IF pc[t] = "waiting" /\ at[t] = s THEN "woken" ELSE pc[t]
  <1>1. /\ canceled' = [canceled EXCEPT ![s] = TRUE]
        /\ pc' = Woken(Waiters(s))
    BY DEF Cancel, NotifyAll
  <1>2. canceled \in [Slots -> BOOLEAN] /\ pc \in [Threads -> PcType]
    BY DEF TypeOK, PcType
  <1>3. "woken" \in PcType
    BY DEF PcType, Reading, Testing
  <1> QED BY <1>1, <1>2, <1>3 DEF Woken, Waiters

\* push() stores the value and wakes one of those that wait, if there is one.
LEMMA PushEffect ==
    ASSUME TypeOK, NEW t \in Threads, Push(t)
    PROVE  /\ at[t] \in Created /\ arg[t] \in Values
           /\ data' = [data EXCEPT ![at[t]] = Append(@, arg[t])]
           /\ at' = [at EXCEPT ![t] = NoSlot]
           /\ \E threads \in SUBSET Waiters(at[t]) :
                 /\ Waiters(at[t]) # {} => \E w \in Waiters(at[t]) : threads = {w}
                 /\ pc' \in [Threads -> PcType]
                 /\ \A u \in Threads : pc'[u] =
                       IF u = t THEN "idle" ELSE IF u \in threads THEN "woken" ELSE pc[u]
  <1>1. pc[t] = "push" /\ at[t] # NoSlot /\ at[t] \in Created /\ arg[t] \in Values
    BY DEF TypeOK, Push
  <1>2. PICK threads \in NotifyOne(at[t]) : pc' = [Woken(threads) EXCEPT ![t] = "idle"]
    BY DEF Push, NotifiedByPush
  <1>3. /\ threads \in SUBSET Waiters(at[t])
        /\ Waiters(at[t]) # {} => \E w \in Waiters(at[t]) : threads = {w}
    BY <1>2 DEF NotifyOne
  <1>4. pc \in [Threads -> PcType] /\ "woken" \in PcType /\ "idle" \in PcType
    BY DEF TypeOK, PcType, Reading, Testing
  <1>5. /\ pc' \in [Threads -> PcType]
        /\ \A u \in Threads : pc'[u] =
              IF u = t THEN "idle" ELSE IF u \in threads THEN "woken" ELSE pc[u]
    BY <1>2, <1>4 DEF Woken
  <1> QED BY <1>1, <1>3, <1>5 DEF Push

\* A read that ends gives up its slot.
LEMMA ReturnEffect ==
    ASSUME TypeOK, NEW t \in Threads, NEW r \in {"OK", "CANCELED", "TIMEOUT"}, Return(t, r)
    PROVE  /\ pc' \in [Threads -> PcType] /\ pc'[t] = "idle"
           /\ at' \in [Threads -> Created \cup {NoSlot}] /\ at'[t] = NoSlot
           /\ \A u \in Threads : u # t => pc'[u] = pc[u] /\ at'[u] = at[u]
           /\ result' \in [Threads -> {"none", "OK", "CANCELED", "TIMEOUT"}]
  <1>1. "idle" \in PcType
    BY DEF PcType
  <1> QED BY <1>1 DEF Return, TypeOK, PcType

\* A slot that was created is a slot, and stays created.
LEMMA CreatedSlots ==
    ASSUME TypeOK
    PROVE  Created \subseteq Slots /\ NoSlot \notin Created /\ Len(keyOf) \in Nat
  <1>1. Len(keyOf) \in Nat /\ Len(keyOf) <= MaxSlots
    BY DEF TypeOK
  <1> QED BY <1>1, ConstantsAssumption DEF Created, Slots, NoSlot

(***************************************************************************)
(* Type correctness.                                                         *)
(***************************************************************************)

LEMMA InitTypeOK == Init => TypeOK
  <1> SUFFICES ASSUME Init PROVE TypeOK
    OBVIOUS
  <1>1. keyOf \in Seq(Keys) /\ Len(keyOf) <= MaxSlots
    BY ConstantsAssumption DEF Init
  <1>2. <<>> \in Seq(Values)
    OBVIOUS
  <1> QED BY <1>1, <1>2 DEF Init, TypeOK, Created

LEMMA NextTypeOK == TypeOK /\ [Next]_vars => TypeOK'
  <1> SUFFICES ASSUME TypeOK, [Next]_vars PROVE TypeOK'
    OBVIOUS
  <1>0. Created \subseteq Slots /\ NoSlot \notin Created /\ Len(keyOf) \in Nat
    BY CreatedSlots
  <1>a. ASSUME NEW s \in Slots, Cancel(s), map' \in [Keys -> Created \cup {NoSlot}],
               sweep' \subseteq Created,
               UNCHANGED <<keyOf, data, at, arg, result, taken>>
        PROVE  TypeOK'
    <2>1. /\ canceled' \in [Slots -> BOOLEAN] /\ pc' \in [Threads -> PcType]
          /\ \A t \in Threads :
                pc'[t] = IF pc[t] = "waiting" /\ at[t] = s THEN "woken" ELSE pc[t]
      BY <1>a, CancelEffect
    <2>2. \A t \in Threads : /\ at[t] = NoSlot <=> pc'[t] = "idle"
                             /\ pc'[t] = "push" => arg[t] \in Values
      BY <2>1 DEF TypeOK
    <2> QED BY <1>a, <2>1, <2>2 DEF TypeOK, Created, PcType
  <1>1. ASSUME NEW k \in Keys, AddSlot(k) PROVE TypeOK'
    <2>1. /\ keyOf' = Append(keyOf, k) /\ Len(keyOf) < MaxSlots
          /\ map' = [map EXCEPT ![k] = Len(keyOf) + 1]
          /\ UNCHANGED <<data, canceled, sweep, pc, at, arg, result, taken>>
      BY <1>1 DEF AddSlot
    <2>2. keyOf' \in Seq(Keys) /\ Len(keyOf') = Len(keyOf) + 1 /\ Len(keyOf') <= MaxSlots
      BY <2>1, <1>0, ConstantsAssumption DEF TypeOK
    <2>3. Created \subseteq Created' /\ Len(keyOf) + 1 \in Created'
      BY <1>0, <2>2 DEF Created
    <2>4. map' \in [Keys -> Created' \cup {NoSlot}]
      BY <2>1, <2>3 DEF TypeOK
    <2>5. sweep' \subseteq Created' /\ at' \in [Threads -> Created' \cup {NoSlot}]
      BY <2>1, <2>3 DEF TypeOK
    <2> QED BY <2>1, <2>2, <2>4, <2>5 DEF TypeOK
  <1>2. ASSUME NEW k \in Keys, EraseSlot(k) PROVE TypeOK'
    <2>1. map[k] \in Created /\ map[k] \in Slots
      BY <1>0, <1>2 DEF EraseSlot, TypeOK
    <2>2. map' \in [Keys -> Created \cup {NoSlot}]
      BY <1>2 DEF EraseSlot, TypeOK
    <2>3. CASE canceled[map[k]]
      BY <1>2, <2>2, <2>3 DEF EraseSlot, TypeOK, Created
    <2>4. CASE ~canceled[map[k]]
      <3>1. Cancel(map[k]) /\ UNCHANGED <<keyOf, data, sweep, at, arg, result, taken>>
        BY <1>2, <2>4 DEF EraseSlot
      <3>2. sweep' \subseteq Created
        BY <3>1 DEF TypeOK
      <3> QED BY <1>a, <2>1, <2>2, <3>1, <3>2
    <2> QED BY <2>3, <2>4
  <1>3. ASSUME NEW k \in Keys, CancelSlot(k) PROVE TypeOK'
    <2>1. map[k] \in Slots /\ Cancel(map[k])
      BY <1>0, <1>3 DEF CancelSlot, TypeOK
    <2>2. UNCHANGED <<map, keyOf, data, sweep, at, arg, result, taken>>
      BY <1>3 DEF CancelSlot
    <2>3. map' \in [Keys -> Created \cup {NoSlot}] /\ sweep' \subseteq Created
      BY <2>2 DEF TypeOK
    <2> QED BY <1>a, <2>1, <2>2, <2>3
  <1>4. ASSUME NEW s \in Created, CancelPointer(s) PROVE TypeOK'
    <2>1. s \in Slots /\ Cancel(s)
      BY <1>0, <1>4 DEF CancelPointer
    <2>2. UNCHANGED <<map, keyOf, data, sweep, at, arg, result, taken>>
      BY <1>4 DEF CancelPointer
    <2>3. map' \in [Keys -> Created \cup {NoSlot}] /\ sweep' \subseteq Created
      BY <2>2 DEF TypeOK
    <2> QED BY <1>a, <2>1, <2>2, <2>3
  <1>5. CASE CancelAll
    <2>1. sweep' \subseteq Created
      BY <1>5 DEF CancelAll, TypeOK
    <2> QED BY <1>5, <2>1 DEF CancelAll, TypeOK, Created
  <1>6. CASE CancelNext
    <2>1. PICK s \in sweep : Cancel(s) /\ sweep' = sweep \ {s}
                             /\ UNCHANGED <<map, keyOf, data, at, arg, result, taken>>
      BY <1>6 DEF CancelNext
    <2>2. s \in Slots /\ sweep' \subseteq Created /\ map' \in [Keys -> Created \cup {NoSlot}]
      BY <1>0, <2>1 DEF TypeOK
    <2> QED BY <1>a, <2>1, <2>2
  <1>b. ASSUME NEW t \in Threads, pc' \in [Threads -> PcType],
               \A u \in Threads : /\ at[u] = NoSlot <=> pc'[u] = "idle"
                                  /\ pc'[u] = "push" => pc[u] = "push",
               UNCHANGED <<map, keyOf, data, canceled, sweep, at, arg, result, taken>>
        PROVE  TypeOK'
    BY <1>b DEF TypeOK, Created, PcType
  <1>c. ASSUME NEW t \in Threads, NEW r \in {"OK", "CANCELED", "TIMEOUT"}, Return(t, r),
               data' \in [Slots -> Seq(Values)], taken' \in [Slots -> Seq(Values)],
               UNCHANGED <<map, keyOf, canceled, sweep, arg>>
        PROVE  TypeOK'
    <2>1. /\ pc' \in [Threads -> PcType] /\ pc'[t] = "idle"
          /\ at' \in [Threads -> Created \cup {NoSlot}] /\ at'[t] = NoSlot
          /\ \A u \in Threads : u # t => pc'[u] = pc[u] /\ at'[u] = at[u]
          /\ result' \in [Threads -> {"none", "OK", "CANCELED", "TIMEOUT"}]
      BY <1>c, ReturnEffect
    <2>2. \A u \in Threads : /\ at'[u] = NoSlot <=> pc'[u] = "idle"
                             /\ pc'[u] = "push" => arg[u] \in Values
      BY <2>1 DEF TypeOK
    <2> QED BY <1>c, <2>1, <2>2 DEF TypeOK, Created, PcType
  <1>7. ASSUME NEW s \in Created, NEW t \in Threads, NEW v \in Values, StartPush(t, s, v)
        PROVE  TypeOK'
    <2>1. "push" \in PcType /\ s # NoSlot
      BY <1>0 DEF PcType
    <2> QED BY <1>7, <2>1 DEF StartPush, TypeOK, Created, PcType
  <1>8. ASSUME NEW s \in Created, NEW t \in Threads, StartRead(t, s) PROVE TypeOK'
    <2>1. "read" \in PcType /\ s # NoSlot
      BY <1>0 DEF PcType, Reading, Testing
    <2> QED BY <1>8, <2>1 DEF StartRead, TypeOK, Created, PcType
  <1>9. ASSUME NEW t \in Threads, Push(t) PROVE TypeOK'
    <2>1. /\ at[t] \in Created /\ arg[t] \in Values
          /\ data' = [data EXCEPT ![at[t]] = Append(@, arg[t])]
          /\ at' = [at EXCEPT ![t] = NoSlot]
      BY <1>9, PushEffect
    <2>2. PICK threads \in SUBSET Waiters(at[t]) :
              /\ pc' \in [Threads -> PcType]
              /\ \A u \in Threads : pc'[u] =
                    IF u = t THEN "idle" ELSE IF u \in threads THEN "woken" ELSE pc[u]
      BY <1>9, PushEffect
    <2>3. UNCHANGED <<map, keyOf, canceled, sweep, result, taken>>
          /\ arg' = [arg EXCEPT ![t] = NoValue]
      BY <1>9 DEF Push
    <2>4. Append(data[at[t]], arg[t]) \in Seq(Values)
      BY <1>0, <2>1 DEF TypeOK
    <2>5. data' \in [Slots -> Seq(Values)]
      BY <1>0, <2>1, <2>4 DEF TypeOK
    <2>6. \A u \in Threads : /\ at'[u] = NoSlot <=> pc'[u] = "idle"
                             /\ pc'[u] = "push" => arg'[u] \in Values
      BY <2>1, <2>2, <2>3 DEF TypeOK, Waiters
    <2>7. /\ at' \in [Threads -> Created \cup {NoSlot}]
          /\ arg' \in [Threads -> Values \cup {NoValue}]
      BY <2>1, <2>3 DEF TypeOK
    <2> QED BY <2>2, <2>3, <2>5, <2>6, <2>7 DEF TypeOK, Created, PcType
  <1>10. ASSUME NEW t \in Threads, Wait(t) \/ SpuriousWake(t) \/ Expire(t) PROVE TypeOK'
    <2>1. PICK where \in {"waiting", "woken", "expired"} :
              pc' = [pc EXCEPT ![t] = where] /\ pc[t] \in Reading
              /\ UNCHANGED <<map, keyOf, data, canceled, sweep, at, arg, result, taken>>
      BY <1>10 DEF Wait, SpuriousWake, Expire, Reading
    <2>2. where \in PcType /\ where # "idle" /\ where # "push" /\ pc[t] # "idle"
      BY <2>1 DEF PcType, Reading, Testing
    <2>3. pc \in [Threads -> PcType]
      BY DEF TypeOK, PcType
    <2>4. pc' \in [Threads -> PcType]
      BY <2>1, <2>2, <2>3
    <2>5. \A u \in Threads : /\ at[u] = NoSlot <=> pc'[u] = "idle"
                             /\ pc'[u] = "push" => pc[u] = "push"
      BY <2>1, <2>2, <2>3 DEF TypeOK
    <2> QED BY <1>b, <2>1, <2>4, <2>5
  <1>11. ASSUME NEW t \in Threads, ReadOk(t) PROVE TypeOK'
    <2>1. PICK i \in 1..Len(data[at[t]]) :
              /\ taken' = [taken EXCEPT ![at[t]] = Append(@, data[at[t]][i])]
              /\ data' = [data EXCEPT ![at[t]] = Pop(@, i)]
      BY <1>11 DEF ReadOk
    <2>2. at[t] \in Slots
      BY <1>0, <1>11 DEF ReadOk, TypeOK, Testing
    <2>3. data[at[t]] \in Seq(Values) /\ taken[at[t]] \in Seq(Values)
      BY <2>2 DEF TypeOK
    <2>4. Pop(data[at[t]], i) \in Seq(Values)
      BY <2>3, RemovedOne DEF Pop
    <2>5. Append(taken[at[t]], data[at[t]][i]) \in Seq(Values)
      BY <2>3
    <2>6. data' \in [Slots -> Seq(Values)] /\ taken' \in [Slots -> Seq(Values)]
      BY <2>1, <2>2, <2>4, <2>5 DEF TypeOK
    <2>7. Return(t, "OK") /\ UNCHANGED <<map, keyOf, canceled, sweep, arg>>
      BY <1>11 DEF ReadOk
    <2> QED BY <1>c, <2>6, <2>7
  <1>12. ASSUME NEW t \in Threads, ReadCanceled(t) \/ ReadTimeout(t) PROVE TypeOK'
    <2>1. /\ Return(t, "CANCELED") \/ Return(t, "TIMEOUT")
          /\ UNCHANGED <<map, keyOf, data, canceled, sweep, arg, taken>>
      BY <1>12 DEF ReadCanceled, ReadTimeout
    <2>2. data' \in [Slots -> Seq(Values)] /\ taken' \in [Slots -> Seq(Values)]
      BY <2>1 DEF TypeOK
    <2> QED BY <1>c, <2>1, <2>2
  <1>13. CASE UNCHANGED vars
    BY <1>13 DEF vars, TypeOK, Created
  <1> QED BY <1>1, <1>2, <1>3, <1>4, <1>5, <1>6, <1>7, <1>8, <1>9, <1>10, <1>11,
             <1>12, <1>13 DEF Next, Step

(***************************************************************************)
(* The inductive invariant.  That nobody waits on a slot off the map is not  *)
(* inductive: it needs that a slot off the map was cancelled (ErasedCanceled)*)
(* and that nobody waits on a cancelled slot (NoLostWakeup).                  *)
(***************************************************************************)
ErasedCanceled == \A s \in Created : canceled[s] \/ map[keyOf[s]] = s

IInv == TypeOK /\ NoLostWakeup /\ ErasedCanceled

\* NoLostWakeup for one slot.
WakeupKept(s) ==
    Waiters(s) # {} => ~canceled[s] /\ Len(data[s]) <= Cardinality(Awake(s))

\* A step that leaves nobody newly waiting, nobody gone who was awake, and no
\* more values than before, loses no wake-up.
LEMMA QuietStep ==
    ASSUME NEW s \in Slots, WakeupKept(s),
           Waiters(s)' \subseteq Waiters(s), Awake(s) \subseteq Awake(s)',
           canceled'[s] = canceled[s], data'[s] = data[s],
           Len(data[s]) \in Nat, IsFiniteSet(Awake(s)')
    PROVE  WakeupKept(s)'
  <1>1. Cardinality(Awake(s)) <= Cardinality(Awake(s)')
    BY FS_Subset
  <1>2. Cardinality(Awake(s)') \in Nat /\ Cardinality(Awake(s)) \in Nat
    BY FS_Subset, FS_CardinalityType
  <1>3. CASE Waiters(s)' = {}
    BY <1>3 DEF WakeupKept
  <1>4. CASE Waiters(s)' # {}
    <2>1. ~canceled[s] /\ Len(data[s]) <= Cardinality(Awake(s))
      BY <1>4 DEF WakeupKept
    <2> QED BY <1>1, <1>2, <2>1 DEF WakeupKept
  <1> QED BY <1>3, <1>4

LEMMA NextNoLostWakeup == IInv /\ TypeOK' /\ [Next]_vars => NoLostWakeup'
  <1> SUFFICES ASSUME IInv, TypeOK', [Next]_vars, NEW s \in Slots
               PROVE  WakeupKept(s)'
    BY DEF NoLostWakeup, WakeupKept
  <1>0. /\ Created \subseteq Slots /\ NoSlot \notin Created
        /\ TypeOK /\ WakeupKept(s)
        /\ data[s] \in Seq(Values) /\ Len(data[s]) \in Nat
        /\ IsFiniteSet(Awake(s)) /\ Cardinality(Awake(s)) \in Nat
    BY CreatedSlots, AwakeIsFinite DEF IInv, NoLostWakeup, WakeupKept, TypeOK
  <1>f. Awake(s)' \in SUBSET Threads
    BY DEF Awake
  <1>g. IsFiniteSet(Awake(s)') /\ Cardinality(Awake(s)') \in Nat
    BY <1>f, ConstantsAssumption, FS_Subset, FS_CardinalityType
  <1>a. ASSUME NEW r \in Slots, Cancel(r), UNCHANGED <<at, data>>
        PROVE  WakeupKept(s)'
    <2>1. /\ \A q \in Slots : q # r => canceled'[q] = canceled[q]
          /\ \A t \in Threads :
                pc'[t] = IF pc[t] = "waiting" /\ at[t] = r THEN "woken" ELSE pc[t]
      BY <1>0, <1>a, CancelEffect
    <2>2. CASE s = r
      <3>1. Waiters(s)' = {}
        BY <1>a, <2>1, <2>2 DEF Waiters
      <3> QED BY <3>1 DEF WakeupKept
    <2>3. CASE s # r
      <3>1. Waiters(s)' \subseteq Waiters(s) /\ Awake(s) \subseteq Awake(s)'
        BY <1>a, <2>1, <2>3 DEF Waiters, Awake, Reading, Testing
      <3> QED BY <1>0, <1>a, <1>g, <2>1, <2>3, <3>1, QuietStep
    <2> QED BY <2>2, <2>3
  <1>b. ASSUME UNCHANGED <<pc, at, data, canceled>> PROVE WakeupKept(s)'
    <2>1. Waiters(s)' = Waiters(s) /\ Awake(s)' = Awake(s)
      BY <1>b DEF Waiters, Awake
    <2> QED BY <1>0, <1>b, <2>1 DEF WakeupKept
  <1>1. ASSUME NEW k \in Keys, AddSlot(k) PROVE WakeupKept(s)'
    BY <1>1, <1>b DEF AddSlot
  <1>2. ASSUME NEW k \in Keys, EraseSlot(k) PROVE WakeupKept(s)'
    <2>1. CASE canceled[map[k]]
      BY <1>2, <1>b, <2>1 DEF EraseSlot
    <2>2. CASE ~canceled[map[k]]
      <3>1. map[k] \in Slots
        BY <1>0, <1>2 DEF EraseSlot, TypeOK
      <3> QED BY <1>2, <1>a, <2>2, <3>1 DEF EraseSlot
    <2> QED BY <2>1, <2>2
  <1>3. ASSUME NEW k \in Keys, CancelSlot(k) PROVE WakeupKept(s)'
    <2>1. map[k] \in Slots
      BY <1>0, <1>3 DEF CancelSlot, TypeOK
    <2> QED BY <1>3, <1>a, <2>1 DEF CancelSlot
  <1>4. ASSUME NEW r \in Created, CancelPointer(r) PROVE WakeupKept(s)'
    BY <1>0, <1>4, <1>a DEF CancelPointer
  <1>5. CASE CancelAll
    BY <1>5, <1>b DEF CancelAll
  <1>6. CASE CancelNext
    <2>1. PICK r \in sweep : Cancel(r) /\ UNCHANGED <<at, data>>
      BY <1>6 DEF CancelNext
    <2>2. r \in Slots
      BY <1>0, <2>1 DEF TypeOK
    <2> QED BY <1>a, <2>1, <2>2
  <1>7. ASSUME NEW r \in Created, NEW t \in Threads, NEW v \in Values, StartPush(t, r, v)
        PROVE  WakeupKept(s)'
    <2>1. /\ pc[t] = "idle" /\ pc'[t] = "push"
          /\ \A u \in Threads : u # t => pc'[u] = pc[u] /\ at'[u] = at[u]
          /\ UNCHANGED <<data, canceled>>
      BY <1>0, <1>7 DEF StartPush, TypeOK
    <2>2. Waiters(s)' \subseteq Waiters(s) /\ Awake(s) \subseteq Awake(s)'
      BY <2>1 DEF Waiters, Awake, Reading, Testing
    <2> QED BY <1>0, <1>g, <2>1, <2>2, QuietStep
  <1>8. ASSUME NEW r \in Created, NEW t \in Threads, StartRead(t, r) PROVE WakeupKept(s)'
    <2>1. /\ pc[t] = "idle" /\ pc'[t] = "read"
          /\ \A u \in Threads : u # t => pc'[u] = pc[u] /\ at'[u] = at[u]
          /\ UNCHANGED <<data, canceled>>
      BY <1>0, <1>8 DEF StartRead, TypeOK
    <2>2. Waiters(s)' \subseteq Waiters(s) /\ Awake(s) \subseteq Awake(s)'
      BY <2>1 DEF Waiters, Awake, Reading, Testing
    <2> QED BY <1>0, <1>g, <2>1, <2>2, QuietStep
  <1>9. ASSUME NEW t \in Threads, Push(t) PROVE WakeupKept(s)'
    <2>0. /\ pc[t] = "push" /\ UNCHANGED canceled
      BY <1>9 DEF Push
    <2>1. /\ at[t] \in Created /\ arg[t] \in Values
          /\ data' = [data EXCEPT ![at[t]] = Append(@, arg[t])]
          /\ at' = [at EXCEPT ![t] = NoSlot]
      BY <1>0, <1>9, PushEffect
    <2>2. PICK threads \in SUBSET Waiters(at[t]) :
              /\ Waiters(at[t]) # {} => \E w \in Waiters(at[t]) : threads = {w}
              /\ \A u \in Threads : pc'[u] =
                    IF u = t THEN "idle" ELSE IF u \in threads THEN "woken" ELSE pc[u]
      BY <1>0, <1>9, PushEffect
    <2>3. \A u \in Threads : u # t => at'[u] = at[u]
      BY <1>0, <2>1 DEF TypeOK
    <2>4. Waiters(s)' \subseteq Waiters(s) /\ Awake(s) \subseteq Awake(s)'
      BY <2>0, <2>2, <2>3 DEF Waiters, Awake, Reading, Testing
    <2>5. CASE s # at[t]
      <3>1. data'[s] = data[s]
        BY <1>0, <2>1, <2>5 DEF TypeOK
      <3> QED BY <1>0, <1>g, <2>0, <2>4, <3>1, QuietStep
    <2>6. CASE s = at[t] /\ Waiters(s) = {}
      BY <2>4, <2>6 DEF WakeupKept
    <2>7. CASE s = at[t] /\ Waiters(s) # {}
      <3>1. PICK w \in Waiters(s) : threads = {w}
        BY <2>2, <2>7
      <3>2. w \in Threads /\ w # t /\ pc[w] = "waiting" /\ at[w] = s
        BY <2>0, <3>1 DEF Waiters
      <3>3. pc'[w] = "woken" /\ at'[w] = s
        BY <2>2, <2>3, <3>1, <3>2
      <3>4. w \in Awake(s)' /\ w \notin Awake(s)
        BY <3>2, <3>3 DEF Awake, Reading, Testing
      <3>5. Cardinality(Awake(s) \cup {w}) = Cardinality(Awake(s)) + 1
        BY <1>0, <3>4, FS_AddElement
      <3>6. Cardinality(Awake(s) \cup {w}) <= Cardinality(Awake(s)')
        BY <1>g, <2>4, <3>4, FS_Subset
      <3>7. Len(data'[s]) = Len(data[s]) + 1
        <4>1. data'[s] = Append(data[s], arg[t])
          BY <1>0, <2>1, <2>7 DEF TypeOK
        <4> QED BY <1>0, <2>1, <4>1
      <3>8. ~canceled[s] /\ Len(data[s]) <= Cardinality(Awake(s))
        BY <1>0, <2>7 DEF WakeupKept
      <3>9. Len(data'[s]) <= Cardinality(Awake(s)')
        BY <1>0, <1>g, <3>5, <3>6, <3>7, <3>8
      <3> QED BY <2>0, <3>8, <3>9 DEF WakeupKept
    <2> QED BY <2>5, <2>6, <2>7
  <1>10. ASSUME NEW t \in Threads, Wait(t) PROVE WakeupKept(s)'
    <2>1. /\ pc[t] \in Testing /\ ~NotEmpty(at[t])
          /\ pc' = [pc EXCEPT ![t] = "waiting"]
          /\ UNCHANGED <<data, canceled, at>>
      BY <1>10 DEF Wait
    <2>2. \A u \in Threads : u # t => pc'[u] = pc[u] /\ at'[u] = at[u]
      BY <1>0, <2>1 DEF TypeOK
    <2>3. CASE s = at[t]
      <3>1. ~canceled[s] /\ Len(data[s]) = 0
        BY <2>1, <2>3 DEF NotEmpty
      <3> QED BY <1>g, <2>1, <3>1 DEF WakeupKept
    <2>4. CASE s # at[t]
      <3>1. Waiters(s)' \subseteq Waiters(s) /\ Awake(s) \subseteq Awake(s)'
        BY <2>1, <2>2, <2>4 DEF Waiters, Awake
      <3> QED BY <1>0, <1>g, <2>1, <3>1, QuietStep
    <2> QED BY <2>3, <2>4
  <1>11. ASSUME NEW t \in Threads, SpuriousWake(t) \/ Expire(t) PROVE WakeupKept(s)'
    <2>1. /\ pc[t] = "waiting" /\ pc'[t] \in {"woken", "expired"}
          /\ \A u \in Threads : u # t => pc'[u] = pc[u]
          /\ UNCHANGED <<data, canceled, at>>
      BY <1>0, <1>11 DEF SpuriousWake, Expire, TypeOK
    <2>2. Waiters(s)' \subseteq Waiters(s) /\ Awake(s) \subseteq Awake(s)'
      BY <2>1 DEF Waiters, Awake, Reading, Testing
    <2> QED BY <1>0, <1>g, <2>1, <2>2, QuietStep
  <1>c. ASSUME NEW t \in Threads, NEW r \in {"OK", "CANCELED", "TIMEOUT"}, Return(t, r),
               pc[t] \in Reading \ {"waiting"}
        PROVE  /\ Waiters(s)' \subseteq Waiters(s)
               /\ at[t] # s => Awake(s) \subseteq Awake(s)'
               /\ at[t] = s => Awake(s) \ {t} \subseteq Awake(s)' /\ t \in Awake(s)
    <2>1. /\ pc'[t] = "idle"
          /\ \A u \in Threads : u # t => pc'[u] = pc[u] /\ at'[u] = at[u]
      BY <1>0, <1>c, ReturnEffect
    <2> QED BY <1>c, <2>1 DEF Waiters, Awake
  <1>12. ASSUME NEW t \in Threads, ReadOk(t) PROVE WakeupKept(s)'
    <2>1. PICK i \in 1..Len(data[at[t]]) : data' = [data EXCEPT ![at[t]] = Pop(@, i)]
      BY <1>12 DEF ReadOk
    <2>2. /\ Return(t, "OK") /\ pc[t] \in Reading \ {"waiting"}
          /\ UNCHANGED canceled
      BY <1>12 DEF ReadOk, Reading, Testing
    <2>3. CASE s # at[t]
      <3>1. data'[s] = data[s]
        BY <1>0, <2>1, <2>3 DEF TypeOK
      <3> QED BY <1>0, <1>c, <1>g, <2>2, <2>3, <3>1, QuietStep
    <2>4. CASE s = at[t]
      <3>1. data'[s] = RemoveAt(data[s], i)
        BY <1>0, <2>1, <2>4 DEF TypeOK, Pop
      <3>2. Len(data'[s]) = Len(data[s]) - 1
        BY <1>0, <2>1, <2>4, <3>1, RemovedOne
      <3>3. /\ Waiters(s)' \subseteq Waiters(s)
            /\ Awake(s) \ {t} \subseteq Awake(s)' /\ t \in Awake(s)
        BY <1>c, <2>2, <2>4
      <3>4. Cardinality(Awake(s) \ {t}) = Cardinality(Awake(s)) - 1
        BY <1>0, <3>3, FS_RemoveElement
      <3>5. Cardinality(Awake(s) \ {t}) <= Cardinality(Awake(s)')
        BY <1>g, <3>3, FS_Subset
      <3>6. CASE Waiters(s)' = {}
        BY <3>6 DEF WakeupKept
      <3>7. CASE Waiters(s)' # {}
        <4>1. ~canceled[s] /\ Len(data[s]) <= Cardinality(Awake(s))
          BY <1>0, <3>3, <3>7 DEF WakeupKept
        <4>2. Len(data'[s]) <= Cardinality(Awake(s)')
          BY <1>0, <1>g, <3>2, <3>4, <3>5, <4>1
        <4> QED BY <2>2, <4>1, <4>2 DEF WakeupKept
      <3> QED BY <3>6, <3>7
    <2> QED BY <2>3, <2>4
  <1>13. ASSUME NEW t \in Threads, ReadCanceled(t) PROVE WakeupKept(s)'
    <2>1. /\ Return(t, "CANCELED") /\ pc[t] \in Reading \ {"waiting"}
          /\ canceled[at[t]] /\ UNCHANGED <<data, canceled>>
      BY <1>13 DEF ReadCanceled, Reading, Testing
    <2>2. CASE s # at[t]
      BY <1>0, <1>c, <1>g, <2>1, <2>2, QuietStep
    <2>3. CASE s = at[t]
      <3>1. Waiters(s) = {}
        BY <1>0, <2>1, <2>3 DEF WakeupKept
      <3>2. Waiters(s)' = {}
        BY <1>c, <2>1, <3>1
      <3> QED BY <3>2 DEF WakeupKept
    <2> QED BY <2>2, <2>3
  <1>14. ASSUME NEW t \in Threads, ReadTimeout(t) PROVE WakeupKept(s)'
    <2>1. /\ Return(t, "TIMEOUT") /\ pc[t] \in Reading \ {"waiting"}
          /\ ~NotEmpty(at[t]) /\ UNCHANGED <<data, canceled>>
      BY <1>14 DEF ReadTimeout, NothingToRead, Reading, Testing
    <2>2. CASE s # at[t]
      BY <1>0, <1>c, <1>g, <2>1, <2>2, QuietStep
    <2>3. CASE s = at[t]
      <3>1. ~canceled[s] /\ Len(data[s]) = 0
        BY <2>1, <2>3 DEF NotEmpty
      <3> QED BY <1>g, <2>1, <3>1 DEF WakeupKept
    <2> QED BY <2>2, <2>3
  <1>15. CASE UNCHANGED vars
    BY <1>15, <1>b DEF vars
  <1> QED BY <1>1, <1>2, <1>3, <1>4, <1>5, <1>6, <1>7, <1>8, <1>9, <1>10, <1>11,
             <1>12, <1>13, <1>14, <1>15 DEF Next, Step

LEMMA NextErasedCanceled == IInv /\ [Next]_vars => ErasedCanceled'
  <1> SUFFICES ASSUME IInv, [Next]_vars PROVE ErasedCanceled'
    OBVIOUS
  <1>0. /\ TypeOK /\ ErasedCanceled
        /\ Created \subseteq Slots /\ NoSlot \notin Created /\ Len(keyOf) \in Nat
    BY CreatedSlots DEF IInv
  <1>a. ASSUME UNCHANGED <<map, keyOf>>, \A s \in Slots : canceled[s] => canceled'[s]
        PROVE  ErasedCanceled'
    BY <1>0, <1>a DEF ErasedCanceled, Created
  <1>b. ASSUME NEW r \in Slots, Cancel(r)
        PROVE  canceled'[r] /\ \A s \in Slots : canceled[s] => canceled'[s]
    BY <1>0, <1>b, CancelEffect
  <1>1. ASSUME NEW k \in Keys, AddSlot(k) PROVE ErasedCanceled'
    <2> DEFINE n == Len(keyOf) + 1
    <2>1. /\ keyOf' = Append(keyOf, k) /\ map[k] = NoSlot
          /\ map' = [map EXCEPT ![k] = n] /\ UNCHANGED canceled
      BY <1>1 DEF AddSlot
    <2>2. /\ Len(keyOf') = n /\ keyOf'[n] = k
          /\ \A s \in 1..Len(keyOf) : keyOf'[s] = keyOf[s] /\ keyOf[s] \in Keys
      BY <1>0, <2>1 DEF TypeOK
    <2>3. map'[k] = n /\ \A j \in Keys : j # k => map'[j] = map[j]
      BY <1>0, <2>1 DEF TypeOK
    <2> HIDE DEF n
    <2>4. ASSUME NEW s \in Created PROVE canceled'[s] \/ map'[keyOf'[s]] = s
      <3>1. keyOf'[s] = keyOf[s] /\ keyOf[s] \in Keys /\ s # NoSlot
        BY <1>0, <2>2 DEF Created
      <3>2. canceled[s] \/ map[keyOf[s]] = s
        BY <1>0 DEF ErasedCanceled
      <3> QED BY <2>1, <2>3, <3>1, <3>2
    <2>5. \A s \in 1..n : s \in Created \/ s = n
      BY <1>0 DEF n, Created
    <2> QED BY <2>2, <2>3, <2>4, <2>5 DEF ErasedCanceled, Created
  <1>2. ASSUME NEW k \in Keys, EraseSlot(k) PROVE ErasedCanceled'
    <2>1. /\ map' = [map EXCEPT ![k] = NoSlot] /\ UNCHANGED keyOf
          /\ map[k] \in Slots
      BY <1>0, <1>2 DEF EraseSlot, TypeOK
    <2>2. canceled'[map[k]] /\ \A s \in Slots : canceled[s] => canceled'[s]
      BY <1>2, <1>b, <2>1 DEF EraseSlot
    <2>3. ASSUME NEW s \in Created PROVE canceled'[s] \/ map'[keyOf[s]] = s
      <3>0. keyOf \in Seq(Keys) /\ s \in 1..Len(keyOf) /\ s \in Slots
        BY <1>0 DEF TypeOK, Created
      <3>1. keyOf[s] \in Keys /\ s \in Slots
        BY <3>0
      <3>2. canceled[s] \/ map[keyOf[s]] = s
        BY <1>0 DEF ErasedCanceled
      <3>3. keyOf[s] # k => map'[keyOf[s]] = map[keyOf[s]]
        BY <1>0, <2>1, <3>1 DEF TypeOK
      <3> QED BY <2>2, <3>1, <3>2, <3>3
    <2> QED BY <2>1, <2>3 DEF ErasedCanceled, Created
  <1>3. ASSUME NEW k \in Keys, CancelSlot(k) PROVE ErasedCanceled'
    <2>1. map[k] \in Slots
      BY <1>0, <1>3 DEF CancelSlot, TypeOK
    <2> QED BY <1>3, <1>a, <1>b, <2>1 DEF CancelSlot
  <1>4. ASSUME NEW r \in Created, CancelPointer(r) PROVE ErasedCanceled'
    BY <1>0, <1>4, <1>a, <1>b DEF CancelPointer
  <1>5. CASE CancelNext
    <2>1. PICK r \in sweep : Cancel(r) /\ UNCHANGED <<map, keyOf>>
      BY <1>5 DEF CancelNext
    <2>2. r \in Slots
      BY <1>0, <2>1 DEF TypeOK
    <2> QED BY <1>a, <1>b, <2>1, <2>2
  <1>6. ASSUME NEW r \in Created, NEW t \in Threads,
               StartRead(t, r) \/ \E v \in Values : StartPush(t, r, v)
        PROVE  ErasedCanceled'
    BY <1>6, <1>a DEF StartRead, StartPush
  <1>7. ASSUME NEW t \in Threads, Step(t) \/ SpuriousWake(t) \/ Expire(t)
        PROVE  ErasedCanceled'
    <2>1. UNCHANGED <<map, keyOf, canceled>>
      BY <1>7 DEF Step, Push, Wait, ReadOk, ReadCanceled, ReadTimeout, SpuriousWake, Expire
    <2> QED BY <1>a, <2>1
  <1>8. CASE CancelAll \/ UNCHANGED vars
    BY <1>8, <1>a DEF CancelAll, vars
  <1> QED BY <1>1, <1>2, <1>3, <1>4, <1>5, <1>6, <1>7, <1>8 DEF Next

\* The inductive invariant holds.
THEOREM Invariance == Spec => []IInv
  <1>1. Init => IInv
    <2> SUFFICES ASSUME Init PROVE IInv
      OBVIOUS
    <2>1. \A s : Waiters(s) = {}
      BY DEF Init, Waiters
    <2>2. NoLostWakeup
      BY <2>1 DEF NoLostWakeup
    <2>3. ErasedCanceled
      BY DEF Init, ErasedCanceled, Created
    <2> QED BY <2>2, <2>3, InitTypeOK DEF IInv
  <1>2. IInv /\ [Next]_vars => IInv'
    BY NextTypeOK, NextNoLostWakeup, NextErasedCanceled DEF IInv
  <1> QED BY <1>1, <1>2, PTL DEF Spec

\* Every variable of the waitable queues keeps its type.
THEOREM TypeCorrect == Spec => []TypeOK
  <1>1. IInv => TypeOK
    BY DEF IInv
  <1> QED BY Invariance, <1>1, PTL

\* However pushes, cancels, time-outs and spurious wake-ups meet, a reader that
\* is left waiting is on a slot that is not cancelled and whose values all have
\* readers awake for them.
THEOREM WakeupsAreKept == Spec => []NoLostWakeup
  <1>1. IInv => NoLostWakeup
    BY DEF IInv
  <1> QED BY Invariance, <1>1, PTL

\* No reader waits on a slot that erase_slot has taken off the map.
THEOREM NobodyLeftBehind == Spec => []WaitersAreReachable
  <1>1. IInv => WaitersAreReachable
    <2> SUFFICES ASSUME IInv, NEW t \in Threads, pc[t] = "waiting"
                 PROVE  map[keyOf[at[t]]] = at[t]
      BY DEF WaitersAreReachable
    <2>1. at[t] \in Created /\ at[t] \in Slots
      BY CreatedSlots DEF IInv, TypeOK
    <2>2. t \in Waiters(at[t])
      BY DEF Waiters
    <2>3. ~canceled[at[t]]
      BY <2>1, <2>2 DEF IInv, NoLostWakeup
    <2> QED BY <2>1, <2>3 DEF IInv, ErasedCanceled
  <1> QED BY Invariance, <1>1, PTL

\* However pushes, cancels, erasures and time-outs meet, nobody waits in vain.
THEOREM NobodyWaitsInVain == Spec => []NobodyLeftWaiting
  <1>1. TypeOK /\ NoLostWakeup /\ WaitersAreReachable => NobodyLeftWaiting
    BY DEF NobodyLeftWaiting
  <1> QED BY TypeCorrect, WakeupsAreKept, NobodyLeftBehind, <1>1, PTL

\* A slot that erase_slot has taken off the map gives nothing out, whoever still
\* has a pointer to it and whatever slot is at its key by then.
THEOREM ErasedSlotsGiveNothing == Spec => ErasedGivesNothing
  <1>1. ASSUME IInv, [Next]_vars
        PROVE  [\A s \in Created : map[keyOf[s]] # s => taken'[s] = taken[s]]_vars
    <2> SUFFICES ASSUME NEW s \in Created, map[keyOf[s]] # s
                 PROVE  taken'[s] = taken[s]
      OBVIOUS
    <2>1. TypeOK /\ s \in Slots /\ canceled[s]
      <3>1. TypeOK
        BY <1>1 DEF IInv
      <3>2. s \in Slots
        BY <3>1, CreatedSlots
      <3> QED BY <1>1, <3>1, <3>2 DEF IInv, ErasedCanceled
    <2>2. ASSUME NEW t \in Threads, ReadOk(t) PROVE taken'[s] = taken[s]
      <3>1. PICK i \in 1..Len(data[at[t]]) :
                taken' = [taken EXCEPT ![at[t]] = Append(@, data[at[t]][i])]
        BY <2>2 DEF ReadOk
      <3>2. at[t] # s
        BY <2>1, <2>2 DEF ReadOk, MayTake
      <3> QED BY <2>1, <3>1, <3>2 DEF TypeOK
    <2>3. ASSUME NEW t \in Threads, Step(t), ~ReadOk(t) PROVE UNCHANGED taken
      BY <2>3 DEF Step, Push, Wait, ReadCanceled, ReadTimeout
    <2>4. CASE UNCHANGED taken
      BY <2>4
    <2>5. \/ UNCHANGED taken
          \/ \E t \in Threads : Step(t)
      BY <1>1 DEF Next, vars, AddSlot, EraseSlot, CancelSlot, CancelPointer, CancelAll,
                  CancelNext, StartPush, StartRead, SpuriousWake, Expire
    <2> QED BY <2>2, <2>3, <2>4, <2>5
  <1> QED BY <1>1, Invariance, PTL DEF Spec, ErasedGivesNothing

(***************************************************************************)
(* The refinement.  Each action maps to the step of Mailbox of the same      *)
(* effect, or to a stuttering step: the map, the wake-ups and the waiting    *)
(* are invisible there.                                                      *)
(***************************************************************************)
ReaderOf == [t \in Threads |-> IF pc[t] \in Reading THEN at[t] ELSE NoSlot]

\* Unless a thread starts or ends a read, the readers are the same.
LEMMA SameReaders ==
    ASSUME \A t \in Threads :
               /\ pc'[t] \in Reading <=> pc[t] \in Reading
               /\ pc[t] \in Reading => at'[t] = at[t]
    PROVE  ReaderOf' = ReaderOf
  BY DEF ReaderOf, Reading, Testing

\* Cancelling a slot shuts its box.
LEMMA CancelShuts ==
    ASSUME TypeOK, NEW s \in Slots, Cancel(s), UNCHANGED <<data, at, result, taken>>
    PROVE  Boxes!Next
  <1>1. \A t \in Threads :
            pc'[t] = IF pc[t] = "waiting" /\ at[t] = s THEN "woken" ELSE pc[t]
    BY CancelEffect
  <1>2. ReaderOf' = ReaderOf
    <2>1. \A t \in Threads : /\ pc'[t] \in Reading <=> pc[t] \in Reading
                             /\ at'[t] = at[t]
      BY <1>1 DEF Reading, Testing
    <2> QED BY <2>1, SameReaders
  <1>3. Boxes!Shut(s)
    BY <1>2 DEF Cancel, Boxes!Shut, ReaderOf
  <1> QED BY <1>3 DEF Boxes!Next

\* A read that ends maps to an answer.
LEMMA ReturnAnswers ==
    ASSUME TypeOK, NEW t \in Threads, NEW r \in {"OK", "CANCELED", "TIMEOUT"},
           pc[t] \in Reading, Return(t, r)
    PROVE  /\ ReaderOf[t] = at[t]
           /\ ReaderOf' = [ReaderOf EXCEPT ![t] = NoSlot]
           /\ result' = [result EXCEPT ![t] = r]
  <1>1. /\ pc'[t] = "idle"
        /\ \A u \in Threads : u # t => pc'[u] = pc[u] /\ at'[u] = at[u]
    BY ReturnEffect
  <1>2. "idle" \notin Reading
    BY DEF Reading, Testing
  <1> QED BY <1>1, <1>2 DEF ReaderOf, Reading, Testing, Return

\* The slots implement the boxes, so their readers get each value once, in the
\* order of the trait, and are sent away only for the reason they are told.
THEOREM SlotsAreBoxes == Spec => ImplementsBoxes
  <1>1. Init => Boxes!Init
    BY DEF Init, Boxes!Init, Boxes!NoBox, NoSlot, Reading, Testing
  <1>2. ASSUME TypeOK, [Next]_vars PROVE [Boxes!Next]_(Boxes!vars)
    <2>0. Created \subseteq Slots /\ NoSlot \notin Created /\ Boxes!NoBox = NoSlot
      BY <1>2, CreatedSlots DEF Boxes!NoBox, NoSlot
    <2>a. ASSUME ReaderOf' = ReaderOf, UNCHANGED <<data, canceled, result, taken>>
          PROVE  UNCHANGED Boxes!vars
      BY <2>a DEF Boxes!vars, ReaderOf
    <2>1. ASSUME NEW k \in Keys, AddSlot(k) PROVE UNCHANGED Boxes!vars
      BY <2>1 DEF AddSlot, Boxes!vars
    <2>2. ASSUME NEW k \in Keys, EraseSlot(k) PROVE [Boxes!Next]_(Boxes!vars)
      <3>1. CASE canceled[map[k]]
        BY <2>2, <3>1 DEF EraseSlot, Boxes!vars
      <3>2. CASE ~canceled[map[k]]
        <4>1. map[k] \in Slots
          BY <1>2, <2>0, <2>2 DEF EraseSlot, TypeOK
        <4> QED BY <1>2, <2>2, <3>2, <4>1, CancelShuts DEF EraseSlot
      <3> QED BY <3>1, <3>2
    <2>3. ASSUME NEW k \in Keys, CancelSlot(k) PROVE Boxes!Next
      <3>1. map[k] \in Slots
        BY <1>2, <2>0, <2>3 DEF CancelSlot, TypeOK
      <3> QED BY <1>2, <2>3, <3>1, CancelShuts DEF CancelSlot
    <2>4. ASSUME NEW s \in Created, CancelPointer(s) PROVE Boxes!Next
      BY <1>2, <2>0, <2>4, CancelShuts DEF CancelPointer
    <2>5. CASE CancelAll
      BY <2>5 DEF CancelAll, Boxes!vars
    <2>6. CASE CancelNext
      <3>1. PICK s \in sweep : Cancel(s) /\ UNCHANGED <<data, at, result, taken>>
        BY <2>6 DEF CancelNext
      <3>2. s \in Slots
        BY <1>2, <2>0, <3>1 DEF TypeOK
      <3> QED BY <1>2, <3>1, <3>2, CancelShuts
    <2>7. ASSUME NEW s \in Created, NEW t \in Threads, NEW v \in Values, StartPush(t, s, v)
          PROVE  UNCHANGED Boxes!vars
      <3>1. /\ pc[t] = "idle" /\ pc'[t] = "push"
            /\ \A u \in Threads : u # t => pc'[u] = pc[u] /\ at'[u] = at[u]
            /\ UNCHANGED <<data, canceled, result, taken>>
        BY <1>2, <2>7 DEF StartPush, TypeOK
      <3>2. ReaderOf' = ReaderOf
        BY <3>1 DEF ReaderOf, Reading, Testing
      <3> QED BY <2>a, <3>1, <3>2
    <2>8. ASSUME NEW s \in Created, NEW t \in Threads, StartRead(t, s) PROVE Boxes!Next
      <3>1. /\ pc[t] = "idle" /\ pc'[t] = "read" /\ at'[t] = s
            /\ \A u \in Threads : u # t => pc'[u] = pc[u] /\ at'[u] = at[u]
            /\ result' = [result EXCEPT ![t] = "none"]
            /\ UNCHANGED <<data, canceled, taken>>
        BY <1>2, <2>8 DEF StartRead, TypeOK
      <3>2. ReaderOf[t] = NoSlot /\ ReaderOf' = [ReaderOf EXCEPT ![t] = s]
        BY <3>1 DEF ReaderOf, Reading, Testing
      <3>3. Boxes!Ask(t, s)
        BY <2>0, <3>1, <3>2 DEF Boxes!Ask, ReaderOf
      <3> QED BY <2>0, <3>3 DEF Boxes!Next
    <2>9. ASSUME NEW t \in Threads, Push(t) PROVE Boxes!Next
      <3>0. pc[t] = "push" /\ UNCHANGED <<canceled, result, taken>>
        BY <2>9 DEF Push
      <3>1. /\ at[t] \in Created /\ arg[t] \in Values
            /\ data' = [data EXCEPT ![at[t]] = Append(@, arg[t])]
            /\ at' = [at EXCEPT ![t] = NoSlot]
        BY <1>2, <2>9, PushEffect
      <3>2. PICK threads \in SUBSET Waiters(at[t]) :
                \A u \in Threads : pc'[u] =
                      IF u = t THEN "idle" ELSE IF u \in threads THEN "woken" ELSE pc[u]
        BY <1>2, <2>9, PushEffect
      <3>3. \A u \in Threads : /\ pc'[u] \in Reading <=> pc[u] \in Reading
                               /\ pc[u] \in Reading => at'[u] = at[u]
        BY <1>2, <3>0, <3>1, <3>2 DEF TypeOK, Reading, Testing, Waiters
      <3>4. ReaderOf' = ReaderOf
        BY <3>3, SameReaders
      <3>5. Boxes!Put(at[t], arg[t])
        BY <3>0, <3>1, <3>4 DEF Boxes!Put, ReaderOf
      <3> QED BY <2>0, <3>1, <3>5 DEF Boxes!Next
    <2>10. ASSUME NEW t \in Threads, Wait(t) \/ SpuriousWake(t) \/ Expire(t)
           PROVE  UNCHANGED Boxes!vars
      <3>1. /\ pc[t] \in Reading /\ pc'[t] \in Reading
            /\ \A u \in Threads : u # t => pc'[u] = pc[u]
            /\ UNCHANGED <<data, canceled, at, result, taken>>
        BY <1>2, <2>10 DEF Wait, SpuriousWake, Expire, TypeOK, Reading, Testing
      <3>2. ReaderOf' = ReaderOf
        BY <3>1, SameReaders
      <3> QED BY <2>a, <3>1, <3>2
    <2>11. ASSUME NEW t \in Threads, ReadOk(t) PROVE Boxes!Next
      <3>1. PICK i \in 1..Len(data[at[t]]) :
                /\ IsFront(data[at[t]], i)
                /\ taken' = [taken EXCEPT ![at[t]] = Append(@, data[at[t]][i])]
                /\ data' = [data EXCEPT ![at[t]] = RemoveAt(@, i)]
        BY <2>11 DEF ReadOk, Pop
      <3>2. /\ pc[t] \in Reading /\ Return(t, "OK") /\ UNCHANGED canceled
            /\ ~canceled[at[t]]
        BY <2>11 DEF ReadOk, MayTake, Reading, Testing
      <3>3. /\ ReaderOf[t] = at[t]
            /\ ReaderOf' = [ReaderOf EXCEPT ![t] = NoSlot]
            /\ result' = [result EXCEPT ![t] = "OK"]
        BY <1>2, <3>2, ReturnAnswers
      <3>4. at[t] \in Slots
        BY <1>2, <2>0, <3>2 DEF TypeOK, Reading, Testing
      <3>5. Boxes!Due(data[at[t]], i)
        <4>1. Len(data[at[t]]) \in Nat
          BY <1>2, <3>4 DEF TypeOK
        <4> QED BY <3>1, <4>1 DEF IsFront, Boxes!Due
      <3>6. Boxes!Serve(t, at[t])
        <4>1. Boxes!Answer(t, "OK")
          BY <2>0, <3>3 DEF Boxes!Answer, ReaderOf
        <4>2. \E j \in 1..Len(data[at[t]]) :
                  /\ Boxes!Due(data[at[t]], j)
                  /\ taken' = [taken EXCEPT ![at[t]] = Append(@, data[at[t]][j])]
                  /\ data' = [data EXCEPT ![at[t]] = Boxes!RemoveAt(@, j)]
          BY <3>1, <3>5 DEF RemoveAt, Boxes!RemoveAt
        <4>3. [u \in Threads |-> IF pc[u] \in Reading THEN at[u] ELSE NoSlot][t] = at[t]
          BY <3>2
        <4> QED BY <3>2, <4>1, <4>2, <4>3 DEF Boxes!Serve
      <3> QED BY <3>4, <3>6 DEF Boxes!Next
    <2>12. ASSUME NEW t \in Threads, ReadCanceled(t) PROVE Boxes!Next
      <3>1. /\ pc[t] \in Reading /\ Return(t, "CANCELED") /\ canceled[at[t]]
            /\ UNCHANGED <<data, canceled, taken>>
        BY <2>12 DEF ReadCanceled, Reading, Testing
      <3>2. /\ ReaderOf[t] = at[t]
            /\ ReaderOf' = [ReaderOf EXCEPT ![t] = NoSlot]
            /\ result' = [result EXCEPT ![t] = "CANCELED"]
        BY <1>2, <3>1, ReturnAnswers
      <3>3. at[t] \in Slots
        BY <1>2, <2>0, <3>1 DEF TypeOK, Reading, Testing
      <3>4. Boxes!TurnAway(t, at[t])
        BY <2>0, <3>1, <3>2 DEF Boxes!TurnAway, Boxes!Answer, ReaderOf
      <3> QED BY <3>3, <3>4 DEF Boxes!Next
    <2>13. ASSUME NEW t \in Threads, ReadTimeout(t) PROVE Boxes!Next
      <3>1. /\ pc[t] \in Reading /\ Return(t, "TIMEOUT")
            /\ ~canceled[at[t]] /\ data[at[t]] = <<>>
            /\ UNCHANGED <<data, canceled, taken>>
        BY <2>13 DEF ReadTimeout, NothingToRead, NotEmpty, Reading, Testing
      <3>2. /\ ReaderOf[t] = at[t]
            /\ ReaderOf' = [ReaderOf EXCEPT ![t] = NoSlot]
            /\ result' = [result EXCEPT ![t] = "TIMEOUT"]
        BY <1>2, <3>1, ReturnAnswers
      <3>3. at[t] \in Slots
        BY <1>2, <2>0, <3>1 DEF TypeOK, Reading, Testing
      <3>4. Boxes!GiveUp(t, at[t])
        BY <2>0, <3>1, <3>2 DEF Boxes!GiveUp, Boxes!Answer, ReaderOf
      <3> QED BY <3>3, <3>4 DEF Boxes!Next
    <2>14. CASE UNCHANGED vars
      BY <2>14 DEF vars, Boxes!vars
    <2> QED BY <1>2, <2>1, <2>2, <2>3, <2>4, <2>5, <2>6, <2>7, <2>8, <2>9, <2>10,
               <2>11, <2>12, <2>13, <2>14 DEF Next, Step
  <1> QED BY <1>1, <1>2, TypeCorrect, PTL DEF Spec, ImplementsBoxes, Boxes!Safety
=============================================================================
