--------------------------- MODULE ConditionQueue ---------------------------
(***************************************************************************)
(* The waitable queues, queues::condition: a map of slots under map_lock_,   *)
(* each slot a queue with a lock and a condition variable of its own.        *)
(*                                                                           *)
(* A slot outlives its place in the map (slot_ptr is shared), so a slot is   *)
(* the number of its creation and threads keep using slots that were erased. *)
(* A step is one critical section of map_lock_ or of a slot's lock_; only    *)
(* cancel_all holds map_lock_ over several of the others.  Calls that find   *)
(* nothing (NOTFOUND, an add_slot that finds the slot) change nothing.       *)
(***************************************************************************)
EXTENDS Integers, Sequences, SequencesExt, FiniteSets

CONSTANTS
    Threads,    \* the threads that push and read
    Keys,       \* indexes of the map
    Values,     \* the values pushed, each of them once (a bound)
    MaxSlots,   \* bound on the number of slots ever created
    Priority    \* the queue trait: traits::priority or traits::simple

ASSUME ConstantsAssumption ==
    /\ IsFiniteSet(Threads)
    /\ Keys \subseteq Nat
    /\ Values \subseteq Nat \ {0}
    /\ MaxSlots \in Nat
    /\ Priority \in BOOLEAN

VARIABLES
    map,        \* map_: the slot at each key, or NoSlot
    keyOf,      \* key_ of the slots created so far
    data,       \* data_ of each slot, in the order of arrival
    canceled,   \* FLAG_CANCELED of each slot
    sweep,      \* the slots cancel_all still has to cancel; it holds map_lock_
    pc,         \* where each thread stands
    at,         \* the slot it works on, or NoSlot
    arg,        \* the value it pushes, or NoValue
    result,     \* what its last read returned
    taken       \* history: the values read from each slot, in order

vars == <<map, keyOf, data, canceled, sweep, pc, at, arg, result, taken>>

Slots == 1..MaxSlots
NoSlot == 0
NoValue == 0
Created == 1..Len(keyOf)

----------------------------------------------------------------------------
Init ==
    /\ map = [k \in Keys |-> NoSlot]
    /\ keyOf = <<>>
    /\ data = [s \in Slots |-> <<>>]
    /\ canceled = [s \in Slots |-> FALSE]
    /\ sweep = {}
    /\ pc = [t \in Threads |-> "idle"]
    /\ at = [t \in Threads |-> NoSlot]
    /\ arg = [t \in Threads |-> NoValue]
    /\ result = [t \in Threads |-> "none"]
    /\ taken = [s \in Slots |-> <<>>]

MapUnlocked == sweep = {}

Waiters(s) == {t \in Threads : pc[t] = "waiting" /\ at[t] = s}

\* The sets of waiting threads that notify_one, notify_all may wake.
NotifyOne(s) == IF Waiters(s) = {} THEN {{}} ELSE {{t} : t \in Waiters(s)}
NotifyAll(s) == {Waiters(s)}

Woken(threads) == [t \in Threads |-> IF t \in threads THEN "woken" ELSE pc[t]]

\* Mutant: a slot that is cancelled wakes one of its readers.
MutantCancel(s) ==
    /\ canceled' = [canceled EXCEPT ![s] = TRUE]
    /\ \E threads \in NotifyOne(s) : pc' = Woken(threads)

\* slot_type::cancel
Cancel(s) ==
    /\ canceled' = [canceled EXCEPT ![s] = TRUE]
    /\ \E threads \in NotifyAll(s) : pc' = Woken(threads)

----------------------------------------------------------------------------
(* The map, by any thread.                                                   *)

\* Mutant: the key is not looked for, and a slot that is there drops off the map.
MutantAddSlot(k) ==
    /\ MapUnlocked
    /\ Len(keyOf) < MaxSlots
    /\ keyOf' = Append(keyOf, k)
    /\ map' = [map EXCEPT ![k] = Len(keyOf) + 1]
    /\ UNCHANGED <<data, canceled, sweep, pc, at, arg, result, taken>>

AddSlot(k) ==
    /\ MapUnlocked
    /\ map[k] = NoSlot
    /\ Len(keyOf) < MaxSlots
    /\ keyOf' = Append(keyOf, k)
    /\ map' = [map EXCEPT ![k] = Len(keyOf) + 1]
    /\ UNCHANGED <<data, canceled, sweep, pc, at, arg, result, taken>>

\* Mutant: the slot is taken off the map and left to its readers.
MutantEraseSlot(k) ==
    /\ MapUnlocked
    /\ map[k] # NoSlot
    /\ map' = [map EXCEPT ![k] = NoSlot]
    /\ UNCHANGED <<keyOf, data, canceled, sweep, pc, at, arg, result, taken>>

\* erase_slot, by key or by pointer: the slot erased is the one that is at the
\* key now, which need not be the one the pointer names.
EraseSlot(k) ==
    /\ MapUnlocked
    /\ map[k] # NoSlot
    /\ map' = [map EXCEPT ![k] = NoSlot]
    /\ IF canceled[map[k]] THEN UNCHANGED <<canceled, pc>> ELSE Cancel(map[k])
    /\ UNCHANGED <<keyOf, data, sweep, at, arg, result, taken>>

\* cancel_slot, by key or by pointer
CancelSlot(k) ==
    /\ MapUnlocked
    /\ map[k] # NoSlot
    /\ Cancel(map[k])
    /\ UNCHANGED <<map, keyOf, data, sweep, at, arg, result, taken>>

\* slot_ptr->cancel(), which takes no map_lock_
CancelPointer(s) ==
    /\ Cancel(s)
    /\ UNCHANGED <<map, keyOf, data, sweep, at, arg, result, taken>>

CancelAll ==
    /\ MapUnlocked
    /\ sweep' = {map[k] : k \in Keys} \ {NoSlot}
    /\ UNCHANGED <<map, keyOf, data, canceled, pc, at, arg, result, taken>>

\* One turn of cancel_all's loop, in the order of the keys.
CancelNext ==
    \E s \in sweep :
        /\ \A r \in sweep : keyOf[s] <= keyOf[r]
        /\ Cancel(s)
        /\ sweep' = sweep \ {s}
        /\ UNCHANGED <<map, keyOf, data, at, arg, result, taken>>

----------------------------------------------------------------------------
(* push_to_slot and read_slot find the slot first (get_slot) and work on it  *)
(* later, when it may have been erased; with a slot_ptr they work on a slot   *)
(* found at any time before.  Either way it is a slot created before.         *)

Fresh(v) ==
    /\ \A s \in Slots : v \notin Range(data[s]) \cup Range(taken[s])
    /\ \A t \in Threads : arg[t] # v

StartPush(t, s, v) ==
    /\ pc[t] = "idle"
    /\ Fresh(v)
    /\ pc' = [pc EXCEPT ![t] = "push"]
    /\ at' = [at EXCEPT ![t] = s]
    /\ arg' = [arg EXCEPT ![t] = v]
    /\ UNCHANGED <<map, keyOf, data, canceled, sweep, result, taken>>

StartRead(t, s) ==
    /\ pc[t] = "idle"
    /\ pc' = [pc EXCEPT ![t] = "read"]
    /\ at' = [at EXCEPT ![t] = s]
    /\ result' = [result EXCEPT ![t] = "none"]
    /\ UNCHANGED <<map, keyOf, data, canceled, sweep, arg, taken>>

\* Mutant: readers are told only of a value that was not there before.
MutantNotifiedByPush(s) ==
    IF data[s] = <<>> THEN NotifyOne(s) ELSE {{}}

NotifiedByPush(s) == NotifyOne(s)

\* slot_type::push
Push(t) ==
    /\ pc[t] = "push"
    /\ data' = [data EXCEPT ![at[t]] = Append(@, arg[t])]
    /\ \E threads \in NotifiedByPush(at[t]) :
          pc' = [Woken(threads) EXCEPT ![t] = "idle"]
    /\ at' = [at EXCEPT ![t] = NoSlot]
    /\ arg' = [arg EXCEPT ![t] = NoValue]
    /\ UNCHANGED <<map, keyOf, canceled, sweep, result, taken>>

----------------------------------------------------------------------------
(* slot_type::read_for.  The condition variable tests the predicate when the *)
(* reader comes, whenever it wakes, and once more when the time is up.       *)

NotEmpty(s) == data[s] # <<>> \/ canceled[s]

Testing == {"read", "woken"}

Wait(t) ==
    /\ pc[t] \in Testing
    /\ ~NotEmpty(at[t])
    /\ pc' = [pc EXCEPT ![t] = "waiting"]
    /\ UNCHANGED <<map, keyOf, data, canceled, sweep, at, arg, result, taken>>

SpuriousWake(t) ==
    /\ pc[t] = "waiting"
    /\ pc' = [pc EXCEPT ![t] = "woken"]
    /\ UNCHANGED <<map, keyOf, data, canceled, sweep, at, arg, result, taken>>

Expire(t) ==
    /\ pc[t] = "waiting"
    /\ pc' = [pc EXCEPT ![t] = "expired"]
    /\ UNCHANGED <<map, keyOf, data, canceled, sweep, at, arg, result, taken>>

Return(t, r) ==
    /\ pc' = [pc EXCEPT ![t] = "idle"]
    /\ at' = [at EXCEPT ![t] = NoSlot]
    /\ result' = [result EXCEPT ![t] = r]

\* Where the queue trait keeps the value it gives out: at the front of a queue,
\* on the top of a heap.
IsFront(q, i) ==
    IF Priority THEN \A j \in 1..Len(q) : q[j] <= q[i] ELSE i = 1

Pop(q, i) == RemoveAt(q, i)

MayTake(s) == NotEmpty(s) /\ ~canceled[s]

ReadOk(t) ==
    LET s == at[t] IN
    /\ pc[t] \in Testing \cup {"expired"}
    /\ MayTake(s)
    /\ \E i \in 1..Len(data[s]) :
          /\ IsFront(data[s], i)
          /\ taken' = [taken EXCEPT ![s] = Append(@, data[s][i])]
          /\ data' = [data EXCEPT ![s] = Pop(@, i)]
    /\ Return(t, "OK")
    /\ UNCHANGED <<map, keyOf, canceled, sweep, arg>>

ReadCanceled(t) ==
    /\ pc[t] \in Testing \cup {"expired"}
    /\ canceled[at[t]]
    /\ Return(t, "CANCELED")
    /\ UNCHANGED <<map, keyOf, data, canceled, sweep, arg, taken>>

\* Mutant: when the time is up the predicate is not asked again.
MutantNothingToRead(s) == TRUE

NothingToRead(s) == ~NotEmpty(s)

ReadTimeout(t) ==
    /\ pc[t] = "expired"
    /\ NothingToRead(at[t])
    /\ Return(t, "TIMEOUT")
    /\ UNCHANGED <<map, keyOf, data, canceled, sweep, arg, taken>>

----------------------------------------------------------------------------
Step(t) == Push(t) \/ Wait(t) \/ ReadOk(t) \/ ReadCanceled(t) \/ ReadTimeout(t)

Next ==
    \/ \E k \in Keys : AddSlot(k) \/ EraseSlot(k) \/ CancelSlot(k)
    \/ \E s \in Created :
          \/ CancelPointer(s)
          \/ \E t \in Threads, v \in Values : StartPush(t, s, v)
          \/ \E t \in Threads : StartRead(t, s)
    \/ CancelAll
    \/ CancelNext
    \/ \E t \in Threads : Step(t) \/ SpuriousWake(t) \/ Expire(t)

\* Threads run and get the locks they wait for; nobody needs to time out.
Fairness ==
    /\ \A t \in Threads : WF_vars(Step(t))
    /\ WF_vars(CancelNext)

Spec == Init /\ [][Next]_vars
FairSpec == Spec /\ Fairness

----------------------------------------------------------------------------
(* Properties.                                                               *)

Reading == Testing \cup {"waiting", "expired"}

\* Every variable has its type; a thread is at a slot exactly while it works.
TypeOK ==
    /\ keyOf \in Seq(Keys) /\ Len(keyOf) <= MaxSlots
    /\ map \in [Keys -> Created \cup {NoSlot}]
    /\ data \in [Slots -> Seq(Values)]
    /\ canceled \in [Slots -> BOOLEAN]
    /\ sweep \subseteq Created
    /\ pc \in [Threads -> {"idle", "push"} \cup Reading]
    /\ at \in [Threads -> Created \cup {NoSlot}]
    /\ \A t \in Threads : at[t] = NoSlot <=> pc[t] = "idle"
    /\ arg \in [Threads -> Values \cup {NoValue}]
    /\ \A t \in Threads : pc[t] = "push" => arg[t] \in Values
    /\ result \in [Threads -> {"none", "OK", "CANCELED", "TIMEOUT"}]
    /\ taken \in [Slots -> Seq(Values)]

\* The threads about to test the predicate of slot s.
Awake(s) == {t \in Threads : at[t] = s /\ pc[t] \in Reading \ {"waiting"}}

\* A reader is left waiting only when the slot is not cancelled and each value
\* in it has a reader of its own that is awake: notify_one in push, notify_all
\* in cancel and the test on waking lose no wake-up.
NoLostWakeup ==
    \A s \in Slots :
        Waiters(s) # {} =>
            /\ ~canceled[s]
            /\ Len(data[s]) <= Cardinality(Awake(s))

\* Whoever waits does so on a slot that is still in the map, where a push or a
\* cancel by key finds it: erase_slot leaves no reader behind on a slot that
\* nobody can find any more.
WaitersAreReachable ==
    \A t \in Threads : pc[t] = "waiting" => map[keyOf[at[t]]] = at[t]

\* However pushes, cancels, erasures and time-outs meet, nobody waits in vain.
NobodyLeftWaiting == TypeOK /\ NoLostWakeup /\ WaitersAreReachable

\* Only the slot that is at its key in the map gives values out.  Threads that
\* found a slot before erase_slot, or before its key was added anew, may meet on
\* the old slot for as long as they like: nothing passes between them there, and
\* what was left in it when it was erased stays in it.
ErasedGivesNothing ==
    [][\A s \in Created : map[keyOf[s]] # s => taken'[s] = taken[s]]_vars

\* The slots implement boxes: values come out once each and in the order of
\* the trait, TIMEOUT is returned only with nothing to read, CANCELED only from
\* a cancelled slot, and a slot with an answer for its readers gives it.
Boxes == INSTANCE Mailbox WITH
    Boxes <- Slots, box <- data, shut <- canceled, served <- taken,
    answer <- result,
    reader <- [t \in Threads |-> IF pc[t] \in Reading THEN at[t] ELSE NoSlot]

ImplementsBoxes == Boxes!Safety
AnswersReaders == Boxes!Fairness

\* Every reader of a cancelled slot returns, whichever of the four ways of
\* cancelling it was used and wherever the reader was in read_for.
CancelReleasesReaders ==
    \A t \in Threads : (at[t] # NoSlot /\ canceled[at[t]]) ~> pc[t] = "idle"
=============================================================================
