----------------------------- MODULE Observers -----------------------------
(***************************************************************************)
(* The slot registry behind every signal of the library: observers::base     *)
(* (its impl), with the default, non-recursive mutex.                        *)
(*                                                                           *)
(* A slot is known by the number connect() gave it.  Connecting and          *)
(* unsubscribing take only tmp_lock_, so any thread, the slots themselves    *)
(* included, may do them in the middle of an emission; the emission holds    *)
(* list_lock_ from its first step to its last, so there is one at a time and *)
(* unsubscribe_all() waits for it.  A step of the model is one critical      *)
(* section of tmp_lock_, or what the emission does between two of them.      *)
(***************************************************************************)
EXTENDS Integers, Sequences, SequencesExt, FiniteSetsExt

CONSTANT MaxId      \* bound on the number of slots ever connected
ASSUME MaxIdAssumption == MaxId \in Nat

VARIABLES
    list,       \* list_: the slots an emission walks
    added,      \* added_: the slots connected since the last emission began
    removed,    \* removed_: numbers unsubscribed and not yet taken off
    nextId,     \* id_
    phase,      \* where the emission stands; "idle" when list_lock_ is free
    cursor,     \* the node the emission, or clear_removed, stands on
    tmp,        \* clear_removed's copy of removed_, what is left of it
    gone,       \* history: numbers whose unsubscribe has returned
    called,     \* history: the slots called by this emission, in order
    due         \* history: the slots subscribed when this emission began

vars == <<list, added, removed, nextId, phase, cursor, tmp, gone, called, due>>

Ids == 1..MaxId

----------------------------------------------------------------------------
Init ==
    /\ list = <<>>
    /\ added = <<>>
    /\ removed = {}
    /\ nextId = 1
    /\ phase = "idle"
    /\ cursor = 1
    /\ tmp = {}
    /\ gone = {}
    /\ called = <<>>
    /\ due = {}

\* Where remove_by_index stops in lst when it looks for id: it walks from the
\* end that is closer, judging by the numbers at the two ends.
StopsAt(lst, id, i) ==
    IF id - lst[1] < lst[Len(lst)] - id
      THEN lst[i] >= id /\ \A j \in 1..(i - 1) : lst[j] < id
      ELSE lst[i] <= id /\ \A j \in (i + 1)..Len(lst) : id < lst[j]

\* remove_by_index: erases the node it stops at, if that is the one.
RemoveByIndex(lst, id) ==
    LET hits == {i \in 1..Len(lst) :
                    /\ lst[1] <= id /\ id <= lst[Len(lst)]
                    /\ StopsAt(lst, id, i)
                    /\ lst[i] = id}
    IN  IF hits = {} THEN lst ELSE RemoveAt(lst, CHOOSE i \in hits : TRUE)

----------------------------------------------------------------------------
(* Any thread, at any time.                                                  *)

Connect ==
    /\ nextId <= MaxId
    /\ added' = Append(added, nextId)
    /\ nextId' = nextId + 1
    /\ UNCHANGED <<list, removed, phase, cursor, tmp, gone, called, due>>

\* Mutant: the number is marked only when its slot is still in added_.
MutantUnsubscribe(id) ==
    /\ id < nextId
    /\ removed' = removed \cup ({id} \cap Range(added))
    /\ added' = RemoveByIndex(added, id)
    /\ gone' = gone \cup {id}
    /\ UNCHANGED <<list, nextId, phase, cursor, tmp, called, due>>

\* A subscription may be unsubscribed more than once.
Unsubscribe(id) ==
    /\ id < nextId
    /\ removed' = removed \cup {id}
    /\ added' = RemoveByIndex(added, id)
    /\ gone' = gone \cup {id}
    /\ UNCHANGED <<list, nextId, phase, cursor, tmp, called, due>>

\* clear(): waits for list_lock_.
UnsubscribeAll ==
    /\ phase = "idle"
    /\ list' = <<>>
    /\ added' = <<>>
    /\ removed' = {}
    /\ gone' = 1..(nextId - 1)
    /\ UNCHANGED <<nextId, phase, cursor, tmp, called, due>>

----------------------------------------------------------------------------
(* The emission, operator().                                                 *)

\* Takes list_lock_; splice_added() moves the new slots to the list.
EmitBegin ==
    /\ phase = "idle"
    /\ list' = list \o added
    /\ added' = <<>>
    /\ phase' = "scan"
    /\ cursor' = 1
    /\ called' = <<>>
    /\ due' = (1..(nextId - 1)) \ gone
    /\ UNCHANGED <<removed, nextId, tmp, gone>>

\* Mutant: the iterator is advanced once more after the erase.
MutantDropRemoved ==
    /\ phase = "scan" /\ cursor <= Len(list)
    /\ list[cursor] \in removed
    /\ removed' = removed \ {list[cursor]}
    /\ list' = RemoveAt(list, cursor)
    /\ cursor' = cursor + 1
    /\ UNCHANGED <<added, nextId, phase, tmp, gone, called, due>>

\* is_removed() says yes: the node is erased, the iterator moves to the next.
DropRemoved ==
    /\ phase = "scan" /\ cursor <= Len(list)
    /\ list[cursor] \in removed
    /\ removed' = removed \ {list[cursor]}
    /\ list' = RemoveAt(list, cursor)
    /\ UNCHANGED <<added, nextId, phase, cursor, tmp, gone, called, due>>

\* Mutant: the slot is called without asking is_removed().
MutantCallSlot ==
    /\ phase = "scan" /\ cursor <= Len(list)
    /\ phase' = "exec"
    /\ called' = Append(called, list[cursor])
    /\ UNCHANGED <<list, added, removed, nextId, cursor, tmp, gone, due>>

\* is_removed() says no: the slot is called, outside tmp_lock_.
CallSlot ==
    /\ phase = "scan" /\ cursor <= Len(list)
    /\ list[cursor] \notin removed
    /\ phase' = "exec"
    /\ called' = Append(called, list[cursor])
    /\ UNCHANGED <<list, added, removed, nextId, cursor, tmp, gone, due>>

\* The slot returns.  The one slot traits class never says a slot has expired.
SlotReturns ==
    /\ phase = "exec"
    /\ phase' = "scan"
    /\ cursor' = cursor + 1
    /\ UNCHANGED <<list, added, removed, nextId, tmp, gone, called, due>>

\* The slot throws: the guard frees list_lock_ and the rest of the emission,
\* clear_removed included, does not happen.
SlotThrows ==
    /\ phase = "exec"
    /\ phase' = "idle"
    /\ UNCHANGED <<list, added, removed, nextId, cursor, tmp, gone, called, due>>

\* clear_removed(), under tmp_lock_: the set of numbers is swapped out.
SwapRemoved ==
    /\ phase = "scan" /\ cursor > Len(list)
    /\ tmp' = removed
    /\ removed' = {}
    /\ cursor' = 1
    /\ phase' = "clear"
    /\ UNCHANGED <<list, added, nextId, gone, called, due>>

\* Mutant: a number that has no node is looked for again and again.
MutantClearOne ==
    /\ phase = "clear" /\ tmp # {} /\ cursor <= Len(list)
    /\ \E b \in tmp : \E stop \in cursor..(Len(list) + 1) :
          /\ \A o \in tmp : b <= o
          /\ \A j \in cursor..(stop - 1) : list[j] < b
          /\ stop <= Len(list) => list[stop] >= b
          /\ cursor' = stop
          /\ IF stop <= Len(list) /\ list[stop] = b
               THEN list' = RemoveAt(list, stop) /\ tmp' = tmp \ {b}
               ELSE UNCHANGED <<list, tmp>>
    /\ UNCHANGED <<added, removed, nextId, phase, gone, called, due>>

\* clear_removed(), one number: walk on to the first node that is not below it,
\* and erase that node if it is the one.  Both sides are in ascending order.
ClearOne ==
    /\ phase = "clear" /\ tmp # {} /\ cursor <= Len(list)
    /\ \E b \in tmp : \E stop \in cursor..(Len(list) + 1) :
          /\ \A o \in tmp : b <= o
          /\ \A j \in cursor..(stop - 1) : list[j] < b
          /\ stop <= Len(list) => list[stop] >= b
          /\ tmp' = tmp \ {b}
          /\ cursor' = stop
          /\ list' = IF stop <= Len(list) /\ list[stop] = b
                       THEN RemoveAt(list, stop) ELSE list
    /\ UNCHANGED <<added, removed, nextId, phase, gone, called, due>>

\* The walk is over when either side is; list_lock_ is freed.
EmitEnd ==
    /\ phase = "clear" /\ (tmp = {} \/ cursor > Len(list))
    /\ tmp' = {}
    /\ phase' = "idle"
    /\ UNCHANGED <<list, added, removed, nextId, cursor, gone, called, due>>

----------------------------------------------------------------------------
EmitStep == DropRemoved \/ CallSlot \/ SlotReturns \/ SwapRemoved \/ ClearOne \/ EmitEnd

Next ==
    \/ Connect \/ (\E id \in Ids : Unsubscribe(id)) \/ UnsubscribeAll
    \/ EmitBegin \/ EmitStep \/ SlotThrows

Spec == Init /\ [][Next]_vars

\* The emitting thread goes on running, and the slots it calls return or throw.
FairSpec == Spec /\ WF_vars(EmitStep \/ SlotThrows)

----------------------------------------------------------------------------
(* Correctness.                                                              *)

\* Type invariant: what the registry and the emission hold.
TypeOK ==
    /\ list \in Seq(Ids)
    /\ added \in Seq(Ids)
    /\ removed \in SUBSET Ids
    /\ nextId \in 1..(MaxId + 1)
    /\ phase \in {"idle", "scan", "exec", "clear"}
    /\ cursor \in Nat \ {0}
    /\ tmp \in SUBSET Ids
    /\ gone \in SUBSET Ids
    /\ called \in Seq(Ids)
    /\ due \in SUBSET Ids

Ascending(s) == \A i, j \in 1..Len(s) : i < j => s[i] < s[j]

\* list_ and, behind it, added_ are in the order of connect(), each number once.
\* remove_by_index and the merge in clear_removed search them by that order.
InOrder ==
    /\ Ascending(list) /\ Ascending(added)
    /\ \A i \in 1..Len(list), j \in 1..Len(added) : list[i] < added[j]

\* A slot that was unsubscribed and whose node is still there is marked, so that
\* no emission calls it; the mark is lost neither when clear_removed takes the
\* set away nor when an emission is cut short.
GoneIsMarked ==
    /\ \A i \in 1..Len(list) : list[i] \in gone => list[i] \in removed \cup tmp
    /\ \A i \in 1..Len(added) : added[i] \notin gone

\* What the searches and the emission rely on.
SlotsAccounted == TypeOK /\ InOrder /\ GoneIsMarked

\* A slot that was connected and not unsubscribed is never lost: erasing others
\* during emissions and clean-ups does not take it off.
NoSlotLost ==
    \A id \in 1..(nextId - 1) :
       id \in gone \cup Range(list) \cup Range(added)

\* An emission that runs to its end has called every slot that was subscribed when
\* it began, but for those unsubscribed meanwhile.
EmissionComplete ==
    phase = "clear" => due \subseteq Range(called) \cup gone

\* An emission calls slots in the order they were connected, none twice, and only
\* such as were subscribed when it began: not one connected during it.
CalledInOrder ==
    /\ Ascending(called)
    /\ Range(called) \subseteq due

\* An emission calls the slots subscribed when it begins: all, in order, no other.
EmissionRight == NoSlotLost /\ EmissionComplete /\ CalledInOrder

\* No emission decides to call a slot whose unsubscribe has returned.
NoCallAfterUnsubscribe ==
    [][ Len(called') > Len(called) => called'[Len(called')] \notin gone ]_vars

\* Every emission ends, whatever is connected and unsubscribed while it runs.
EmissionEnds == phase # "idle" ~> phase = "idle"
=============================================================================
