------------------------------- MODULE Items -------------------------------
(***************************************************************************)
(* What details::list promises its users: sequences of items, and a cursor   *)
(* that stays on its item whatever is added around it, is moved by splices   *)
(* and swaps together with it, and goes to the neighbour when it erases.     *)
(***************************************************************************)
EXTENDS Integers, Sequences, SequencesExt

CONSTANTS Lists, Cells, NoItem

VARIABLES items, cursor
vars == <<items, cursor>>

Used == UNION {Range(items[l]) : l \in Lists}

Init ==
    /\ items = [l \in Lists |-> <<>>]
    /\ cursor = NoItem

Add(l, c) ==
    /\ c \notin Used
    /\ \/ items' = [items EXCEPT ![l] = Append(@, c)]
       \/ items' = [items EXCEPT ![l] = <<c>> \o @]
    /\ UNCHANGED cursor

\* The item at the place i of s, or none when i is before or behind it.
At(s, i) == IF i \in 1..Len(s) THEN s[i] ELSE NoItem

Place(l, i, d) ==
    /\ cursor' = At(items[l], i + d)
    /\ UNCHANGED items

Erase(l, i, d) ==
    /\ items' = [items EXCEPT ![l] = RemoveAt(@, i)]
    /\ cursor' = At(items[l], i + d)

Splice(l, m) ==
    /\ items' = [items EXCEPT ![l] = @ \o items[m], ![m] = <<>>]
    /\ UNCHANGED cursor

Swap(l, m) ==
    /\ items' = [items EXCEPT ![l] = items[m], ![m] = items[l]]
    /\ UNCHANGED cursor

Clear(l) ==
    /\ cursor \notin Range(items[l])
    /\ items' = [items EXCEPT ![l] = <<>>]
    /\ UNCHANGED cursor

Next ==
    \/ \E l \in Lists, c \in Cells : Add(l, c)
    \/ \E l \in Lists : Place(l, 0, 1) \/ Place(l, Len(items[l]) + 1, -1)
    \/ \E l \in Lists, d \in {1, -1} : \E i \in 1..Len(items[l]) :
          items[l][i] = cursor /\ (Place(l, i, d) \/ Erase(l, i, d))
    \/ \E l, m \in Lists : l # m /\ (Splice(l, m) \/ Swap(l, m))
    \/ \E l \in Lists : Clear(l)

Spec == Init /\ [][Next]_vars
=============================================================================
