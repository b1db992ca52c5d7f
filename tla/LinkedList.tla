----------------------------- MODULE LinkedList -----------------------------
(***************************************************************************)
(* details::list, the list the signals keep their slots in: nodes on a heap, *)
(* linked both ways, and for each list the pointers front_ and back_ and the *)
(* count size_.  An iterator is a bare pointer to a node.                    *)
(*                                                                           *)
(* A node's address stands for its data too.  Several lists share the heap,  *)
(* so that a node freed by one may be given to another; one iterator is at   *)
(* work, as in observers::base, whose locks allow no second one.             *)
(***************************************************************************)
EXTENDS Integers, Sequences, SequencesExt, FiniteSets

CONSTANTS
    Lists,      \* the lists that work together: list_ and added_ of a signal
    MaxNodes    \* bound on the nodes allocated at a time
ASSUME MaxNodesAssumption == MaxNodes \in Nat

NULL == 0
Nodes == 1..MaxNodes
Pointers == Nodes \cup {NULL}

VARIABLES
    live,       \* the nodes allocated
    next, prev, \* next_ and prev_ of every node
    front, back,\* front_ and back_ of every list
    size,       \* size_ of every list
    node        \* node_, the iterator

listVars == <<live, next, prev, front, back, size, node>>

ListInit ==
    /\ live = {}
    /\ next = [n \in Nodes |-> NULL] /\ prev = [n \in Nodes |-> NULL]
    /\ front = [l \in Lists |-> NULL] /\ back = [l \in Lists |-> NULL]
    /\ size = [l \in Lists |-> 0]
    /\ node = NULL

----------------------------------------------------------------------------
(* Adding.                                                                   *)

\* new node: both its links are NULL.
Allocate(n) == n \in Nodes \ live /\ live' = live \cup {n}

PushBack(l) == \E n \in Nodes :
    /\ Allocate(n)
    /\ back' = [back EXCEPT ![l] = n]
    /\ size' = [size EXCEPT ![l] = @ + 1]
    /\ IF front[l] = NULL
         THEN /\ front' = [front EXCEPT ![l] = n]
              /\ next' = [next EXCEPT ![n] = NULL]
              /\ prev' = [prev EXCEPT ![n] = NULL]
         ELSE /\ next' = [next EXCEPT ![n] = NULL, ![back[l]] = n]
              /\ prev' = [prev EXCEPT ![n] = back[l]]
              /\ UNCHANGED front
    /\ UNCHANGED node

PushFront(l) == \E n \in Nodes :
    /\ Allocate(n)
    /\ front' = [front EXCEPT ![l] = n]
    /\ size' = [size EXCEPT ![l] = @ + 1]
    /\ IF front[l] = NULL
         THEN /\ back' = [back EXCEPT ![l] = n]
              /\ next' = [next EXCEPT ![n] = NULL]
              /\ prev' = [prev EXCEPT ![n] = NULL]
         ELSE /\ next' = [next EXCEPT ![n] = front[l]]
              /\ prev' = [prev EXCEPT ![n] = NULL, ![front[l]] = n]
              /\ UNCHANGED back
    /\ UNCHANGED node

----------------------------------------------------------------------------
(* The iterator, and erasing at it.                                          *)

Begin(l) == node' = front[l] /\ UNCHANGED <<live, next, prev, front, back, size>>
RBegin(l) == node' = back[l] /\ UNCHANGED <<live, next, prev, front, back, size>>

Step(link) ==
    /\ node # NULL
    /\ node' = link[node]
    /\ UNCHANGED <<live, next, prev, front, back, size>>
Forth == Step(next)
Back == Step(prev)

\* f with the link of n, if there is a node n, turned to target.
Relink(f, n, target) == IF n = NULL THEN f ELSE [f EXCEPT ![n] = target]

\* Mutant: the last node's erase leaves back_ on it.
MutantCerase(l) ==
    /\ next' = Relink(next, prev[node], next[node])
    /\ prev' = Relink(prev, next[node], prev[node])
    /\ front' = [front EXCEPT ![l] = IF @ = node THEN next[node] ELSE @]
    /\ live' = live \ {node}
    /\ size' = [size EXCEPT ![l] = @ - 1]
    /\ UNCHANGED back

Cerase(l) ==
    /\ next' = Relink(next, prev[node], next[node])
    /\ prev' = Relink(prev, next[node], prev[node])
    /\ back' = [back EXCEPT ![l] = IF @ = node THEN prev[node] ELSE @]
    /\ front' = [front EXCEPT ![l] = IF @ = node THEN next[node] ELSE @]
    /\ live' = live \ {node}
    /\ size' = [size EXCEPT ![l] = @ - 1]

\* The nodes met from first on, following link.  A walk that meets no end is cut.
Met(first, link) ==
    LET at[i \in 1..(MaxNodes + 1)] ==
            IF i = 1 THEN first
            ELSE IF at[i - 1] = NULL THEN NULL ELSE link[at[i - 1]]
    IN  at

Walk(first, link) ==
    LET at == Met(first, link)
        length == CHOOSE n \in 0..(MaxNodes + 1) :
                     \A i \in 1..(MaxNodes + 1) : at[i] # NULL <=> i <= n
    IN  [i \in 1..length |-> at[i]]

Holds(l) == Walk(front[l], next)

\* erase() and rerase() are called on the list the iterator walks.
Mine(l) == node # NULL /\ node \in Range(Holds(l))

\* Mutant: the node is read after it was freed, and the iterator stays on it.
MutantErase(l) == Mine(l) /\ Cerase(l) /\ node' = node

\* erase() returns the node behind, rerase() the one before.
Erase(l) == Mine(l) /\ Cerase(l) /\ node' = next[node]
Rerase(l) == Mine(l) /\ Cerase(l) /\ node' = prev[node]

----------------------------------------------------------------------------
(* Whole lists.                                                              *)

\* Mutant: the nodes are joined, and their count forgotten.
MutantSpliceBack(l, m) ==
    /\ l # m
    /\ front' = [front EXCEPT ![l] = IF @ = NULL THEN front[m] ELSE @, ![m] = NULL]
    /\ back' = [back EXCEPT ![l] = IF front[m] = NULL THEN @ ELSE back[m], ![m] = NULL]
    /\ next' = IF front[l] = NULL THEN next ELSE Relink(next, back[l], front[m])
    /\ prev' = IF front[l] = NULL THEN prev ELSE Relink(prev, front[m], back[l])
    /\ size' = [size EXCEPT ![m] = 0]
    /\ UNCHANGED <<live, node>>

\* l.splice_back(m) does nothing when the two are one list.
SpliceBack(l, m) ==
    /\ l # m
    /\ \/ /\ front[l] = NULL
          /\ front' = [front EXCEPT ![l] = front[m], ![m] = NULL]
          /\ back' = [back EXCEPT ![l] = back[m], ![m] = NULL]
          /\ UNCHANGED <<next, prev>>
       \/ /\ front[l] # NULL /\ front[m] # NULL
          /\ next' = [next EXCEPT ![back[l]] = front[m]]
          /\ prev' = [prev EXCEPT ![front[m]] = back[l]]
          /\ back' = [back EXCEPT ![l] = back[m], ![m] = NULL]
          /\ front' = [front EXCEPT ![m] = NULL]
       \/ /\ front[l] # NULL /\ front[m] = NULL
          /\ front' = [front EXCEPT ![m] = NULL]
          /\ back' = [back EXCEPT ![m] = NULL]
          /\ UNCHANGED <<next, prev>>
    /\ size' = [size EXCEPT ![l] = @ + size[m], ![m] = 0]
    /\ UNCHANGED <<live, node>>

Swap(l, m) ==
    /\ l # m
    /\ front' = [front EXCEPT ![l] = front[m], ![m] = front[l]]
    /\ back' = [back EXCEPT ![l] = back[m], ![m] = back[l]]
    /\ size' = [size EXCEPT ![l] = size[m], ![m] = size[l]]
    /\ UNCHANGED <<live, next, prev, node>>

\* ~list(), whose clear() frees every node from front_ on, and a new list() in
\* its place.  No iterator may be left on it.
Destroy(l) ==
    /\ ~Mine(l)
    /\ live' = live \ Range(Holds(l))
    /\ front' = [front EXCEPT ![l] = NULL]
    /\ back' = [back EXCEPT ![l] = NULL]
    /\ size' = [size EXCEPT ![l] = 0]
    /\ UNCHANGED <<next, prev, node>>

ListNext ==
    \/ \E l \in Lists : PushBack(l) \/ PushFront(l)
    \/ \E l \in Lists : Begin(l) \/ RBegin(l)
    \/ Forth \/ Back
    \/ \E l \in Lists : Erase(l) \/ Rerase(l) \/ Destroy(l)
    \/ \E l, m \in Lists : SpliceBack(l, m) \/ Swap(l, m)

ListSpec == ListInit /\ [][ListNext]_listVars

----------------------------------------------------------------------------
(* Correctness.                                                              *)

\* Type invariant.
ListTypeOK ==
    /\ live \in SUBSET Nodes
    /\ next \in [Nodes -> Pointers] /\ prev \in [Nodes -> Pointers]
    /\ front \in [Lists -> Pointers] /\ back \in [Lists -> Pointers]
    /\ size \in [Lists -> 0..MaxNodes]
    /\ node \in Pointers

\* remove_by_index walks a list from either end, whichever is closer: the walk
\* from back_ along prev_ must meet the nodes the walk from front_ along next_
\* meets, in reverse.
BothWaysAlike == \A l \in Lists : Holds(l) = Reverse(Walk(back[l], prev))

\* Every allocated node is in one list, once, and no list leads to a freed one:
\* nothing leaks and nothing dangles, whatever was spliced, swapped and erased.
HeapIsShared ==
    /\ live = UNION {Range(Holds(l)) : l \in Lists}
    /\ \A l \in Lists : IsInjective(Holds(l))
    /\ \A l, m \in Lists : l # m => Range(Holds(l)) \cap Range(Holds(m)) = {}

\* size_ is the length of the list.  remove_by_index asks it whether there is a
\* first node to look at.
SizeIsLength == \A l \in Lists : size[l] = Len(Holds(l))

\* The iterator is never left on a node that was freed.
IteratorLives == node \in live \cup {NULL}

\* Links, ends and counts agree with each other.
LinksAgree == ListTypeOK /\ BothWaysAlike /\ SizeIsLength

\* No pointer leads to freed memory, no memory is lost.
NothingDangles == HeapIsShared /\ IteratorLives

\* The lists and the iterator are those of Items.
Abstract == INSTANCE Items
              WITH items <- [l \in Lists |-> Holds(l)], cursor <- node,
                   Cells <- Nodes, NoItem <- NULL
ImplementsItems == Abstract!Spec
=============================================================================
