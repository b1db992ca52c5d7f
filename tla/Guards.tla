------------------------------- MODULE Guards -------------------------------
(***************************************************************************)
(* What scoped_subscription promises: a guard owns one subscription at most, *)
(* and ends it when it is given another one or goes out of scope; what is    *)
(* moved, or released to a loose handle, is not ended.                       *)
(***************************************************************************)
EXTENDS Naturals

CONSTANTS Slots, Loose, Scoped, None

VARIABLES
    subscribed,     \* the slots an emission would call
    loose,          \* what each handle knows that owns nothing
    guard           \* what each guard owns

Init ==
    /\ subscribed = {}
    /\ loose = [p \in Loose |-> None]
    /\ guard = [q \in Scoped |-> None]

Connect(p, t) ==
    /\ subscribed' = subscribed \cup {t}
    /\ loose' = [loose EXCEPT ![p] = t]
    /\ UNCHANGED guard

\* Any holder of a subscription may end it; a signal may drop all it has.
End(T) == subscribed' = subscribed \ T /\ UNCHANGED <<loose, guard>>

\* Loose handles are copied and swapped; that ends nothing.
Shuffle(f) ==
    /\ loose' = [p \in Loose |-> loose[f[p]]]
    /\ UNCHANGED <<subscribed, guard>>

\* The guard q ends what it owns and owns what p knows.
Give(q, p) ==
    /\ guard' = [guard EXCEPT ![q] = loose[p]]
    /\ loose' \in {loose, [loose EXCEPT ![p] = guard[q]]}
    /\ subscribed' = subscribed \ {guard[q]}

Drop(q) ==
    /\ guard' = [guard EXCEPT ![q] = None]
    /\ subscribed' = subscribed \ {guard[q]}
    /\ UNCHANGED loose

Move(q, r) ==
    /\ guard' = [guard EXCEPT ![q] = guard[r], ![r] = None]
    /\ subscribed' = subscribed \ {guard[q]}
    /\ UNCHANGED loose

Release(q, p) ==
    /\ guard' = [guard EXCEPT ![q] = None]
    /\ loose' = [loose EXCEPT ![p] = guard[q]]
    /\ UNCHANGED subscribed

Swap(q, r) ==
    /\ guard' = [guard EXCEPT ![q] = guard[r], ![r] = guard[q]]
    /\ UNCHANGED <<subscribed, loose>>

Next ==
    \/ \E p \in Loose, t \in Slots : Connect(p, t)
    \/ \E T \in SUBSET subscribed : End(T)
    \/ \E f \in [Loose -> Loose] : Shuffle(f)
    \/ \E q \in Scoped : Drop(q) \/ \E p \in Loose : Give(q, p) \/ Release(q, p)
    \/ \E q, r \in Scoped : q # r /\ (Move(q, r) \/ Swap(q, r))

Spec == Init /\ [][Next]_<<subscribed, loose, guard>>
=============================================================================
