---------------------------- MODULE Subscriptions ----------------------------
(***************************************************************************)
(* The handles a signal gives to those who subscribe: subscription, which    *)
(* may be copied and forgotten, and scoped_subscription, which ends what it  *)
(* holds; and the signals themselves, which may be cleared, moved and        *)
(* destroyed while handles to their slots are about.                         *)
(*                                                                           *)
(* A handle holds a shared pointer to an unsubscriber, which knows its slot  *)
(* and, weakly, the impl it is in; the slot stands for all of that here.     *)
(* The inside of the impl is the module Observers.                           *)
(***************************************************************************)
EXTENDS Naturals, FiniteSets

CONSTANTS
    Signals,    \* objects of observers::base
    Plain,      \* objects of subscription
    Scoped,     \* objects of scoped_subscription
    MaxSlots    \* bound on the subscriptions made
ASSUME MaxSlotsAssumption == MaxSlots \in Nat

Slots == 1..MaxSlots
None == 0

VARIABLES
    slots,      \* the slots of each signal's impl
    plain,      \* unsubscriber_ of each subscription
    scoped,     \* unsubscriber_ of each scoped_subscription
    fresh,      \* the number of the next slot
    guarded     \* history: slots given to a scoped_subscription and not released

handleVars == <<slots, plain, scoped, fresh, guarded>>

HandlesInit ==
    /\ slots = [s \in Signals |-> {}]
    /\ plain = [p \in Plain |-> None]
    /\ scoped = [q \in Scoped |-> None]
    /\ fresh = 1
    /\ guarded = {}

Subscribed == UNION {slots[s] : s \in Signals}

----------------------------------------------------------------------------
(* Signals.                                                                  *)

\* The subscription returned is assigned to p.
Subscribe(s, p) ==
    /\ fresh \in Slots
    /\ slots' = [slots EXCEPT ![s] = @ \cup {fresh}]
    /\ plain' = [plain EXCEPT ![p] = fresh]
    /\ fresh' = fresh + 1
    /\ UNCHANGED <<scoped, guarded>>

\* unsubscribe_all(), or the end of the signal, whose impl goes with it.
Empty(s) ==
    /\ slots' = [slots EXCEPT ![s] = {}]
    /\ UNCHANGED <<plain, scoped, fresh, guarded>>

\* Mutant: the impl moved away is not replaced by a new one.
MutantMoveSignal(s, r) ==
    /\ s # r
    /\ slots' = [slots EXCEPT ![s] = slots[r]]
    /\ UNCHANGED <<plain, scoped, fresh, guarded>>

\* s is constructed from r, or r is assigned to it, with std::move: they swap
\* their impls, and r gets a new one, so that what s had is destroyed.
MoveSignal(s, r) ==
    /\ s # r
    /\ slots' = [slots EXCEPT ![s] = slots[r], ![r] = {}]
    /\ UNCHANGED <<plain, scoped, fresh, guarded>>

----------------------------------------------------------------------------
(* Handles.                                                                  *)

\* unsubscriber::run: takes the slot off if there is one, and if its impl lives.
Run(t) == slots' = [s \in Signals |-> slots[s] \ {t}]

UnsubscribePlain(p) ==
    /\ Run(plain[p])
    /\ UNCHANGED <<plain, scoped, fresh, guarded>>

\* Assigned, or moved by assignment: the source keeps its pointer in both cases.
AssignPlain(p, o) ==
    /\ plain' = [plain EXCEPT ![p] = plain[o]]
    /\ UNCHANGED <<slots, scoped, fresh, guarded>>

SwapPlain(p, o) ==
    /\ plain' = [plain EXCEPT ![p] = plain[o], ![o] = plain[p]]
    /\ UNCHANGED <<slots, scoped, fresh, guarded>>

\* q is constructed from an rvalue, or assigned one.  The assignment ends what q
\* has and swaps: the subscription is left with what q had.
TakePlain(q, p) ==
    /\ Run(scoped[q])
    /\ scoped' = [scoped EXCEPT ![q] = plain[p]]
    /\ plain' = [plain EXCEPT ![p] = scoped[q]]
    /\ guarded' = guarded \cup ({plain[p]} \ {None})
    /\ UNCHANGED fresh

\* q is constructed from an lvalue, or assigned one.
CopyPlain(q, p) ==
    /\ Run(scoped[q])
    /\ scoped' = [scoped EXCEPT ![q] = plain[p]]
    /\ guarded' = guarded \cup ({plain[p]} \ {None})
    /\ UNCHANGED <<plain, fresh>>

\* q is constructed from o or assigned it, as an lvalue or with std::move: the
\* pointers are swapped, and what o has then is ended.
MoveScoped(q, o) ==
    /\ q # o
    /\ Run(scoped[q])
    /\ scoped' = [scoped EXCEPT ![q] = scoped[o], ![o] = None]
    /\ UNCHANGED <<plain, fresh, guarded>>

SwapScoped(q, o) ==
    /\ q # o
    /\ scoped' = [scoped EXCEPT ![q] = scoped[o], ![o] = scoped[q]]
    /\ UNCHANGED <<slots, plain, fresh, guarded>>

\* unsubscribe() keeps the pointer: it may run again.
UnsubscribeScoped(q) ==
    /\ Run(scoped[q])
    /\ UNCHANGED <<plain, scoped, fresh, guarded>>

\* reset(), or the end of q.
Reset(q) ==
    /\ Run(scoped[q])
    /\ scoped' = [scoped EXCEPT ![q] = None]
    /\ UNCHANGED <<plain, fresh, guarded>>

\* Mutant: what is handed out is ended too, as in reset().
MutantRelease(q, p) ==
    /\ Run(scoped[q])
    /\ plain' = [plain EXCEPT ![p] = scoped[q]]
    /\ scoped' = [scoped EXCEPT ![q] = None]
    /\ guarded' = guarded \ {scoped[q]}
    /\ UNCHANGED fresh

\* The subscription returned is assigned to p.
Release(q, p) ==
    /\ plain' = [plain EXCEPT ![p] = scoped[q]]
    /\ scoped' = [scoped EXCEPT ![q] = None]
    /\ guarded' = guarded \ {scoped[q]}
    /\ UNCHANGED <<slots, fresh>>

HandlesNext ==
    \/ \E s \in Signals : Empty(s) \/ \E p \in Plain : Subscribe(s, p)
    \/ \E s, r \in Signals : MoveSignal(s, r)
    \/ \E p \in Plain : UnsubscribePlain(p)
    \/ \E p, o \in Plain : AssignPlain(p, o) \/ SwapPlain(p, o)
    \/ \E q \in Scoped, p \in Plain : TakePlain(q, p) \/ CopyPlain(q, p) \/ Release(q, p)
    \/ \E q, o \in Scoped : MoveScoped(q, o) \/ SwapScoped(q, o)
    \/ \E q \in Scoped : UnsubscribeScoped(q) \/ Reset(q)

HandlesSpec == HandlesInit /\ [][HandlesNext]_handleVars

----------------------------------------------------------------------------
(* Correctness.                                                              *)

\* Type invariant.
HandlesTypeOK ==
    /\ slots \in [Signals -> SUBSET Slots]
    /\ plain \in [Plain -> Slots \cup {None}]
    /\ scoped \in [Scoped -> Slots \cup {None}]
    /\ fresh \in 1..(MaxSlots + 1)
    /\ guarded \in SUBSET Slots

\* A slot once put under a guard and not released is subscribed only while a
\* guard holds it: no assignment, move or swap of guards lets one slip away.
NoSlotEscapes ==
    \A t \in guarded \cap Subscribed : \E q \in Scoped : scoped[q] = t

\* A slot is in one signal at most, also after signals were moved, and only when
\* a subscription of it was made: an emission does not call it for a stranger.
SlotInOneSignal ==
    /\ \A s, r \in Signals : s # r => slots[s] \cap slots[r] = {}
    /\ Subscribed \subseteq 1..(fresh - 1)

\* Every slot is where its handles look for it.
SlotsKept == HandlesTypeOK /\ NoSlotEscapes /\ SlotInOneSignal

\* A guard ends what it owns when it should, and nothing else: what is moved,
\* swapped or released stays subscribed.
Ownership == INSTANCE Guards WITH subscribed <- Subscribed, Loose <- Plain,
                                loose <- plain, guard <- scoped
ImplementsGuards == Ownership!Spec
=============================================================================
