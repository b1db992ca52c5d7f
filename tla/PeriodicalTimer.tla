--------------------------- MODULE PeriodicalTimer ---------------------------
(***************************************************************************)
(* timers::periodical: call() arms a deadline timer whose handler arms it    *)
(* again for as long as the timer is enabled.  Threads of the program call   *)
(* and cancel, one thread runs the io_service.  lock_ guards enabled_, but   *)
(* not the steps of call() and call_impl(), which are steps here too.        *)
(*                                                                           *)
(* Each call() begins a chain of waits and handlers, named by its number.    *)
(* All that wait on the deadline timer wait for the same time; setting a new  *)
(* one aborts them.                                                          *)
(***************************************************************************)
EXTENDS Integers, Sequences, SequencesExt

CONSTANTS
    Users,      \* threads that call and cancel
    MaxCalls,   \* bound on the call()s
    MaxCancels  \* bound on the cancel()s

ASSUME BoundsAssumption == MaxCalls \in Nat /\ MaxCancels \in Nat

Chains == 1..MaxCalls

VARIABLES
    enabled,    \* enabled_
    waits,      \* chains that wait on the deadline timer, in order
    ready,      \* handlers to run, [chain, ok]
    io,         \* the handler that runs, and how far it is
    user,       \* the call() each thread is in, and how far it is
    calls,      \* call()s begun
    cancels,    \* cancel()s made
    late,       \* history: handler calls of each chain since the timer was cancelled,
                \*   counted up to two
    told        \* history: chains whose handler was called with an error

vars == <<enabled, waits, ready, io, user, calls, cancels, late, told>>

Nobody == [at |-> "idle", chain |-> 0]
At(step, g) == [at |-> step, chain |-> g]

Init ==
    /\ enabled = FALSE
    /\ waits = <<>>
    /\ ready = <<>>
    /\ io = Nobody
    /\ user = [u \in Users |-> Nobody]
    /\ calls = 0 /\ cancels = 0
    /\ late = [g \in Chains |-> 0] /\ told = {}

\* deadline: the handlers of all that wait are posted, in the order they came.
Complete(ok) ==
    /\ waits' = <<>>
    /\ ready' = ready \o [i \in 1..Len(waits) |-> [chain |-> waits[i], ok |-> ok]]

\* deadline: expires_from_now() aborts what waits.
ExpiresFromNow == Complete(FALSE)

AsyncWait(g) == waits' = Append(waits, g)

----------------------------------------------------------------------------
\* call: the deadline is set ...
Call(u) ==
    /\ user[u] = Nobody /\ calls < MaxCalls
    /\ calls' = calls + 1
    /\ ExpiresFromNow
    /\ user' = [user EXCEPT ![u] = At("set_enabled", calls + 1)]
    /\ UNCHANGED <<enabled, io, cancels, late, told>>

\* ... then enabled_ ...
SetEnabled(u) ==
    /\ user[u].at = "set_enabled"
    /\ enabled' = TRUE
    /\ user' = [user EXCEPT ![u].at = "async_wait"]
    /\ UNCHANGED <<waits, ready, io, calls, cancels, late, told>>

\* ... then the wait begins.
CallWaits(u) ==
    /\ user[u].at = "async_wait"
    /\ AsyncWait(user[u].chain)
    /\ user' = [user EXCEPT ![u] = Nobody]
    /\ UNCHANGED <<enabled, ready, io, calls, cancels, late, told>>

\* cancel, within lock_; on a timer that is not enabled it does nothing.
Cancel(u) ==
    /\ user[u] = Nobody /\ cancels < MaxCancels
    /\ enabled
    /\ enabled' = FALSE
    /\ Complete(FALSE)
    /\ cancels' = cancels + 1
    /\ late' = [g \in Chains |-> 0]
    /\ UNCHANGED <<io, user, calls, told>>

----------------------------------------------------------------------------
\* The deadline is reached.
Expire ==
    /\ waits # <<>>
    /\ Complete(TRUE)
    /\ UNCHANGED <<enabled, io, user, calls, cancels, late, told>>

\* Mutant: the error is not asked for.
MutantSucceeded(h) == TRUE

Succeeded(h) == h.ok

\* handler: the user's handler is called, with an error or without.
UserHandler ==
    /\ io = Nobody /\ ready # <<>>
    /\ ready' = Tail(ready)
    /\ LET h == Head(ready) IN
         /\ io' = IF Succeeded(h) THEN At("enabled", h.chain) ELSE Nobody
         /\ IF h.ok
              THEN /\ late' = [late EXCEPT ![h.chain] = IF enabled \/ @ = 2 THEN @ ELSE @ + 1]
                   /\ UNCHANGED told
              ELSE UNCHANGED late /\ told' = told \cup {h.chain}
    /\ UNCHANGED <<enabled, waits, user, calls, cancels>>

\* Mutant: enabled_ is not asked.
MutantGoesOn == TRUE

GoesOn == enabled

\* handler: is the timer still enabled?
TestEnabled ==
    /\ io.at = "enabled"
    /\ io' = IF GoesOn THEN At("expires", io.chain) ELSE Nobody
    /\ UNCHANGED <<enabled, waits, ready, user, calls, cancels, late, told>>

\* Mutant: the deadline is set when the wait has begun already.
MutantCallImplExpires ==
    /\ io.at = "expires"
    /\ waits' = <<>>
    /\ ready' = ready \o [i \in 1..(Len(waits) + 1) |->
                            [chain |-> Append(waits, io.chain)[i], ok |-> FALSE]]
    /\ io' = Nobody
    /\ UNCHANGED <<enabled, user, calls, cancels, late, told>>

\* call_impl: a new deadline ...
CallImplExpires ==
    /\ io.at = "expires"
    /\ ExpiresFromNow
    /\ io' = At("async_wait", io.chain)
    /\ UNCHANGED <<enabled, user, calls, cancels, late, told>>

\* ... and the wait.
CallImplWaits ==
    /\ io.at = "async_wait"
    /\ AsyncWait(io.chain)
    /\ io' = Nobody
    /\ UNCHANGED <<enabled, ready, user, calls, cancels, late, told>>

CallStep(u) == SetEnabled(u) \/ CallWaits(u)

IoStep == UserHandler \/ TestEnabled \/ CallImplExpires \/ CallImplWaits

Next ==
    \/ \E u \in Users : Call(u) \/ CallStep(u) \/ Cancel(u)
    \/ Expire \/ IoStep

Spec == Init /\ [][Next]_vars

\* The io_service runs, time passes, and a thread that is in call() returns from it.
FairSpec ==
    /\ Spec
    /\ WF_vars(IoStep) /\ WF_vars(Expire)
    /\ \A u \in Users : WF_vars(CallStep(u))

----------------------------------------------------------------------------
(* Correctness.                                                              *)

\* Type invariant.
TypeOK ==
    /\ enabled \in BOOLEAN
    /\ waits \in Seq(Chains)
    /\ ready \in Seq([chain : Chains, ok : BOOLEAN])
    /\ io \in {Nobody} \cup [at : {"enabled", "expires", "async_wait"}, chain : Chains]
    /\ \A u \in Users :
         user[u] \in {Nobody} \cup [at : {"set_enabled", "async_wait"}, chain : Chains]
    /\ calls \in 0..MaxCalls /\ cancels \in 0..MaxCancels
    /\ late \in [Chains -> 0..2]
    /\ told \subseteq Chains

\* Chains that may call their handler again.
Living ==
    (Range(waits) \cup {h.chain : h \in {r \in Range(ready) : r.ok}}
           \cup {io.chain} \cup {user[u].chain : u \in Users}) \ {0}

\* After a cancel, while nobody enables the timer again, the handler of each call()
\* is called once more at most: it was posted already, or was just arming the timer.
OneLateTick == \A g \in Chains : late[g] <= 1

\* A handler that is called with an error is not called again.
ErrorIsLast == told \cap Living = {}

\* A handler that was cancelled or told of an error is done, but for one late call.
DoneIsDone == TypeOK /\ OneLateTick /\ ErrorIsLast

\* A timer that stays enabled goes on calling a handler, however the calls and the
\* cancels before ran into each other and into the handler.
KeepsTicking == <>[]enabled => []<>(io.at = "enabled")

\* A timer that stays cancelled becomes silent.
CancelSilences == <>[]~enabled => <>[](Living = {} /\ ready = <<>>)
=============================================================================
