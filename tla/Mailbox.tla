------------------------------- MODULE Mailbox -------------------------------
(***************************************************************************)
(* What the slots of a waitable queue promise: each is a box that takes one  *)
(* value at a time, serves its readers one at a time with the value that is  *)
(* due, turns every reader away once it is cancelled, and gives a reader up  *)
(* only when there is nothing for it.  No locks, no condition variables.     *)
(***************************************************************************)
EXTENDS Integers, Sequences, SequencesExt

CONSTANTS Threads, Boxes, Values,
          Priority      \* TRUE: the greatest value is due, FALSE: the oldest

VARIABLES
    box,        \* what each box holds, in the order of arrival
    shut,       \* which boxes are cancelled
    reader,     \* the box each thread reads, or NoBox
    answer,     \* how each thread's last read ended
    served      \* the values each box has given out, in order

vars == <<box, shut, reader, answer, served>>

NoBox == 0

Init ==
    /\ box = [b \in Boxes |-> <<>>]
    /\ shut = [b \in Boxes |-> FALSE]
    /\ reader = [t \in Threads |-> NoBox]
    /\ answer = [t \in Threads |-> "none"]
    /\ served = [b \in Boxes |-> <<>>]

\* The i-th value of q is the one that is due.
Due(q, i) ==
    \A j \in 1..Len(q) : IF Priority THEN q[j] <= q[i] ELSE i <= j

Put(b, v) ==
    /\ box' = [box EXCEPT ![b] = Append(@, v)]
    /\ UNCHANGED <<shut, reader, answer, served>>

Shut(b) ==
    /\ shut' = [shut EXCEPT ![b] = TRUE]
    /\ UNCHANGED <<box, reader, answer, served>>

Ask(t, b) ==
    /\ reader[t] = NoBox
    /\ reader' = [reader EXCEPT ![t] = b]
    /\ answer' = [answer EXCEPT ![t] = "none"]
    /\ UNCHANGED <<box, shut, served>>

Answer(t, a) ==
    /\ reader' = [reader EXCEPT ![t] = NoBox]
    /\ answer' = [answer EXCEPT ![t] = a]

Serve(t, b) ==
    /\ reader[t] = b
    /\ ~shut[b]
    /\ \E i \in 1..Len(box[b]) :
          /\ Due(box[b], i)
          /\ served' = [served EXCEPT ![b] = Append(@, box[b][i])]
          /\ box' = [box EXCEPT ![b] = RemoveAt(@, i)]
    /\ Answer(t, "OK")
    /\ UNCHANGED shut

TurnAway(t, b) ==
    /\ reader[t] = b
    /\ shut[b]
    /\ Answer(t, "CANCELED")
    /\ UNCHANGED <<box, shut, served>>

GiveUp(t, b) ==
    /\ reader[t] = b
    /\ ~shut[b]
    /\ box[b] = <<>>
    /\ Answer(t, "TIMEOUT")
    /\ UNCHANGED <<box, shut, served>>

Next ==
    \E b \in Boxes :
        \/ \E v \in Values : Put(b, v)
        \/ Shut(b)
        \/ \E t \in Threads : Ask(t, b) \/ Serve(t, b) \/ TurnAway(t, b) \/ GiveUp(t, b)

\* A box with something to say to its readers says it to one of them; a reader
\* of a cancelled box is turned away.
Fairness ==
    /\ \A b \in Boxes :
          WF_vars(\E t \in Threads : Serve(t, b) \/ TurnAway(t, b))
    /\ \A t \in Threads, b \in Boxes : WF_vars(TurnAway(t, b))

Safety == Init /\ [][Next]_vars
Spec == Safety /\ Fairness
=============================================================================
