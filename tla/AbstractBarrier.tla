-------------------------- MODULE AbstractBarrier --------------------------
(***************************************************************************)
(* What pthread_barrier_wait promises, without lock, condition or counter: *)
(* Count threads meet, and nobody gets past the barrier, nor joins the     *)
(* next meeting, before the current one is complete.                       *)
(***************************************************************************)
EXTENDS Naturals, FiniteSets

CONSTANTS Threads, Count

VARIABLES
    waiting,  \* the threads that have arrived and have not left
    open      \* whether the meeting is complete and threads are leaving

Init == waiting = {} /\ open = FALSE

\* A thread arrives and has to wait.
Arrive(t) ==
    /\ ~open
    /\ t \notin waiting
    /\ Cardinality(waiting) + 1 < Count
    /\ waiting' = waiting \cup {t}
    /\ open' = FALSE

\* The last thread arrives.  It is the serial thread and does not wait.
Complete(t) ==
    /\ ~open
    /\ t \notin waiting
    /\ Cardinality(waiting) + 1 = Count
    /\ open' = (waiting # {})
    /\ UNCHANGED waiting

\* A thread leaves; the last one closes the barrier behind it.
Leave(t) ==
    /\ open
    /\ t \in waiting
    /\ waiting' = waiting \ {t}
    /\ open' = (waiting' # {})

Next == \E t \in Threads : Arrive(t) \/ Complete(t) \/ Leave(t)

Spec == Init /\ [][Next]_<<waiting, open>>
=============================================================================
