--------------------------- MODULE MCThreadLife ----------------------------
(***************************************************************************)
(* What begins and ends for TLC: threads, child processes and the tasks of *)
(* interval timers; a behaviour is about one of them.  Threads are either  *)
(* joined or detach themselves, return from their functions, and the       *)
(* program ends; or they are detached by others and call pthread_exit.     *)
(***************************************************************************)
EXTENDS ThreadLife, ChildProcs, ITimer

VARIABLE use

lifeVars == <<use, vars, chVars, itVars>>

JoinsOrEnds == ExitCall \/ \E t \in Tasks, s \in ThreadSlots : JoinCall(t, s)

(* A thread that ends is detached by another, or one that                     *)
(* __pthread_exit_func may be joining detaches itself: see the README.        *)
DetachesLate ==
    \E t \in Tasks, s \in ThreadSlots :
        (exiting \/ threads[s].task # t) /\ pthread_detach(t, s)
Exits == \E t \in Tasks : pthread_exit(t)

(* Processes that are not started are alike: one of them is the next.         *)
InOrder ==
    \A t \in Tasks :
        pc[t] = "none" /\ pc'[t] # "none" => t = CHOOSE u \in Tasks : pc[u] = "none"

LifeInit == /\ use \in {"join", "detach", "children", "timers"}
            /\ Init /\ ChInit /\ ItInit
LifeNext ==
    /\ UNCHANGED use
    /\ \/ use = "join" /\ Next /\ InOrder /\ ~Exits /\ ~DetachesLate /\ UNCHANGED <<chVars, itVars>>
       \/ use = "detach" /\ Next /\ InOrder /\ ~JoinsOrEnds /\ UNCHANGED <<chVars, itVars>>
       \/ use = "children" /\ ChNext /\ UNCHANGED <<vars, itVars>>
       \/ use = "timers" /\ ItNext /\ UNCHANGED <<vars, chVars>>
LifeSpec == LifeInit /\ [][LifeNext]_lifeVars /\ Fairness /\ ItFairness
=============================================================================
