-------------------------------- MODULE ITimer -------------------------------
(* Interval timers: setitimer, alarm and ualarm start a task for the calling  *)
(* thread (setitimer.c), which waits for the timer and raises SIGALRM         *)
(* (itimer_tasks.c).  A later call tells the task to take a new value         *)
(* (CTRL_D), a value of 0 or the end of the thread tells it to go (CTRL_F).   *)
EXTENDS Integers, FiniteSets

CONSTANTS ItThreads,
          ItMaxTasks,   \* bound on the tasks that are created
          ItMaxCalls,   \* bound on the calls of setitimer
          ItNoMemory,   \* may the TimerNode of a task that was created fail
          ItRearms      \* does a thread set a timer again that has gone off

ASSUME ItAssumption == /\ 0 \notin ItThreads /\ {ItMaxTasks, ItMaxCalls} \subseteq Nat
                       /\ {ItNoMemory, ItRearms} \subseteq BOOLEAN

VARIABLES itPc,         \* where a thread is
          itNode,       \* the task of its TimerNode in tmr_real_list, 0 without
          itTask,       \* the timer tasks
          itBlocked,    \* SIGALRM is blocked
          itArmed,      \* the thread has asked for a timer and not for its end
          itRaised,     \* SIGALRM was raised for it since
          itCalls

itVars == <<itPc, itNode, itTask, itBlocked, itArmed, itRaised, itCalls>>

ItIds == 1..ItMaxTasks
ItUnused == [pc |-> "unused", owner |-> 0, alarm |-> FALSE, sigs |-> {}, req |-> "idle"]
ItLive(i) == i # 0 /\ itTask[i].pc \notin {"unused", "gone"}

ItInit ==
  /\ itPc = [t \in ItThreads |-> "out"] /\ itNode = [t \in ItThreads |-> 0]
  /\ itTask = [i \in ItIds |-> ItUnused] /\ itBlocked = FALSE
  /\ itArmed = [t \in ItThreads |-> FALSE] /\ itRaised = [t \in ItThreads |-> FALSE]
  /\ itCalls = 0

ItSignal(i, s) == IF ItLive(i) THEN [itTask EXCEPT ![i].sigs = @ \cup {s}] ELSE itTask

ItCall(t) == itPc[t] = "out" /\ itCalls < ItMaxCalls /\ itCalls' = itCalls + 1

(* A value other than 0 for a thread that has a task.                         *)
SetAgain(t) ==
  /\ ItCall(t) /\ itNode[t] # 0
  /\ ItRearms \/ (ItLive(itNode[t]) /\ ~itRaised[t])
  /\ itTask' = ItSignal(itNode[t], "CTRL_D")
  /\ itArmed' = [itArmed EXCEPT ![t] = TRUE] /\ itRaised' = [itRaised EXCEPT ![t] = FALSE]
  /\ UNCHANGED <<itPc, itNode, itBlocked>>

(* ... and for one that has none: the task is created, then its node.         *)
SetFirst(t, alarm, i) ==
  /\ ItCall(t) /\ itNode[t] = 0
  /\ itTask[i].pc = "unused" /\ \A j \in ItIds : j < i => itTask[j].pc # "unused"
  /\ itTask' = [itTask EXCEPT ![i] = [ItUnused EXCEPT !.pc = "send", !.owner = t, !.alarm = alarm]]
  /\ itPc' = [itPc EXCEPT ![t] = "created"]
  /\ itArmed' = [itArmed EXCEPT ![t] = TRUE] /\ itRaised' = [itRaised EXCEPT ![t] = FALSE]
  /\ UNCHANGED <<itNode, itBlocked>>
Created(t) == CHOOSE i \in ItIds : /\ itTask[i].owner = t
                                   /\ \A j \in ItIds : itTask[j].owner = t => j <= i
AddNode(t, memory) ==
  /\ itPc[t] = "created"
  /\ itPc' = [itPc EXCEPT ![t] = "out"]
  /\ IF memory
     THEN itNode' = [itNode EXCEPT ![t] = Created(t)] /\ UNCHANGED <<itTask, itArmed>>
     ELSE /\ itTask' = ItSignal(Created(t), "CTRL_F")
          /\ itArmed' = [itArmed EXCEPT ![t] = FALSE] /\ UNCHANGED itNode
  /\ UNCHANGED <<itBlocked, itRaised, itCalls>>

(* A value of 0, and the end of the thread.  sigblock(SIGALRM) takes a mask   *)
(* and leaves SIGALRM as it is.                                               *)
KillOrNot(t, way) ==
  IF itNode[t] = 0
  THEN /\ itPc' = [itPc EXCEPT ![t] = IF way = "killend" THEN "ended" ELSE "out"]
       /\ itArmed' = [itArmed EXCEPT ![t] = FALSE]
  ELSE itPc' = [itPc EXCEPT ![t] = way] /\ UNCHANGED itArmed
SetZero(t) ==
  /\ ItCall(t)
  /\ KillOrNot(t, "kill")
  /\ UNCHANGED <<itNode, itTask, itBlocked, itRaised>>
ThreadEnds(t) ==
  /\ itPc[t] = "out"
  /\ KillOrNot(t, "killend")
  /\ UNCHANGED <<itNode, itTask, itBlocked, itRaised, itCalls>>

(* killitimer_by_thread: CTRL_F as long as the process is there.              *)
\* Mutant: CTRL_F is sent and the task not waited for.
MayForget_once(t) == ~ItLive(itNode[t]) \/ "CTRL_F" \in itTask[itNode[t]].sigs
MayForget(t) == ~ItLive(itNode[t])
KillSignal(t) ==
  /\ itPc[t] \in {"kill", "killend"} /\ ~MayForget(t)
  /\ itTask' = ItSignal(itNode[t], "CTRL_F")
  /\ UNCHANGED <<itPc, itNode, itBlocked, itArmed, itRaised, itCalls>>
KillDone(t) ==
  /\ itPc[t] \in {"kill", "killend"} /\ MayForget(t)
  /\ itNode' = [itNode EXCEPT ![t] = 0]
  /\ itArmed' = [itArmed EXCEPT ![t] = FALSE] /\ itRaised' = [itRaised EXCEPT ![t] = FALSE]
  /\ itPc' = [itPc EXCEPT ![t] = IF @ = "killend" THEN "ended" ELSE "out"]
  /\ UNCHANGED <<itTask, itBlocked, itCalls>>

SetMask ==
  /\ \E t \in ItThreads : itPc[t] = "out"
  /\ itCalls < ItMaxCalls /\ itCalls' = itCalls + 1
  /\ itBlocked' = ~itBlocked
  /\ UNCHANGED <<itPc, itNode, itTask, itArmed, itRaised>>

------------------------------------------------------------------------------
ItGoto(i, pc) == itTask' = [itTask EXCEPT ![i].pc = pc]
ItQuiet == UNCHANGED <<itPc, itNode, itBlocked, itArmed, itRaised, itCalls>>

ItGone(i) == itTask' = [itTask EXCEPT ![i] = [ItUnused EXCEPT !.pc = "gone", !.owner = itTask[i].owner]]

(* SetSignal(0, wait_mask) and SendIO, when the task begins and after every   *)
(* turn of its loop: a signal sent before is lost.                            *)
TaskSend(i) ==
  /\ itTask[i].pc = "send"
  /\ itTask' = [itTask EXCEPT ![i].pc = "wait", ![i].sigs = {}, ![i].req = "out"]
  /\ ItQuiet

TimerFires(i) ==
  /\ itTask[i].req = "out"
  /\ itTask' = [itTask EXCEPT ![i].req = "done", ![i].sigs = @ \cup {"timer"}]
  /\ ItQuiet

(* Wait takes all signals; CTRL_F is looked at first, then CTRL_D.            *)
TaskWake(i) ==
  /\ itTask[i].pc = "wait" /\ itTask[i].sigs # {}
  /\ LET s == itTask[i].sigs IN
       itTask' = [itTask EXCEPT ![i].sigs = {},
                    ![i].pc = CASE "CTRL_F" \in s -> "leave"
                                [] "CTRL_F" \notin s /\ "CTRL_D" \in s -> "reset"
                                [] OTHER -> "expired"]
  /\ ItQuiet

(* WaitIO returns when the request is done: only a request that is done is    *)
(* aborted before.                                                            *)
TaskLeave(i) ==
  /\ itTask[i].pc = "leave" /\ itTask[i].req = "done"
  /\ ItGone(i) /\ ItQuiet
\* Mutant: CTRL_D ends the task.
TaskReset_ends(i) ==
  /\ itTask[i].pc = "reset" /\ itTask[i].req = "done"
  /\ ItGone(i) /\ ItQuiet
TaskReset(i) ==
  /\ itTask[i].pc = "reset" /\ itTask[i].req = "done"
  /\ ItGoto(i, "send") /\ ItQuiet
TaskExpired(i) ==
  /\ itTask[i].pc = "expired" /\ itTask[i].req = "done"
  /\ IF itBlocked THEN ItGone(i) /\ UNCHANGED itRaised
     ELSE ItGoto(i, "raised") /\ itRaised' = [itRaised EXCEPT ![itTask[i].owner] = TRUE]
  /\ UNCHANGED <<itPc, itNode, itBlocked, itArmed, itCalls>>
TaskAgain(i) ==
  /\ itTask[i].pc = "raised"
  /\ IF itTask[i].alarm \/ itBlocked THEN ItGone(i) ELSE ItGoto(i, "send")
  /\ ItQuiet

ItTaskStep(i) == \/ TaskSend(i) \/ TaskWake(i) \/ TaskLeave(i)
                 \/ TaskReset(i) \/ TaskExpired(i) \/ TaskAgain(i) \/ TimerFires(i)
ItThreadStep(t) == \/ KillSignal(t) \/ KillDone(t)
                   \/ \E memory \in {TRUE, ~ItNoMemory} : AddNode(t, memory)

ItNext ==
  \/ \E t \in ItThreads : \/ SetAgain(t) \/ SetZero(t) \/ ThreadEnds(t)
                          \/ ItThreadStep(t)
                          \/ \E alarm \in BOOLEAN, i \in ItIds : SetFirst(t, alarm, i)
  \/ \E i \in ItIds : ItTaskStep(i)
  \/ SetMask

(* Tasks run, threads inside a call go on, and a request's time passes.  The  *)
(* loop of killitimer_by_thread comes round every Delay, the task of a timer  *)
(* that is longer than that is then found waiting: strong fairness.           *)
KillFinds(t) == KillSignal(t) /\ itTask[itNode[t]].pc = "wait"
ItFairness == /\ \A i \in ItIds : WF_itVars(ItTaskStep(i)) /\ WF_itVars(TimerFires(i))
              /\ \A t \in ItThreads : WF_itVars(ItThreadStep(t)) /\ SF_itVars(KillFinds(t))

ItSpec == ItInit /\ [][ItNext]_itVars /\ ItFairness

------------------------------------------------------------------------------
(* A timer task that is alive belongs to a thread that has asked for it and   *)
(* has it on its list: when setitimer with 0 or the end of a thread has       *)
(* returned, nothing raises SIGALRM for it any more (killitimer_by_thread).   *)
ItSound ==
  \A i \in ItIds : ItLive(i) =>
    LET t == itTask[i].owner IN
      itArmed[t] /\ (itNode[t] = i \/ (itPc[t] = "created" /\ i = Created(t)))

(* The call that stops a timer returns, although CTRL_F is lost whenever it   *)
(* comes before SetSignal clears it (setitimer.c, the loop around Signal).    *)
ItKillReturns == \A t \in ItThreads :
  itPc[t] \in {"kill", "killend"} ~> itPc[t] \notin {"kill", "killend"}

(* A timer that was set goes off, unless it is stopped or SIGALRM is blocked. *)
ItFires == \A t \in ItThreads :
  (itArmed[t] /\ ~itRaised[t] /\ ItLive(itNode[t])) ~> (itRaised[t] \/ ~itArmed[t] \/ itBlocked)

(* Timers go off and can be stopped.                                          *)
ItProgress == ItKillReturns /\ ItFires
==============================================================================
