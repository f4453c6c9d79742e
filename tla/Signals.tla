------------------------------- MODULE Signals -------------------------------
(* Signals inside one process: raise calls the handler as a function, so      *)
(* deliveries nest like calls.  A handler comes from signal (plain) or from   *)
(* sigaction, which installs sigaction_handler in its place.  sigwait and     *)
(* sigwaitinfo put their own handlers in and take them out again.  The        *)
(* bodies of the program's handlers are any sequence of the calls below.      *)
EXTENDS Integers, Sequences, Functions

CONSTANTS SgOrder,       \* the signals in the order of their numbers
          SgDepth,       \* bound on the frames on the stack
          SgCalls,       \* bound on the calls of the program
          SgSets,        \* the signal sets and
          SgFlags,       \* the sa_flags the program uses
          SgPlainWaits,  \* does it wait for a signal that has a plain handler
          SgJumpsFrom    \* the signals whose handlers it leaves by siglongjmp

SgSignals == Range(SgOrder)

ASSUME SgAssumption == /\ {SgDepth, SgCalls} \subseteq Nat /\ SgPlainWaits \in BOOLEAN
                       /\ SgOrder \in Seq(STRING) /\ "INT" \in SgSignals
                       /\ SgSets \subseteq SUBSET SgSignals
                       /\ SgFlags \subseteq SUBSET {"RESETHAND", "NODEFER"}
                       /\ SgJumpsFrom \subseteq SgSignals

VARIABLES sgBlocked,     \* __signals_blocked
          sgLocal,       \* local_signals_blocked
          sgRaised,      \* local_raised_signals_blocked
          sgTable,       \* __signal_handler_table
          sgAction,      \* action_array
          sgWas,         \* __was_sig
          sgStack,       \* the calls in progress, the innermost last
          sgBits,        \* the break bits of the task, CTRL_C and CTRL_E
          sgJmp,         \* the mask in the program's sigjmp_buf
          sgEnd,         \* how the process has ended
          sgCount

sgVars == <<sgBlocked, sgLocal, sgRaised, sgTable, sgAction, sgWas, sgStack,
            sgBits, sgJmp, sgEnd, sgCount>>

SgBreaks == SgSignals \cap {"INT", "TERM", "KILL"}
NoAction == [h |-> "NULL", flags |-> {}, mask |-> {}]

(* All handlers are SIG_DFL at first; the program may have installed its own  *)
(* with signal ("user") or sigaction ("sa").                                  *)
SgInit ==
  /\ sgBlocked = {} /\ sgLocal = {} /\ sgRaised = {} /\ sgBits = {}
  /\ sgTable \in [SgSignals -> {"DFL", "user", "sa"}]
  /\ sgAction = [s \in SgSignals |-> IF sgTable[s] = "sa" THEN [NoAction EXCEPT !.h = "user"]
                                     ELSE NoAction]
  /\ sgWas = "none" /\ sgStack = <<>> /\ sgJmp = {} /\ sgEnd = "no" /\ sgCount = 0

Frames(kinds) == {i \in DOMAIN sgStack : sgStack[i].kind \in kinds}
Handlers == Frames({"plain", "sa"})
Top(stack) == stack[Len(stack)]
Popped(stack) == SubSeq(stack, 1, Len(stack) - 1)
TopIs(kind) == sgEnd = "no" /\ sgStack # <<>> /\ Top(sgStack).kind = kind
SetTop(f) == Append(Popped(sgStack), f)

\* Where a call comes from: the mask, the break bits and the stack it sees.
Caller(mask, bits, stack) == [mask |-> mask, bits |-> bits, stack |-> stack]

------------------------------------------------------------------------------
(* raise(s), up to the first instruction of the program's handler.            *)

Held(s, mask) == s # "KILL" /\ s \in mask \cup sgLocal

RaiseHeld(s, c) ==
  /\ Held(s, c.mask) /\ sgRaised' = sgRaised \cup {s}
  /\ sgBlocked' = c.mask /\ sgBits' = c.bits /\ sgStack' = c.stack
  /\ UNCHANGED <<sgLocal, sgTable, sgAction, sgWas, sgEnd>>

RaiseIgnored(s, c) ==
  /\ ~Held(s, c.mask) /\ sgTable[s] = "IGN"
  /\ sgBits' = IF s \in SgBreaks THEN c.bits \cup {"CTRL_C"} ELSE c.bits
  /\ sgBlocked' = c.mask /\ sgStack' = c.stack
  /\ UNCHANGED <<sgLocal, sgRaised, sgTable, sgAction, sgWas, sgEnd>>

\* sigblock(SIGALRM) takes its argument for a mask: the number has these bits.
AlarmBits == SgSignals \cap {"HUP", "INT", "QUIT"}
RaiseDefault(s, c) ==
  /\ ~Held(s, c.mask) /\ sgTable[s] = "DFL"
  /\ sgEnd' = IF s \in SgBreaks THEN "break" ELSE "no"
  /\ sgBlocked' = IF s = "ALRM" THEN c.mask \cup AlarmBits ELSE c.mask
  /\ sgBits' = IF s = "ALRM" THEN c.bits \cup {"CTRL_E"} ELSE c.bits
  /\ sgStack' = c.stack
  /\ UNCHANGED <<sgLocal, sgRaised, sgTable, sgAction, sgWas>>

\* Mutant: the signal is not blocked while its handler runs.
Recursion_open(s) == {}
Recursion(s) == {s} \ SgBreaks

RaisePlain(s, c) ==
  /\ ~Held(s, c.mask) /\ sgTable[s] = "user"
  /\ sgLocal' = sgLocal \cup Recursion(s)
  /\ sgStack' = Append(c.stack, [kind |-> "plain", sig |-> s])
  /\ sgBlocked' = c.mask /\ sgBits' = c.bits
  /\ UNCHANGED <<sgRaised, sgTable, sgAction, sgWas, sgEnd>>

(* ... through sigaction_handler.  An action whose handler is                 *)
(* sigaction_handler itself ("sa", as sigaction saves the table's entry) is   *)
(* one-shot: it calls itself, finds NULL and aborts too.                      *)
RaiseAction(s, c) ==
  LET act == sgAction[s] IN
  /\ ~Held(s, c.mask) /\ sgTable[s] = "sa" /\ act.h = "user"
  /\ sgLocal' = sgLocal \cup Recursion(s)
  /\ sgAction' = [sgAction EXCEPT ![s].h = IF "RESETHAND" \in act.flags THEN "NULL" ELSE @]
  /\ sgBlocked' = c.mask \cup act.mask \cup (IF "NODEFER" \in act.flags THEN {} ELSE {s})
  /\ sgStack' = Append(c.stack, [kind |-> "sa", sig |-> s, old |-> c.mask])
  /\ sgBits' = c.bits
  /\ UNCHANGED <<sgRaised, sgTable, sgWas, sgEnd>>
RaiseAbort(s, c) ==
  /\ ~Held(s, c.mask) /\ sgTable[s] = "sa" /\ sgAction[s].h \in {"NULL", "sa"}
  /\ sgEnd' = "abort"
  /\ sgBlocked' = c.mask /\ sgBits' = c.bits /\ sgStack' = c.stack
  /\ UNCHANGED <<sgLocal, sgRaised, sgTable, sgAction, sgWas>>

\* ... to ignore_signal and back.
RaiseTaken(s, c) ==
  /\ ~Held(s, c.mask) /\ sgTable[s] = "sa" /\ sgAction[s].h = "ignore"
  /\ sgWas' = s
  /\ sgBits' = IF s \in SgBreaks THEN c.bits \ {"CTRL_C"} ELSE c.bits
  /\ sgBlocked' = c.mask /\ sgStack' = c.stack
  /\ UNCHANGED <<sgLocal, sgRaised, sgTable, sgAction, sgEnd>>

DoRaise(s, c) ==
  \/ RaiseHeld(s, c) \/ RaiseIgnored(s, c) \/ RaiseDefault(s, c) \/ RaisePlain(s, c)
  \/ RaiseAction(s, c) \/ RaiseAbort(s, c) \/ RaiseTaken(s, c)

(* The program's handler returns: into sigaction_handler, which puts the mask *)
(* back, and into raise.                                                      *)
HandlerReturns ==
  /\ TopIs("plain") \/ TopIs("sa")
  /\ LET f == Top(sgStack) IN
       /\ sgBlocked' = IF f.kind = "sa" THEN f.old ELSE sgBlocked
       /\ sgLocal' = sgLocal \ {f.sig}
       /\ sgBits' = IF f.sig \in SgBreaks THEN sgBits \ {"CTRL_C"} ELSE sgBits
  /\ sgStack' = Popped(sgStack)
  /\ UNCHANGED <<sgRaised, sgTable, sgAction, sgWas, sgJmp, sgEnd, sgCount>>

------------------------------------------------------------------------------
(* The calls of the program, from main or from one of its handlers.           *)

SgRuns == sgStack = <<>> \/ TopIs("plain") \/ TopIs("sa")
SgCall == sgEnd = "no" /\ SgRuns /\ sgCount < SgCalls /\ sgCount' = sgCount + 1
SgHere == Caller(sgBlocked, sgBits, sgStack)

Raise(s) == SgCall /\ Len(sgStack) < SgDepth /\ DoRaise(s, SgHere) /\ UNCHANGED sgJmp

Signal(s, h) ==
  /\ SgCall /\ sgTable' = [sgTable EXCEPT ![s] = h]
  /\ UNCHANGED <<sgBlocked, sgLocal, sgRaised, sgAction, sgWas, sgStack, sgBits, sgJmp, sgEnd>>

\* sigaction blocks all signals meanwhile, and nothing else runs here.
Installed(s, act) == IF act.h \in {"DFL", "IGN"} THEN act.h ELSE "sa"
Recorded(s, act) == IF act.h \in {"DFL", "IGN"} THEN [sgAction[s] EXCEPT !.h = "NULL"] ELSE act
SigAction(s, act) ==
  /\ SgCall /\ s \notin {"KILL", "STOP"}
  /\ sgTable' = [sgTable EXCEPT ![s] = Installed(s, act)]
  /\ sgAction' = [sgAction EXCEPT ![s] = Recorded(s, act)]
  /\ UNCHANGED <<sgBlocked, sgLocal, sgRaised, sgWas, sgStack, sgBits, sgJmp, sgEnd>>

SigProcMask(how, set) ==
  /\ SgCall
  /\ sgBlocked' = CASE how = "BLOCK" -> sgBlocked \cup set
                     [] how = "UNBLOCK" -> sgBlocked \ set
                     [] how = "SETMASK" -> set
  /\ UNCHANGED <<sgLocal, sgRaised, sgTable, sgAction, sgWas, sgStack, sgBits, sgJmp, sgEnd>>

(* A break from the console, or kill in another process; the functions of the *)
(* library look for it.                                                       *)
CtrlC ==
  /\ sgEnd = "no" /\ sgBits' = sgBits \cup {"CTRL_C"}
  /\ UNCHANGED <<sgBlocked, sgLocal, sgRaised, sgTable, sgAction, sgWas, sgStack, sgJmp, sgEnd, sgCount>>
CheckAbort ==
  /\ sgEnd = "no" /\ SgRuns /\ "CTRL_C" \in sgBits /\ Len(sgStack) < SgDepth
  /\ DoRaise("INT", [SgHere EXCEPT !.bits = @ \ {"CTRL_C"}])
  /\ UNCHANGED <<sgJmp, sgCount>>

(* pause, and sigsuspend and sigpause around it: the break bits are cleared,  *)
(* then waited for.  The wait also ends when a timer of the process goes off. *)
PauseFrame(suspend) == [kind |-> "pause", suspend |-> suspend, old |-> sgBlocked,
                        at |-> "clear", bits |-> {}]
SigSuspend(suspend, mask) ==
  /\ SgCall /\ Len(sgStack) < SgDepth
  /\ sgStack' = Append(sgStack, PauseFrame(suspend))
  /\ sgBlocked' = IF suspend THEN mask ELSE sgBlocked
  /\ UNCHANGED <<sgLocal, sgRaised, sgTable, sgAction, sgWas, sgBits, sgJmp, sgEnd>>

PauseClear ==
  /\ TopIs("pause") /\ Top(sgStack).at = "clear"
  /\ sgBits' = {} /\ sgStack' = SetTop([Top(sgStack) EXCEPT !.at = "wait"])
  /\ UNCHANGED <<sgBlocked, sgLocal, sgRaised, sgTable, sgAction, sgWas, sgJmp, sgEnd, sgCount>>
PauseWake(timer) ==
  /\ TopIs("pause") /\ Top(sgStack).at = "wait" /\ (timer \/ sgBits # {})
  /\ LET woken == SetTop([Top(sgStack) EXCEPT !.at = "woken", !.bits = sgBits \ {"CTRL_C"}])
     IN  IF "CTRL_C" \in sgBits
         THEN DoRaise("INT", Caller(sgBlocked, {}, woken))
         ELSE /\ sgStack' = woken /\ sgBits' = {}
              /\ UNCHANGED <<sgBlocked, sgLocal, sgRaised, sgTable, sgAction, sgWas, sgEnd>>
  /\ UNCHANGED <<sgJmp, sgCount>>
PauseReturns ==
  /\ TopIs("pause") /\ Top(sgStack).at = "woken"
  /\ sgBits' = sgBits \cup Top(sgStack).bits
  /\ sgBlocked' = IF Top(sgStack).suspend THEN Top(sgStack).old ELSE sgBlocked
  /\ sgStack' = Popped(sgStack)
  /\ UNCHANGED <<sgLocal, sgRaised, sgTable, sgAction, sgWas, sgJmp, sgEnd, sgCount>>

(* sigtimedwait without a time limit, which is sigwaitinfo and, repeated,     *)
(* sigwait: ignore_signal becomes the handler of the signals in the set; then *)
(* all blocked signals are raised if any was remembered, and otherwise the    *)
(* process sleeps; then the handlers are put back.  The answer SIGALRM is     *)
(* taken for a time limit.  The thread has no interval timer, handlers do not *)
(* wait, and SIGKILL, which sigaction refuses, is in no set.                  *)
Mixed(s) == sgTable[s] = "user" \/ (sgTable[s] # "sa" /\ sgAction[s].h # "NULL")
\* Mutant: the action is always made up from the entry of the table.
OldAction_table(s) == [h |-> sgTable[s], flags |-> {"RESETHAND", "NODEFER"}, mask |-> {}]
OldAction(s) == IF sgAction[s].h # "NULL" THEN sgAction[s]
                ELSE [h |-> sgTable[s], flags |-> {"RESETHAND", "NODEFER"}, mask |-> {}]

\* What a delivery of s runs: a history of the wait, for SgWaitsRestore.
Disposition(s) == IF sgTable[s] # "sa" THEN [h |-> sgTable[s]]
                  ELSE IF sgAction[s].h \in {"NULL", "sa"} THEN [h |-> "abort"]
                  ELSE sgAction[s]

SigTimedWait(set) ==
  LET wait(at) == [kind |-> "wait", set |-> set, at |-> at,
                   saved |-> [s \in set |-> OldAction(s)], was |-> [s \in set |-> Disposition(s)]]
  IN
  /\ SgCall /\ Frames({"wait"}) = {} /\ "KILL" \notin set
  /\ SgPlainWaits \/ \A s \in set : ~Mixed(s)
  /\ sgTable' = [s \in SgSignals |-> IF s \in set THEN "sa" ELSE sgTable[s]]
  /\ sgAction' = [s \in SgSignals |-> IF s \in set
                                      THEN [h |-> "ignore", flags |-> {}, mask |-> SgSignals]
                                      ELSE sgAction[s]]
  /\ sgWas' = "none"
  /\ IF sgRaised # {}
     THEN sgStack' = Append(sgStack, wait(1)) /\ UNCHANGED sgBlocked
     ELSE /\ sgStack' = sgStack \o <<wait(Len(SgOrder) + 1), PauseFrame(TRUE)>>
          /\ sgBlocked' = SgSignals \ set
  /\ UNCHANGED <<sgLocal, sgRaised, sgBits, sgJmp, sgEnd>>

WaitRaises ==
  /\ TopIs("wait") /\ Top(sgStack).at <= Len(SgOrder)
  /\ LET s == SgOrder[Top(sgStack).at]
         next == SetTop([Top(sgStack) EXCEPT !.at = @ + 1])
     IN  IF s \in sgBlocked
         THEN DoRaise(s, Caller(sgBlocked \ {s}, sgBits, next))
         ELSE /\ sgStack' = next
              /\ UNCHANGED <<sgBlocked, sgLocal, sgRaised, sgTable, sgAction, sgWas, sgBits, sgEnd>>
  /\ UNCHANGED <<sgJmp, sgCount>>

WaitReturns ==
  /\ TopIs("wait") /\ Top(sgStack).at > Len(SgOrder)
  /\ LET f == Top(sgStack) IN
       /\ sgTable' = [s \in SgSignals |-> IF s \in f.set THEN Installed(s, f.saved[s]) ELSE sgTable[s]]
       /\ sgAction' = [s \in SgSignals |-> IF s \in f.set THEN Recorded(s, f.saved[s]) ELSE sgAction[s]]
  /\ sgWas' = IF sgWas = "ALRM" THEN "none" ELSE sgWas
  /\ sgStack' = Popped(sgStack)
  /\ UNCHANGED <<sgBlocked, sgLocal, sgRaised, sgBits, sgJmp, sgEnd, sgCount>>

(* sigsetjmp in main, and a handler that leaves by siglongjmp: back in main,  *)
(* with the saved mask if it was to be saved.                                 *)
SigSetJmp ==
  /\ SgCall /\ sgStack = <<>> /\ sgJmp' = sgBlocked
  /\ UNCHANGED <<sgBlocked, sgLocal, sgRaised, sgTable, sgAction, sgWas, sgStack, sgBits, sgEnd>>
SigLongJmp(saved) ==
  /\ sgEnd = "no" /\ sgStack # <<>>
  /\ \A i \in DOMAIN sgStack : i \in Handlers /\ sgStack[i].sig \in SgJumpsFrom
  /\ sgStack' = <<>> /\ sgBlocked' = IF saved THEN sgJmp ELSE sgBlocked
  /\ UNCHANGED <<sgLocal, sgRaised, sgTable, sgAction, sgWas, sgBits, sgJmp, sgEnd, sgCount>>

------------------------------------------------------------------------------
SgActions == {[h |-> h, flags |-> {}, mask |-> {}] : h \in {"DFL", "IGN"}} \cup
             {[h |-> "user", flags |-> f, mask |-> m] : f \in SgFlags, m \in SgSets}

SgNext ==
  \/ \E s \in SgSignals : \/ Raise(s)
                          \/ \E h \in {"DFL", "IGN", "user"} : Signal(s, h)
                          \/ \E act \in SgActions : SigAction(s, act)
  \/ \E how \in {"BLOCK", "UNBLOCK", "SETMASK"}, set \in SgSets :
        SigProcMask(how, set)
  \/ \E suspend \in BOOLEAN, mask \in SgSets : SigSuspend(suspend, mask)
  \/ \E set \in SgSets : SigTimedWait(set)
  \/ HandlerReturns \/ CtrlC \/ CheckAbort
  \/ PauseClear \/ PauseReturns \/ \E timer \in BOOLEAN : PauseWake(timer)
  \/ WaitRaises \/ WaitReturns
  \/ SigSetJmp \/ \E saved \in BOOLEAN : SigLongJmp(saved)

SgSpec == SgInit /\ [][SgNext]_sgVars

------------------------------------------------------------------------------
(* No handler is entered again before it has returned, whatever the handlers  *)
(* do to the masks, except those of SIGINT, SIGTERM and SIGKILL; and a signal *)
(* is held back on its own account only as long as its handler runs (raise.c, *)
(* "Block delivery of this signal to prevent recursion").                     *)
SgNested ==
  /\ sgLocal = {sgStack[i].sig : i \in Handlers} \ SgBreaks
  /\ \A i, j \in Handlers : i # j /\ sgStack[i].sig = sgStack[j].sig
                               => sgStack[i].sig \in SgBreaks

(* sigwaitinfo and sigwait answer with a signal of their set, and leave its   *)
(* handlers as they found them, whatever handlers of the program have done    *)
(* meanwhile (sigtimedwait.c, "we must restore all handlers").                *)
SgWaitsRestore ==
  (TopIs("wait") /\ sgStack' = Popped(sgStack)) =>
    LET f == Top(sgStack) IN
      /\ sgWas' \in f.set \cup {"none"}
      /\ \A s \in f.set : Disposition(s)' = f.was[s]

(* Delivery nests and waits leave no trace: every step leads to a state as    *)
(* SgNested says, and a step that ends a wait is as SgWaitsRestore says.      *)
SgSound == [][SgNested' /\ SgWaitsRestore]_sgVars
==============================================================================
