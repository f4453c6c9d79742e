------------------------------ MODULE TlsKeys ------------------------------
(***************************************************************************)
(* Thread-specific data: pthread_key_create, pthread_key_delete,           *)
(* pthread_setspecific, and the destructor loop at the end of a thread     *)
(* (StarterFunc, library/pthread/pthread_create.c), which runs with        *)
(* tls_sem held.  A value is the number of the key creation it was set for.*)
(***************************************************************************)
EXTENDS Naturals, FiniteSets

CONSTANTS
    TkThreads, TkNone,
    PTHREAD_KEYS_MAX,
    PTHREAD_DESTRUCTOR_ITERATIONS,
    TkCreations,    \* bound: calls of pthread_key_create
    TkStaleDelete   \* clients delete keys whose values they did not reset

ASSUME TkAssumption ==
    /\ TkNone \notin TkThreads
    /\ PTHREAD_KEYS_MAX \in Nat \ {0} /\ PTHREAD_DESTRUCTOR_ITERATIONS \in Nat \ {0}
    /\ TkCreations \in Nat /\ TkStaleDelete \in BOOLEAN

VARIABLES
    tlskeys,    \* for each key [used, destructor, made]; made is its creation
    tkMade,     \* creations so far
    tlsvalues,  \* inf->tlsvalues; 0 is NULL
    tls_sem,    \* its owner
    tkPc,       \* "run", "scan" the keys, in a "dtor", "ended"
    tkScan      \* the loop variables of the destructor loop

tkVars == <<tlskeys, tkMade, tlsvalues, tls_sem, tkPc, tkScan>>

Keys == 1 .. PTHREAD_KEYS_MAX
Start(j) == [j |-> j, i |-> 1, keyFound |-> FALSE]

TkInit ==
    /\ tlskeys = [k \in Keys |-> [used |-> FALSE, destructor |-> FALSE, made |-> 0]]
    /\ tkMade = 0
    /\ tlsvalues = [t \in TkThreads |-> [k \in Keys |-> 0]]
    /\ tls_sem = TkNone
    /\ tkPc = [t \in TkThreads |-> "run"]
    /\ tkScan = [t \in TkThreads |-> Start(0)]

\* Client code, in a thread or in a destructor; tls_sem is recursive.
Runs(t) == tkPc[t] \in {"run", "dtor"}
MayLock(t) == Runs(t) /\ tls_sem \in {TkNone, t}

\* Mutant: the search stops one key late.
FreeKeys_late == {k \in Keys : k = PTHREAD_KEYS_MAX \/ ~tlskeys[k].used}

FreeKeys == {k \in Keys : ~tlskeys[k].used}

\* The first free key; EAGAIN without one.
KeyCreate(t, destructor) ==
    \E k \in FreeKeys :
      /\ \A l \in FreeKeys : k <= l
      /\ MayLock(t) /\ tkMade < TkCreations
      /\ tkMade' = tkMade + 1
      /\ tlskeys' = [tlskeys EXCEPT ![k] =
                       [used |-> TRUE, destructor |-> destructor, made |-> tkMade + 1]]
      /\ UNCHANGED <<tlsvalues, tls_sem, tkPc, tkScan>>

\* No value is touched: the client sees to them first.
KeyDelete(t, k) ==
    /\ MayLock(t) /\ tlskeys[k].used
    /\ TkStaleDelete \/ \A u \in TkThreads : tlsvalues[u][k] = 0
    /\ tlskeys' = [tlskeys EXCEPT ![k].used = FALSE, ![k].destructor = FALSE]
    /\ UNCHANGED <<tkMade, tlsvalues, tls_sem, tkPc, tkScan>>

\* The slot of the running thread, without tls_sem; NULL or a value.
SetSpecific(t, k, null) ==
    /\ Runs(t) /\ tlskeys[k].used
    /\ tlsvalues' = [tlsvalues EXCEPT ![t][k] = IF null THEN 0 ELSE tlskeys[k].made]
    /\ UNCHANGED <<tlskeys, tkMade, tls_sem, tkPc, tkScan>>

-----------------------------------------------------------------------------
(* The end of a thread *)

ExitLock(t) ==
    /\ tkPc[t] = "run" /\ tls_sem = TkNone
    /\ tls_sem' = t
    /\ tkPc' = [tkPc EXCEPT ![t] = "scan"]
    /\ UNCHANGED <<tlskeys, tkMade, tlsvalues, tkScan>>

Destroys(t, k) == tlskeys[k].used /\ tlskeys[k].destructor /\ tlsvalues[t][k] # 0

\* The value is reset before the destructor runs.
ExitKey(t) ==
    /\ tkPc[t] = "scan" /\ tkScan[t].i \in Keys
    /\ LET k == tkScan[t].i
       IN  IF Destroys(t, k)
           THEN /\ tlsvalues' = [tlsvalues EXCEPT ![t][k] = 0]
                /\ tkPc' = [tkPc EXCEPT ![t] = "dtor"]
                /\ tkScan' = [tkScan EXCEPT ![t].keyFound = TRUE]
           ELSE /\ tkScan' = [tkScan EXCEPT ![t].i = k + 1]
                /\ UNCHANGED <<tlsvalues, tkPc>>
    /\ UNCHANGED <<tlskeys, tkMade, tls_sem>>

NextKey(i) == i + 1

DestructorReturns(t) ==
    /\ tkPc[t] = "dtor"
    /\ tkPc' = [tkPc EXCEPT ![t] = "scan"]
    /\ tkScan' = [tkScan EXCEPT ![t].i = NextKey(@)]
    /\ UNCHANGED <<tlskeys, tkMade, tlsvalues, tls_sem>>

\* Mutant: one pass over the keys.
ScansAgain_once(s) == FALSE

ScansAgain(s) == s.keyFound /\ s.j + 1 < PTHREAD_DESTRUCTOR_ITERATIONS

ExitScanned(t) ==
    /\ tkPc[t] = "scan" /\ tkScan[t].i \notin Keys
    /\ IF ScansAgain(tkScan[t])
       THEN /\ tkScan' = [tkScan EXCEPT ![t] = Start(tkScan[t].j + 1)]
            /\ UNCHANGED <<tls_sem, tkPc>>
       ELSE /\ tls_sem' = TkNone
            /\ tkPc' = [tkPc EXCEPT ![t] = "ended"]
            /\ UNCHANGED tkScan
    /\ UNCHANGED <<tlskeys, tkMade, tlsvalues>>

-----------------------------------------------------------------------------
TkExit(t) == ExitKey(t) \/ DestructorReturns(t) \/ ExitScanned(t)

TkNext ==
    \E t \in TkThreads :
      \/ ExitLock(t) \/ TkExit(t)
      \/ \E d \in BOOLEAN : KeyCreate(t, d)
      \/ \E k \in Keys : KeyDelete(t, k) \/ \E null \in BOOLEAN : SetSpecific(t, k, null)

\* The loop runs on, and destructors return.
TkFairness == \A t \in TkThreads : WF_tkVars(TkExit(t))

TkSpec == TkInit /\ [][TkNext]_tkVars /\ TkFairness

-----------------------------------------------------------------------------
(* Properties *)

\* A key's value is NULL or was set for that key, not for one that had the same
\* place before: a destructor never gets another key's value.
KeyOwnValues ==
    \A t \in TkThreads, k \in Keys :
      tlskeys[k].used => tlsvalues[t][k] \in {0, tlskeys[k].made}

\* A thread that ended without using up the iterations leaves no value that a
\* destructor should have seen ("destroy all non-NULL TLS key values",
\* pthread_create.c), even if destructors set values of other keys again.
KeysDestroyed ==
    [][\A t \in TkThreads :
         tkPc[t] = "scan" /\ tkPc'[t] = "ended" =>
           \/ tkScan[t].j = PTHREAD_DESTRUCTOR_ITERATIONS - 1
           \/ \A k \in Keys : ~Destroys(t, k)]_tkVars

\* The end of a thread gives tls_sem back, although destructors keep setting
\* values.
KeyExitEnds == \A t \in TkThreads : tkPc[t] = "scan" ~> tls_sem # t
=============================================================================
