------------------------------ MODULE ChildProcs -----------------------------
(* Child processes: the hooks that run in a spawned process when it begins    *)
(* and ends (misc/children.c), and waitpid.  The table of a parent's children *)
(* is the hash map node->spawnedProcesses, shared by the parent and the hooks *)
(* without a lock.                                                            *)
EXTENDS Integers, FiniteSets

CONSTANTS ChProcs,      \* process ids of the children
          ChGroup,      \* those of the group that the parent asks for
          ChCodes,      \* what they return
          ChOverlaps    \* does one change the table inside a call of another on it, or
                        \* while another holds a pointer into it

ASSUME ChAssumption ==
  /\ ChGroup \subseteq ChProcs /\ ChCodes \subseteq Int /\ ChOverlaps \in BOOLEAN

VARIABLES chState,      \* of a child
          chTable,      \* its entry's returnCode; ChNone without an entry
          chSig,        \* SIGF_CHILD is pending at the parent
          chWait,       \* the parent inside waitpid
          chHook,       \* the entry that the exit hook of a child has found
          chCode,       \* what the child returned
          chGot,        \* the status with which waitpid removed it
          chTold        \* the last status that a call with WNOHANG stored

chVars == <<chState, chTable, chSig, chWait, chHook, chCode, chGot, chTold>>

ChNone == -1
ChRunning == 268435456  \* 0x10000000 in returnCode until the exit hook has run
ChOut == [at |-> "out"]

ChInit ==
  /\ chState = [c \in ChProcs |-> "none"] /\ chTable = [c \in ChProcs |-> ChNone]
  /\ chSig = FALSE /\ chWait = ChOut /\ chHook = [c \in ChProcs |-> c]
  /\ chCode = [c \in ChProcs |-> ChNone] /\ chGot = [c \in ChProcs |-> ChNone]
  /\ chTold = [pid |-> 0, status |-> 0]

InTable == {c \in ChProcs : chTable[c] # ChNone}

(* spawnvpe: SystemTags returns while the child may not have begun.           *)
spawnvpe(c) ==
  /\ chWait.at = "out" /\ chState[c] = "none"
  /\ chState' = [chState EXCEPT ![c] = "spawned"]
  /\ UNCHANGED <<chTable, chSig, chWait, chHook, chCode, chGot, chTold>>

(* Who is inside hashmap_set, and who holds a pointer into the table.         *)
Entering == {c \in ChProcs : chState[c] = "entering"}
Storing == {c \in ChProcs : chState[c] = "storing"}
HoldsItem == chWait.at \in {"child", "checked", "scan"}
MayLook == Entering = {} \/ ChOverlaps

(* An insertion or a removal moves entries: a pointer that was taken before   *)
(* may then be at another one, and an iterator miss some or see them again.   *)
HooksMove(entries) ==
  chHook' \in {h \in [ChProcs -> ChProcs] :
                \A c \in ChProcs : h[c] = chHook[c] \/ (c \in Storing /\ h[c] \in entries)}
MovedWait(entries) ==
  CASE chWait.at \in {"child", "checked"} -> {[chWait EXCEPT !.item = e] : e \in entries}
    [] chWait.at = "scan" -> {[chWait EXCEPT !.left = l] : l \in SUBSET entries}
    [] OTHER -> {chWait}

insertSpawnedChildren(c) ==
  /\ chState[c] = "spawned"
  /\ ChOverlaps \/ (Entering = {} /\ Storing = {} /\ ~HoldsItem)
  /\ chState' = [chState EXCEPT ![c] = "entering"]
  /\ UNCHANGED <<chTable, chSig, chWait, chHook, chCode, chGot, chTold>>
(* Two children that take the same bucket leave one entry.                    *)
spawnedProcessEnter(c) ==
  /\ chState[c] = "entering"
  /\ chState' = [chState EXCEPT ![c] = "running"]
  /\ chTable' \in {[chTable EXCEPT ![c] = ChRunning]}
                    \cup (IF Entering = {c} THEN {} ELSE {chTable})
  /\ HooksMove(InTable \cup {c}) /\ chWait' \in MovedWait(InTable \cup {c})
  /\ chSig' = TRUE
  /\ UNCHANGED <<chCode, chGot, chTold>>

(* returnCode & 0x10000000, and ~0x10000000 & rc                              *)
Flagged(code) == (code \div ChRunning) % 2 = 1
Finished(rc) == IF Flagged(rc) THEN rc - ChRunning ELSE rc
(* The exit hook finds its entry, and stores the code through the pointer.    *)
spawnedProcessExit(c, rc) ==
  /\ chState[c] = "running" /\ MayLook
  /\ chState' = [chState EXCEPT ![c] = IF c \in InTable THEN "storing" ELSE "exiting"]
  /\ chHook' = [chHook EXCEPT ![c] = c]
  /\ chCode' = [chCode EXCEPT ![c] = rc]
  /\ UNCHANGED <<chTable, chSig, chWait, chGot, chTold>>
StoreCode(c) ==
  /\ chState[c] = "storing"
  /\ chState' = [chState EXCEPT ![c] = "exiting"]
  /\ chTable' = [e \in ChProcs |-> IF e = chHook[c] /\ e \in InTable THEN Finished(chCode[c])
                                                                   ELSE chTable[e]]
  /\ UNCHANGED <<chSig, chWait, chHook, chCode, chGot, chTold>>

(* The system removes the process and signals its parent.                     *)
ChildGone(c) ==
  /\ chState[c] = "exiting"
  /\ chState' = [chState EXCEPT ![c] = "gone"]
  /\ chSig' = TRUE
  /\ UNCHANGED <<chTable, chWait, chHook, chCode, chGot, chTold>>

(* CheckForChildExit answers TRUE for a child that has not gone.              *)
CheckForChildExit(c) == chState[c] # "gone"

Removed(c) ==
  /\ Storing = {} \/ ChOverlaps
  /\ HooksMove(InTable \ {c})
  /\ chTable' = [chTable EXCEPT ![c] = ChNone]
  /\ chGot' = [chGot EXCEPT ![c] = chTable[c]]

(* waitpid of one child.  Without an entry the answer is ECHILD.              *)
WaitPidBlocking(c) ==
  /\ chWait.at = "out" /\ MayLook /\ c \in InTable
  /\ chWait' = [at |-> "child", pid |-> c, item |-> c]
  /\ UNCHANGED <<chState, chTable, chSig, chHook, chCode, chGot, chTold>>
(* WaitForChildExit returns; whether it takes the signal bit is its affair.   *)
WaitedForChild ==
  /\ chWait.at = "child" /\ ~CheckForChildExit(chWait.pid)
  /\ chSig' \in {chSig, FALSE}
  /\ Removed(chWait.item)
  /\ chWait' = ChOut
  /\ UNCHANGED <<chState, chCode, chTold>>

WaitPidNoHang(c) ==
  /\ chWait.at = "out" /\ MayLook /\ c \in InTable
  /\ chWait' = [at |-> "checked", pid |-> c, item |-> c, found |-> CheckForChildExit(c)]
  /\ UNCHANGED <<chState, chTable, chSig, chHook, chCode, chGot, chTold>>
(* The status is read after the check; with the flag the child is still       *)
(* running, whatever the check said.                                          *)
\* Mutant: the flag is handed on.
NoHangStatus_flag(code) == code
NoHangStatus(code) == IF Flagged(code) THEN 0 ELSE code
NoHangAnswer ==
  /\ chWait.at = "checked"
  /\ LET code == chTable[chWait.item] IN
       /\ chTold' = [pid |-> chWait.pid, status |-> NoHangStatus(code)]
       /\ IF chWait.found \/ Flagged(code) THEN UNCHANGED <<chTable, chHook, chGot>>
          ELSE Removed(chWait.item)
  /\ chWait' = ChOut
  /\ UNCHANGED <<chState, chSig, chCode>>

(* waitpid(-1) and waitpid of a group.                                        *)
Scanned(group) == {c \in InTable : group => c \in ChGroup}
WaitAny(group, nohang) ==
  /\ chWait.at = "out" /\ MayLook /\ InTable # {}
  /\ chWait' = [at |-> IF nohang THEN "scan" ELSE "signal", nohang |-> nohang, group |-> group,
                left |-> Scanned(group), spent |-> FALSE]
  /\ UNCHANGED <<chState, chTable, chSig, chHook, chCode, chGot, chTold>>
(* Wait(SIGF_CHILD).  The iterator of a group scan is not set back, and a     *)
(* second scan finds nothing.                                                 *)
WaitedForSignal ==
  /\ chWait.at = "signal" /\ chSig /\ MayLook
  /\ chSig' = FALSE
  /\ chWait' = [chWait EXCEPT !.at = "scan",
                                !.left = IF chWait.spent THEN {} ELSE Scanned(chWait.group)]
  /\ UNCHANGED <<chState, chTable, chHook, chCode, chGot, chTold>>
(* One entry is looked at: a child that has gone is removed and ends the      *)
(* scan, and so does, with WNOHANG, any other.                                *)
ScanEntry(c) ==
  /\ chWait.at = "scan" /\ c \in chWait.left
  /\ IF ~CheckForChildExit(c) THEN Removed(c) /\ chWait' = ChOut
     ELSE /\ UNCHANGED <<chTable, chHook, chGot>>
          /\ chWait' = IF chWait.nohang THEN ChOut ELSE [chWait EXCEPT !.left = @ \ {c}]
  /\ UNCHANGED <<chState, chSig, chCode, chTold>>
ScanEnd ==
  /\ chWait.at = "scan" /\ chWait.left = {}
  /\ chWait' = IF chWait.group /\ ~chWait.nohang THEN [chWait EXCEPT !.at = "signal", !.spent = TRUE]
             ELSE ChOut
  /\ UNCHANGED <<chState, chTable, chSig, chHook, chCode, chGot, chTold>>

ChNext ==
  \/ \E c \in ChProcs : \/ spawnvpe(c) \/ insertSpawnedChildren(c) \/ spawnedProcessEnter(c)
                        \/ StoreCode(c) \/ ChildGone(c)
                        \/ \E rc \in ChCodes : spawnedProcessExit(c, rc)
                        \/ WaitPidBlocking(c) \/ WaitPidNoHang(c) \/ ScanEntry(c)
  \/ WaitedForChild \/ NoHangAnswer \/ WaitedForSignal \/ ScanEnd
  \/ \E group, nohang \in BOOLEAN : WaitAny(group, nohang)

ChSpec == ChInit /\ [][ChNext]_chVars

------------------------------------------------------------------------------
(* waitpid removes a child only after it has gone, and with what it returned; *)
(* a status stored under WNOHANG is 0 or what the child returned, never the   *)
(* flag of a child whose exit hook has not run; and until it is collected a   *)
(* child that has begun keeps its entry (waitpid, spawnedProcessExit).        *)
ChSound ==
  /\ \A c \in ChProcs : chGot[c] # ChNone => chState[c] = "gone" /\ chGot[c] = Finished(chCode[c])
  /\ chTold.status # 0 => chTold.status = Finished(chCode[chTold.pid])
  /\ \A c \in ChProcs : chState[c] \in {"running", "storing", "exiting", "gone"} =>
       (chTable[c] # ChNone <=> chGot[c] = ChNone)
==============================================================================
