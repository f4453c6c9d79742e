------------------------------- MODULE MCFiles --------------------------------
(* Files: descriptors, record locks, streams and asynchronous requests.  A    *)
(* behaviour exercises the one it starts with.                                *)
EXTENDS AioQueue, FdTable, RecordLock, MCStream

CONSTANTS r1, r2, r3, r4, w1, w2, w3, c1, c2

VARIABLE layer

fileVars == <<layer, aioVars, fdVars, rlVars, stVars>>

(* Two requests on one descriptor, with different priorities; a client that   *)
(* suspends and one that calls lio_listio.                                    *)
MCFd == [r \in AioReqs |-> IF r \in {r1, r2, r4} THEN 3 ELSE 5]
MCPrio == [r \in AioReqs |-> IF r = r2 THEN 1 ELSE 0]
MCWants == [c \in AioClients |->
  IF c = c1 THEN {[kind |-> "suspend", list |-> <<r1, r3>>]}
            ELSE {[kind |-> "wait", list |-> <<r1, r2>>], [kind |-> "nowait", list |-> <<r3, r4>>]}]

(* The whole file, the bytes before an offset, and two overlapping ranges.    *)
MCReqs == {[fd |-> 1, start |-> 0, len |-> 0, shared |-> FALSE],
           [fd |-> 2, start |-> 2, len |-> -1, shared |-> FALSE],
           [fd |-> 1, start |-> 1, len |-> 1, shared |-> TRUE],
           [fd |-> 2, start |-> 1, len |-> 2, shared |-> TRUE]}

Rest(l) ==
  /\ UNCHANGED layer
  /\ l # "aio" => UNCHANGED aioVars
  /\ l # "fd" => UNCHANGED fdVars
  /\ l # "lock" => UNCHANGED rlVars
  /\ l # "stream" => UNCHANGED stVars

FilesInit ==
  /\ layer \in {"aio", "fd", "lock", "stream"}
  /\ AioInit /\ FdInit /\ RlInit
  /\ StInit /\ (layer # "stream" => stDisk = <<>> /\ st.mode = "full" /\ st.unix)
FilesNext ==
  \/ layer = "aio" /\ AioNext /\ Rest("aio")
  \/ layer = "fd" /\ FdNext /\ Rest("fd")
  \/ layer = "lock" /\ RlNext /\ Rest("lock")
  \/ layer = "stream" /\ StNext /\ Rest("stream")

(* The fairness of AioQueue and RecordLock.                                   *)
FilesFairness ==
  /\ \A w \in AioWorkers :
       WF_fileVars(WorkerRuns(w) /\ Rest("aio"))
  /\ \A c \in AioClients : WF_fileVars(LioReturn(c) /\ Rest("aio"))
  /\ \A p \in RlProcs : WF_fileVars(Poll(p) /\ Rest("lock"))

FilesSpec == FilesInit /\ [][FilesNext]_fileVars /\ FilesFairness
===============================================================================
