------------------------------ MODULE MCIpcHeap ------------------------------
(* The three System V facilities, the heap, and the containers that hold the  *)
(* library's tables; a behaviour exercises the one it starts in.              *)
EXTENDS SysVSem, SysVMsg, SysVShm, WmemBlock, WmemTree, HashMap

CONSTANTS p1, p2, p3, Facilities

VARIABLE facility

allVars == <<facility, svVars, mqVars, shmVars, wbVars, wtVars, hmVars>>

Op(n, t) == [num |-> n, op |-> t, nowait |-> FALSE, undo |-> FALSE]
Undo(n, t) == [num |-> n, op |-> t, nowait |-> FALSE, undo |-> TRUE]
Try(n, t) == [num |-> n, op |-> t, nowait |-> TRUE, undo |-> FALSE]
MCVectors == [p \in SvProcs |->
  CASE p = p1 -> {<<Undo(0, -1)>>, <<Undo(0, 1)>>}
    [] p = p2 -> {<<Op(1, -1), Op(0, 0)>>, <<Undo(0, -1)>>}
    [] OTHER  -> {<<Try(0, 0), Op(1, 1)>>, <<Undo(0, -1), Op(1, -1)>>}]

Snd(type, size) == [call |-> "snd", type |-> type, size |-> size, nowait |-> FALSE]
Rcv(type) == [call |-> "rcv", type |-> type, size |-> 2, nowait |-> FALSE, noerror |-> FALSE]
TryRcv(size) == [call |-> "rcv", type |-> 0, size |-> size, nowait |-> TRUE, noerror |-> TRUE]
MCRequests == [p \in MqProcs |->
  CASE p = p1 -> {Snd(1, 1), Snd(2, 2), Rcv(0)}
    [] p = p2 -> {Snd(2, 1), Rcv(-1), TryRcv(1)}
    [] OTHER  -> {Snd(1, 2), Rcv(2), [Snd(2, 4) EXCEPT !.nowait = TRUE]}]

(* Keys that share a bucket, that wrap around, and that part when the map has *)
(* grown.                                                                     *)
MCHash(key) == CASE key \in {1, 2} -> 3 [] key = 3 -> 7 [] key = 4 -> 0 [] key = 5 -> 8 [] OTHER -> 15

Init == /\ facility \in Facilities /\ SvInit /\ MqInit /\ ShmInit /\ WbInit /\ HmInit
        /\ WtInit /\ (facility # "tree" => wtKind = "int32")

Rest(f) ==
  /\ UNCHANGED facility
  /\ f # "sem" => UNCHANGED svVars
  /\ f # "msg" => UNCHANGED mqVars
  /\ f # "shm" => UNCHANGED shmVars
  /\ f # "heap" => UNCHANGED wbVars
  /\ f # "tree" => UNCHANGED wtVars
  /\ f # "map" => UNCHANGED hmVars

Next == \/ facility = "sem" /\ SvNext /\ Rest("sem")
        \/ facility = "msg" /\ MqNext /\ Rest("msg")
        \/ facility = "shm" /\ ShmNext /\ Rest("shm")
        \/ facility = "heap" /\ WbNext /\ Rest("heap")
        \/ facility = "tree" /\ WtNext /\ Rest("tree")
        \/ facility = "map" /\ HmNext /\ Rest("map")

Fairness == \A p \in {p1, p2, p3} :
  SF_allVars(\/ SemopStep(p) /\ Rest("sem")
             \/ MsgStep(p) /\ Rest("msg"))

Spec == Init /\ [][Next]_allVars /\ Fairness

(* The red-black tree keeps its balance, order and search results            *)
(* (wmem_tree.c), and the hash map its displacements and contents (map.c).   *)
TablesSound == WtSound /\ HmSound
===============================================================================
