------------------------------- MODULE SysVMsg -------------------------------
(* System V message queues: msgget, msgsnd, msgrcv and msgctl on one queue.   *)
(* Each passage between IPCLock and ReleaseSemaphore(qi->Lock) is one step,   *)
(* since every user of the queue takes both locks; the sleep and the wake-up  *)
(* are steps of their own, as in the semaphore sets.                          *)
EXTENDS Integers, Sequences, Functions

CONSTANTS MqProcs,      \* the processes that use the queue
          MqRequests,   \* the calls each of them makes
          MqLimits,     \* the values IPC_SET gives msg_qbytes
          MqDefault,    \* DEFAULT_QSIZE
          MqSizeMod,    \* size_t counts modulo this (2^32 on the target)
          MqMaxQueues,  \* bound on the number of queues msgget creates
          MqBusyCtl     \* whether IPC_SET happens while the queue is in use

(* What a call of msgsnd or msgrcv is given: POSIX asks for a positive type   *)
(* of what is sent, which the code does not check.                            *)
MqRequest ==
  [call : {"snd"}, type : Nat \ {0}, size : 0..(MqSizeMod - 1), nowait : BOOLEAN]
  \cup [call : {"rcv"}, type : Int, size : 0..(MqSizeMod - 1), nowait : BOOLEAN, noerror : BOOLEAN]

ASSUME MqAssumption == /\ MqMaxQueues \in Nat /\ MqSizeMod \in Nat \ {0}
                       /\ MqDefault \in 0..(MqSizeMod - 1) /\ MqLimits \subseteq 1..(MqSizeMod - 1)
                       /\ MqBusyCtl \in BOOLEAN
                       /\ \A p \in MqProcs : MqRequests[p] \subseteq MqRequest

VARIABLES mqMade, mqId,   \* as svMade and svId
          mqStuck,        \* the process that died with the map's lock, or "none"
          mqMsgs,         \* msg_first, msg_first->Next, ...
          msg_qnum, msg_cbytes, msg_qbytes,
          mqPc, mqReq,
          mqType          \* msgrcv's mtype, which the search may overwrite

mqVars  == <<mqMade, mqId, mqStuck, mqMsgs, msg_qnum, msg_cbytes, msg_qbytes, mqPc, mqReq, mqType>>
mqQueue == <<mqMade, mqId, mqStuck, mqMsgs, msg_qnum, msg_cbytes, msg_qbytes>>

NoReq == [call |-> "none"]

MqTypeOK ==
  /\ mqMade \in 0..MqMaxQueues /\ mqId \in BOOLEAN
  /\ mqStuck \in MqProcs \cup {"none"}
  /\ \A m \in Range(mqMsgs) : m.type \in Nat \ {0} /\ m.size \in 0..(MqSizeMod - 1)
  /\ {msg_cbytes, msg_qbytes} \subseteq 0..(MqSizeMod - 1) /\ msg_qnum \in Nat
  /\ mqPc \in [MqProcs -> {"out", "try", "suspending", "asleep"}]
  /\ \A p \in MqProcs : /\ mqReq[p] \in MqRequests[p] \cup {NoReq}
                        /\ (mqReq[p] = NoReq) <=> (mqPc[p] = "out")
  /\ mqType \in [MqProcs -> Int]

MqInit ==
  /\ mqMade = 0 /\ mqId = FALSE /\ mqStuck = "none"
  /\ mqMsgs = <<>> /\ msg_qnum = 0 /\ msg_cbytes = 0 /\ msg_qbytes = MqDefault
  /\ mqPc = [p \in MqProcs |-> "out"]
  /\ mqReq = [p \in MqProcs |-> NoReq]
  /\ mqType = [p \in MqProcs |-> 0]

(* IPCLock can be obtained.                                                   *)
MqFree == mqStuck = "none"

(* RList ("rcv") and WList ("snd").                                           *)
MqList(call) ==
  {p \in MqProcs : mqReq[p].call = call /\ mqPc[p] \in {"suspending", "asleep"}}

MqWake(woken, next) ==
  /\ \A q \in woken : mqPc[q] = "asleep"
  /\ mqPc' = [q \in MqProcs |-> IF q \in woken THEN "try" ELSE next[q]]

RecvWakes_full == IF msg_cbytes = msg_qbytes THEN MqList("snd") ELSE {}

(* The list that msgsnd wakes after it added a message, and the one msgrcv    *)
(* wakes after it took one.                                                   *)
SendWakes == MqList("rcv")
RecvWakes == MqList("snd")

MsgGet(p) ==
  /\ mqPc[p] = "out" /\ MqFree /\ ~mqId /\ mqMade < MqMaxQueues
  /\ mqMade' = mqMade + 1 /\ mqId' = TRUE
  /\ mqMsgs' = <<>> /\ msg_qnum' = 0 /\ msg_cbytes' = 0 /\ msg_qbytes' = MqDefault
  /\ UNCHANGED <<mqStuck, mqPc, mqReq, mqType>>

MsgCall(p, req) ==
  /\ mqPc[p] = "out" /\ mqMade > 0
  /\ mqPc' = [mqPc EXCEPT ![p] = "try"]
  /\ mqReq' = [mqReq EXCEPT ![p] = req]
  /\ mqType' = [mqType EXCEPT ![p] = IF req.call = "rcv" THEN req.type ELSE 0]
  /\ UNCHANGED mqQueue

MsgReturned(p) == [mqPc EXCEPT ![p] = "out"]

MsgReset(p) == /\ mqReq' = [mqReq EXCEPT ![p] = NoReq]
               /\ mqType' = [mqType EXCEPT ![p] = 0]

(* EIDRM: the queue is gone.                                                  *)
MsgGone(p) ==
  /\ mqPc[p] = "try" /\ MqFree /\ ~mqId
  /\ mqPc' = MsgReturned(p) /\ MsgReset(p)
  /\ UNCHANGED mqQueue

RoomLeft == (msg_qbytes - msg_cbytes) % MqSizeMod

AddedBytes(size) == (msg_cbytes + size) % MqSizeMod

(* msgsnd.  The room left is computed in size_t.                              *)
MsgSend(p) ==
  LET r     == mqReq[p]
      bleft == RoomLeft
  IN  /\ mqPc[p] = "try" /\ MqFree /\ mqId /\ r.call = "snd"
      /\ \/ /\ bleft >= r.size
            /\ mqMsgs' = Append(mqMsgs, [type |-> r.type, size |-> r.size])
            /\ msg_qnum' = msg_qnum + 1
            /\ msg_cbytes' = AddedBytes(r.size)
            /\ MqWake(SendWakes, MsgReturned(p)) /\ MsgReset(p)
         \/ /\ bleft < r.size /\ (r.size > msg_qbytes \/ r.nowait)
            /\ mqPc' = MsgReturned(p) /\ MsgReset(p)
            /\ UNCHANGED <<mqMsgs, msg_qnum, msg_cbytes>>
         \/ /\ bleft < r.size /\ r.size <= msg_qbytes /\ ~r.nowait
            /\ mqPc' = [mqPc EXCEPT ![p] = "suspending"]
            /\ UNCHANGED <<mqMsgs, msg_qnum, msg_cbytes, mqReq, mqType>>
      /\ UNCHANGED <<mqMade, mqId, mqStuck, msg_qbytes>>

(* A message of the given type satisfies mtype.                               *)
Matches(type, mtype) == \/ mtype = 0
                        \/ mtype > 0 /\ type = mtype
                        \/ mtype < 0 /\ type <= -mtype

FirstMatch_last(mtype) ==
  {i \in 1..Len(mqMsgs) : /\ Matches(mqMsgs[i].type, mtype)
                          /\ \A j \in (i + 1)..Len(mqMsgs) : ~Matches(mqMsgs[j].type, mtype)}

(* The position of the message that the search of msgrcv stops at, or none.   *)
FirstMatch(mtype) ==
  {i \in 1..Len(mqMsgs) : /\ Matches(mqMsgs[i].type, mtype)
                          /\ \A j \in 1..(i - 1) : ~Matches(mqMsgs[j].type, mtype)}

(* The list without its i-th message.                                         *)
Unchained(i) == SubSeq(mqMsgs, 1, i - 1) \o SubSeq(mqMsgs, i + 1, Len(mqMsgs))

(* msgrcv.  A negative mtype is negated in place by the search; a message     *)
(* that is too long for the buffer has left the queue by then.                *)
MsgReceive(p) ==
  LET r   == mqReq[p]
      hit == FirstMatch(mqType[p])
      i   == CHOOSE k \in hit : TRUE
      m   == mqMsgs[i]
  IN  /\ mqPc[p] = "try" /\ MqFree /\ mqId /\ r.call = "rcv"
      /\ IF hit # {}
           THEN /\ mqMsgs' = Unchained(i)
                /\ MsgReset(p)
                /\ IF m.size <= r.size \/ r.noerror
                     THEN /\ msg_cbytes' = (msg_cbytes - m.size) % MqSizeMod
                          /\ msg_qnum' = msg_qnum - 1
                          /\ MqWake(RecvWakes, MsgReturned(p))
                     ELSE mqPc' = MsgReturned(p) /\ UNCHANGED <<msg_cbytes, msg_qnum>>
           ELSE /\ IF r.nowait
                     THEN mqPc' = MsgReturned(p) /\ MsgReset(p)
                     ELSE /\ mqPc' = [mqPc EXCEPT ![p] = "suspending"]
                          /\ mqType' = [mqType EXCEPT ![p] = IF @ < 0 THEN -@ ELSE @]
                          /\ mqReq' = mqReq
                /\ UNCHANGED <<mqMsgs, msg_cbytes, msg_qnum>>
      /\ UNCHANGED <<mqMade, mqId, mqStuck, msg_qbytes>>

MsgSuspend(p) ==
  /\ mqPc[p] = "suspending"
  /\ mqPc' = [mqPc EXCEPT ![p] = "asleep"]
  /\ UNCHANGED <<mqQueue, mqReq, mqType>>

(* msgctl(IPC_SET), without a wake-up.                                        *)
MsgSet(p, limit) ==
  /\ mqPc[p] = "out" /\ MqFree /\ mqId
  /\ MqBusyCtl \/ (mqMsgs = <<>> /\ \A q \in MqProcs : mqPc[q] = "out")
  /\ msg_qbytes' = limit
  /\ UNCHANGED <<mqMade, mqId, mqStuck, mqMsgs, msg_qnum, msg_cbytes, mqPc, mqReq, mqType>>

(* msgctl(IPC_RMID): wakes both lists, destroys the queue and clears qi; the  *)
(* release of qi->Lock then goes through a null pointer.  Whether the caller  *)
(* survives that and unlocks the map is left open.                            *)
MsgRemove(p) ==
  /\ mqPc[p] = "out" /\ MqFree /\ mqId
  /\ MqWake(MqList("snd") \cup MqList("rcv"), mqPc)
  /\ mqId' = FALSE
  /\ mqMsgs' = <<>> /\ msg_qnum' = 0 /\ msg_cbytes' = 0
  /\ mqStuck' \in {"none", p}
  /\ UNCHANGED <<mqMade, msg_qbytes, mqReq, mqType>>

MsgStep(p) == MsgGone(p) \/ MsgSend(p) \/ MsgReceive(p) \/ MsgSuspend(p)

MqNext == \E p \in MqProcs :
  \/ MsgGet(p) \/ MsgStep(p) \/ MsgRemove(p)
  \/ \E req \in MqRequests[p] : MsgCall(p, req)
  \/ \E limit \in MqLimits : MsgSet(p, limit)

MqFairness == \A p \in MqProcs : SF_mqVars(MsgStep(p))

MqSpec == MqInit /\ [][MqNext]_mqVars /\ MqFairness

(* The bytes in the messages of the queue.                                    *)
BytesHeld == SumFunction([i \in DOMAIN mqMsgs |-> mqMsgs[i].size])

(* What msgsnd and msgrcv count is what the queue holds.                      *)
MqCountsExact ==
  /\ msg_qnum = Len(mqMsgs)
  /\ msg_cbytes = BytesHeld

(* The queue never holds more bytes than msg_qbytes allows.                   *)
MqWithinLimit == BytesHeld <= msg_qbytes

(* A sleeping receiver asked for a type of which there is no message, and a   *)
(* sleeping sender's message does not fit: no wake-up is missed.              *)
MqSleepersBlocked ==
  \A p \in MqProcs : mqPc[p] \in {"suspending", "asleep"} /\ mqId =>
    IF mqReq[p].call = "rcv"
      THEN \A m \in Range(mqMsgs) : ~Matches(m.type, mqReq[p].type)
      ELSE msg_qbytes - msg_cbytes < mqReq[p].size

(* Messages of one type leave the queue in the order they came: a step only   *)
(* appends one message, or takes one that is the first of its type.           *)
MqFifo ==
  [][mqId' /\ mqMsgs' # mqMsgs /\ mqMsgs # <<>> =>
       \/ Len(mqMsgs') = Len(mqMsgs) + 1 /\ SubSeq(mqMsgs', 1, Len(mqMsgs)) = mqMsgs
       \/ \E i \in 1..Len(mqMsgs) :
            /\ mqMsgs' = Unchained(i)
            /\ \A j \in 1..(i - 1) : mqMsgs[j].type # mqMsgs[i].type]_mqVars

(* IPC_RMID lets the tasks waiting on the queue fail, as its comment says.    *)
MqRemovedReturns ==
  \A p \in MqProcs : (mqMade > 0 /\ ~mqId /\ mqPc[p] # "out") ~> (mqPc[p] = "out" \/ mqId)

(* The queue is consistent with what processes do in msgsnd and msgrcv: its   *)
(* counts, its limit and its sleepers.                                        *)
MqSound == MqTypeOK /\ MqCountsExact /\ MqWithinLimit /\ MqSleepersBlocked
===============================================================================
