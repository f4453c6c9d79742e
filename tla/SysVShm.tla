------------------------------- MODULE SysVShm -------------------------------
(* The key map of sysv_idkey.c and the shared memory segments kept in one:    *)
(* shmget, shmat, shmdt and shmctl.  Each call runs under the map's lock.  A  *)
(* segment and its record are in the heap of the process that made them, and  *)
(* that heap goes with the process; shmdt and shmctl hand them to FreeVec,    *)
(* which did not allocate them: only that they leave the map is modelled.     *)
EXTENDS Integers, Sequences, FiniteSets, FiniteSetsExt, Functions

CONSTANTS ShmProcs, ShmKeys, ShmSizes,
          ShmMax,       \* shmmax
          ShmMaxSegs,   \* bound on the number of segments created
          ShmMaxAttach, \* bound on the attachments of one process
          ShmExits      \* processes end as "creator" of a segment that is still
                        \* in the map, or with segments "attached"

IpcPrivate == 0   \* IPC_PRIVATE

ASSUME ShmAssumption == /\ ShmKeys \subseteq Nat /\ ShmSizes \subseteq Nat
                        /\ {ShmMax, ShmMaxSegs, ShmMaxAttach} \subseteq Nat
                        /\ IsFiniteSet(ShmProcs)
                        /\ ShmExits \subseteq {"creator", "attached"}

VARIABLES shmObjv,   \* keymap.objv[0 .. nobj - 1], ids counted from 1
          shmUsed,   \* keymap.nused
          shmTot,    \* totshm
          shmMade,   \* segments created so far: each has an address of its own
          shmHeld,   \* how often each process has each address attached
          shmOwner,  \* the process in whose heap each address is
          shmGone    \* the processes that have ended

shmHeaps == <<shmOwner, shmGone>>
shmVars == <<shmObjv, shmUsed, shmTot, shmMade, shmHeld, shmHeaps>>

NoObj == [amp |-> 0]
Live == {i \in 1..Len(shmObjv) : shmObjv[i] # NoObj}

ShmTypeOK ==
  /\ \A i \in Live : shmObjv[i] \in
       [amp : 1..ShmMaxSegs, key : ShmKeys, segsz : ShmSizes, nattach : Nat,
        deleteMe : BOOLEAN, clear : BOOLEAN, data : {"junk", "zero", "user"}]
  /\ shmUsed \in Int /\ shmTot \in Int /\ shmMade \in 0..ShmMaxSegs
  /\ shmHeld \in [ShmProcs -> [1..ShmMaxSegs -> 0..ShmMaxAttach]]
  /\ shmOwner \in Seq(ShmProcs) /\ shmGone \subseteq ShmProcs

NoneHeld == [a \in 1..ShmMaxSegs |-> 0]

ShmInit ==
  /\ shmObjv = <<>> /\ shmUsed = 0 /\ shmTot = 0 /\ shmMade = 0
  /\ shmHeld = [p \in ShmProcs |-> NoneHeld]
  /\ shmOwner = <<>> /\ shmGone = {}

(* GetIPCKeyId: the slot of an object with this key, and the slot where a new *)
(* one goes.  A private key finds nothing and always takes a slot at the end. *)
KeySlots(key) == {i \in Live : key # IpcPrivate /\ shmObjv[i].key = key}

NewSlot(key) ==
  LET free == {i \in 1..Len(shmObjv) : key # IpcPrivate /\ shmObjv[i] = NoObj}
  IN  IF free = {} THEN Len(shmObjv) + 1 ELSE Min(free)
PutObj(i, o) == IF i > Len(shmObjv) THEN Append(shmObjv, o) ELSE [shmObjv EXCEPT ![i] = o]

WithinQuota(size) == size + shmTot < ShmMax

(* shmget(IPC_CREAT) that creates a segment; one that finds its key, or fails *)
(* with ENOMEM or EEXIST, changes nothing.                                    *)
ShmGet(p, key, size) ==
  /\ WithinQuota(size)
  /\ KeySlots(key) = {}
  /\ shmMade < ShmMaxSegs
  /\ shmMade' = shmMade + 1
  /\ shmObjv' = PutObj(NewSlot(key),
       [amp |-> shmMade + 1, key |-> key, segsz |-> size, nattach |-> 0,
        deleteMe |-> FALSE, clear |-> TRUE, data |-> "junk"])
  /\ shmUsed' = shmUsed + 1
  /\ shmTot' = shmTot + size
  /\ shmOwner' = Append(shmOwner, p)
  /\ UNCHANGED <<shmHeld, shmGone>>

(* A segment as shmat leaves it: cleared on its first attachment.             *)
Attached(o) == [o EXCEPT !.nattach = @ + 1, !.clear = FALSE,
                         !.data = IF o.clear THEN "zero" ELSE @]
ShmAt(p, id) ==
  /\ id \in Live
  /\ shmHeld[p][shmObjv[id].amp] < ShmMaxAttach
  /\ shmObjv' = [shmObjv EXCEPT ![id] = Attached(@)]
  /\ shmHeld' = [shmHeld EXCEPT ![p][shmObjv[id].amp] = @ + 1]
  /\ UNCHANGED <<shmUsed, shmTot, shmMade, shmHeaps>>

(* A process writes to a segment it has attached.                             *)
ShmWrite(p, id) ==
  /\ id \in Live /\ shmHeld[p][shmObjv[id].amp] > 0
  /\ shmObjv' = [shmObjv EXCEPT ![id].data = "user"]
  /\ UNCHANGED <<shmUsed, shmTot, shmMade, shmHeld, shmHeaps>>

GoesOnDetach_marked(o) == o.deleteMe

(* The segment goes when its last user detaches after IPC_RMID.               *)
GoesOnDetach(o) == o.nattach = 1 /\ o.deleteMe
(* shmdt: GetIPCByP finds the segment by its address.                         *)
ShmDt(p, amp) ==
  /\ shmHeld[p][amp] > 0
  /\ shmHeld' = [shmHeld EXCEPT ![p][amp] = @ - 1]
  /\ \E id \in Live :
       /\ shmObjv[id].amp = amp
       /\ IF GoesOnDetach(shmObjv[id])
            THEN /\ shmObjv' = [shmObjv EXCEPT ![id] = NoObj]
                 /\ shmUsed' = shmUsed - 1
                 /\ shmTot' = shmTot - shmObjv[id].segsz
            ELSE /\ shmObjv' = [shmObjv EXCEPT ![id].nattach = @ - 1]
                 /\ UNCHANGED <<shmUsed, shmTot>>
  /\ UNCHANGED <<shmMade, shmHeaps>>

(* shmctl(IPC_RMID): marks the segment and removes it at once when nobody has *)
(* it attached, in which case totshm keeps counting it.                       *)
ShmRemove(id) ==
  /\ id \in Live
  /\ IF shmObjv[id].nattach = 0
       THEN shmObjv' = [shmObjv EXCEPT ![id] = NoObj] /\ shmUsed' = shmUsed - 1
       ELSE shmObjv' = [shmObjv EXCEPT ![id].deleteMe = TRUE] /\ shmUsed' = shmUsed
  /\ UNCHANGED <<shmTot, shmMade, shmHeld, shmHeaps>>

(* stdlib_memory_exit destroys the heap of a process that ends; nothing       *)
(* detaches or removes its segments, so a client does that first.             *)
ShmExit(p) ==
  /\ "creator" \in ShmExits \/ \A i \in Live : shmOwner[shmObjv[i].amp] # p
  /\ "attached" \in ShmExits \/ shmHeld[p] = NoneHeld
  /\ shmGone' = shmGone \cup {p}
  /\ shmHeld' = [shmHeld EXCEPT ![p] = NoneHeld]
  /\ UNCHANGED <<shmObjv, shmUsed, shmTot, shmMade, shmOwner>>

ShmNext ==
  \E p \in ShmProcs \ shmGone :
    \/ \E key \in ShmKeys, size \in ShmSizes : ShmGet(p, key, size)
    \/ \E i \in 1..ShmMaxSegs : ShmAt(p, i) \/ ShmWrite(p, i) \/ ShmDt(p, i) \/ ShmRemove(i)
    \/ ShmExit(p)

ShmSpec == ShmInit /\ [][ShmNext]_shmVars

(* The heap that a segment is in still exists.                                *)
Backed(i) == shmOwner[shmObjv[i].amp] \notin shmGone

(* Memory that a process has attached is a segment of the map, whose nattach  *)
(* counts exactly the attachments: it is not freed under its users, by shmctl *)
(* or with the process that made it, and it goes when the last of them goes.  *)
ShmAttachedKept ==
  \A a \in 1..ShmMaxSegs :
    LET users == SumFunction([p \in ShmProcs |-> shmHeld[p][a]])
    IN  /\ users > 0 => \E i \in Live : shmObjv[i].amp = a
        /\ \A i \in Live : shmObjv[i].amp = a => /\ Backed(i) /\ shmObjv[i].nattach = users
                                                 /\ shmObjv[i].deleteMe => users > 0

(* The key map is consistent: a key names one object, every private object is *)
(* separate, nused counts the objects, and no object was overwritten.         *)
ShmMapConsistent ==
  /\ shmUsed = Cardinality(Live)
  /\ \A i, j \in Live : i # j => /\ shmObjv[i].amp # shmObjv[j].amp
                                 /\ shmObjv[i].key = shmObjv[j].key => shmObjv[i].key = IpcPrivate

(* totshm never undercounts, so shmmax bounds the memory in segments.         *)
ShmWithinMax ==
  LET total == SumFunction([i \in Live |-> shmObjv[i].segsz])
  IN  total <= shmTot /\ (Live # {} => total < ShmMax)

(* A segment that a user has written keeps its contents while it exists, even *)
(* across a detachment of everybody and a new attachment.                     *)
ShmDataKept ==
  [][\A i \in Live : shmObjv[i].data = "user" /\ shmObjv'[i] # NoObj =>
       shmObjv'[i].data = "user"]_shmVars

(* Segments live exactly as long as they have a name or users, keep their     *)
(* contents as long as they live, and stay within shmmax.                     *)
ShmSound == [](ShmTypeOK /\ ShmAttachedKept /\ ShmMapConsistent /\ ShmWithinMax) /\ ShmDataKept
===============================================================================
