----------------------------- MODULE AbstractFds ------------------------------
(* What a descriptor table promises: a descriptor names one open file until   *)
(* it is closed or duplicated over; a file stays open as long as a descriptor *)
(* names it, and no longer, unless it belongs to the program's environment.   *)
EXTENDS Naturals

CONSTANTS AbsSlots, AbsFiles, AbsNil,
          AbsKept       \* files that closing their last descriptor leaves open

VARIABLES absRef,       \* the file each descriptor names, or AbsNil
          absOpen       \* the files that are open

absVars == <<absRef, absOpen>>

AbsFree == {d \in AbsSlots : absRef[d] = AbsNil}
AbsLowest(d, from) ==
  /\ d \in AbsFree /\ d >= from
  /\ \A e \in AbsFree : e >= from => d <= e

AbsInit ==
  /\ absRef \in [AbsSlots -> AbsKept \cup {AbsNil}]
  /\ absOpen = AbsKept

AbsOpenFile(d, f) ==
  /\ AbsLowest(d, 0) /\ f \notin absOpen
  /\ absRef' = [absRef EXCEPT ![d] = f]
  /\ absOpen' = absOpen \cup {f}

AbsStillOpen(refs) == {f \in absOpen : f \in AbsKept \/ \E d \in AbsSlots : refs[d] = f}
AbsRefer(d, f) ==
  /\ absRef' = [absRef EXCEPT ![d] = f]
  /\ absOpen' = AbsStillOpen(absRef')

AbsNext ==
  \/ \E d \in AbsSlots, f \in AbsFiles : AbsOpenFile(d, f)
  \/ \E d \in AbsSlots : AbsRefer(d, AbsNil)
  \/ \E d, e \in AbsSlots : absRef[e] # AbsNil /\ AbsRefer(d, absRef[e])

AbsSpec == AbsInit /\ [][AbsNext]_absVars
===============================================================================
