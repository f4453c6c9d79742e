---------------------------- MODULE AbstractSemSet ----------------------------
(* What a System V semaphore set promises: a vector of operations takes       *)
(* effect in one step, in its order and without a value ever going below      *)
(* zero, or it has no effect at all.                                          *)
EXTENDS Integers, Sequences

CONSTANTS AbsNums, AbsVectors, AbsValues

VARIABLE absval

(* The values after the first i operations of a vector.                       *)
AbsAfter(vec, i) ==
  LET after[k \in 0..i] ==
        IF k = 0 THEN absval
                 ELSE [after[k - 1] EXCEPT ![vec[k].num] = @ + vec[k].op]
  IN  after[i]

AbsInit == absval = [n \in AbsNums |-> 0]

AbsCreate == absval' = [n \in AbsNums |-> 1]

AbsSet(n, v) == absval' = [absval EXCEPT ![n] = v]

AbsSetAll(v) == absval' = [n \in AbsNums |-> v]

AbsOp(vec) ==
  /\ \A i \in 1..Len(vec) :
       /\ AbsAfter(vec, i)[vec[i].num] >= 0
       /\ vec[i].op = 0 => AbsAfter(vec, i)[vec[i].num] = 0
  /\ absval' = AbsAfter(vec, Len(vec))

AbsNext == \/ AbsCreate
           \/ \E n \in AbsNums : \E v \in AbsValues : AbsSet(n, v)
           \/ \E v \in AbsValues : AbsSetAll(v)
           \/ \E vec \in AbsVectors : AbsOp(vec)

AbsSpec == AbsInit /\ [][AbsNext]_absval
===============================================================================
