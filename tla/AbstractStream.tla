---------------------------- MODULE AbstractStream ----------------------------
(* What a stream promises, whatever it buffers: it behaves as a file with a   *)
(* position.  A write that fails may have put more of its data in place than  *)
(* it reports, never less and never anything else.  Moving behind the end of  *)
(* the file may make it longer.                                               *)
EXTENDS Integers, Sequences

CONSTANT AbsZero      \* the byte a file grows by

VARIABLES absFile, absPos,
          absData,    \* what the last call read, or was asked to write
          absAnswer,  \* -1 if it failed; else the number of bytes it was asked to
                      \* read or reports written, or the position it was to reach
          absOpen

absVars == <<absFile, absPos, absData, absAnswer, absOpen>>

AbsInit == absPos = 0 /\ absData = <<>> /\ absAnswer = 0 /\ absOpen = TRUE

AbsOverwritten(s) ==
  LET end == absPos + Len(s)
  IN  [i \in 1..(IF end > Len(absFile) THEN end ELSE Len(absFile)) |->
         IF i \in absPos + 1 .. end THEN s[i - absPos] ELSE absFile[i]]
AbsGrown(n) == [i \in 1..n |-> IF i <= Len(absFile) THEN absFile[i] ELSE AbsZero]

AbsRead ==
  /\ absPos' \in absPos..Len(absFile)
  /\ absData' = SubSeq(absFile, absPos + 1, absPos')
  /\ absAnswer' = -1 \/ Len(absData') = absAnswer' \/ absPos' = Len(absFile)
  /\ UNCHANGED absFile
AbsWrite ==
  \E k \in 0..Len(absData') :
    /\ absAnswer' <= k
    /\ absPos' = absPos + k
    /\ absFile' = AbsOverwritten(SubSeq(absData', 1, k))
AbsMove ==
  /\ absPos' = (IF absAnswer' = -1 THEN absPos ELSE absAnswer')
  /\ absFile' = IF absPos' > Len(absFile) THEN AbsGrown(absPos') ELSE absFile
AbsClose ==
  /\ absPos' = 0 /\ absOpen' = FALSE
  /\ absAnswer' = 0 => UNCHANGED absFile

AbsNext ==
  /\ absOpen
  /\ \/ (AbsRead \/ AbsWrite \/ AbsMove) /\ UNCHANGED absOpen
     \/ AbsClose
AbsSpec == AbsInit /\ [][AbsNext]_absVars
===============================================================================
