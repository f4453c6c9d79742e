----------------------------- MODULE MCCondVar -----------------------------
(***************************************************************************)
(* Model values for CondVar: see MCCondVar*.cfg.                            *)
(***************************************************************************)
EXTENDS CondVar, TLC

\* Threads are interchangeable in CondVar: its actions only compare them.
ThreadSymmetry == Permutations(Threads)
=============================================================================
