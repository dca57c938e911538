----------------------------- MODULE MC_ExecLock -----------------------------
(* Instances of ExecLock for TLC. *)
EXTENDS ExecLock, TLC

Symmetry == Permutations(Proc)
=============================================================================
