--------------------------- MODULE MC_ConvergeLock ---------------------------
(***************************************************************************)
(* ConvergeLock on three processes, for TLC.  Three is what the hardest    *)
(* interleavings need: a holder and two processes that race to clear it.   *)
(***************************************************************************)
EXTENDS ConvergeLock, TLC

(* Processes differ only by name; used by the runs without liveness. *)
Symmetry == Permutations(Proc)
=============================================================================
