----------------------------- MODULE MC_LoomChange -----------------------------
EXTENDS LoomChange

Modifies(i) == [kind |-> "modify", id |-> i]
Removes(i) == [kind |-> "remove", id |-> i]
Adds == [kind |-> "add", id |-> 0]

(* Two domains changed together, and each kind of operation alone. *)
SomeDrafts == {(1 :> Modifies(1) @@ 2 :> Adds), (1 :> Removes(1)), (1 :> Adds)}
Symmetry == Permutations(Change)
=============================================================================
