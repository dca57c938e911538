----------------------------- MODULE PassMutex -----------------------------
(***************************************************************************)
(* What Loom's two lock files promise their callers, with no file in       *)
(* sight: "preventing two parallel drivers from both believing they own    *)
(* the lock" (scripts/roadmap-converge/lock.ts), and serial WRITE and META *)
(* commands (scripts/lib/browser-client.ts).  A process may enter only     *)
(* while no other one is inside.                                           *)
(***************************************************************************)
CONSTANT Proc

VARIABLE running    \* the processes between acquireLock and the release

Init == running = {}

Enter(p) ==
    /\ running = {}
    /\ running' = {p}

(* It returns or throws, or its process dies. *)
Leave(p) ==
    /\ p \in running
    /\ running' = running \ {p}

Next == \E p \in Proc : Enter(p) \/ Leave(p)

Spec == Init /\ [][Next]_running
=============================================================================
