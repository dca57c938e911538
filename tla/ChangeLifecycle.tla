--------------------------- MODULE ChangeLifecycle ---------------------------
(***************************************************************************)
(* What the commands of scripts/loom-change promise of a change's status:  *)
(* every change moves along the edges of one graph, given here command by  *)
(* command.  It is the graph of the code: the documented table, which is   *)
(* below for comparison, has no revival, enters quick changes step by step *)
(* and supersedes archived changes where the code supersedes open ones.    *)
(***************************************************************************)
CONSTANT Change
VARIABLE status     \* of each change; "none" before its state exists

InFlight == {"proposed", "reviewed", "approved", "in-progress"}

InitEdge == {<<"none", "proposed">>}
ReviewEdge == {<<"proposed", "reviewed">>}
ApproveEdge == {<<"reviewed", "approved">>}
RunEdge == {<<"approved", "in-progress">>}
RejectEdge == {"proposed", "reviewed", "in-progress"} \X {"rejected"}
ReviveEdge == {<<"rejected", "proposed">>}
ArchiveEdge == {<<"in-progress", "archived">>}
QuickEdge == {<<"none", "in-progress">>}    \* its four transitions in one write
SupersedeEdge == InFlight \X {"superseded"}

Edge == InitEdge \cup ReviewEdge \cup ApproveEdge \cup RunEdge \cup RejectEdge
        \cup ReviveEdge \cup ArchiveEdge \cup QuickEdge \cup SupersedeEdge

(* The table of change-proposal.schema.md, "Status Lifecycle".             *)
Documented == {<<"none", "proposed">>, <<"proposed", "reviewed">>, <<"proposed", "rejected">>,
               <<"reviewed", "approved">>, <<"reviewed", "rejected">>,
               <<"approved", "in-progress">>, <<"in-progress", "archived">>,
               <<"in-progress", "rejected">>, <<"archived", "superseded">>}

Init == status = [c \in Change |-> "none"]
Move(c) ==
    \E to \in {e[2] : e \in Edge} :
        /\ <<status[c], to>> \in Edge
        /\ status' = [status EXCEPT ![c] = to]
Next == \E c \in Change : Move(c)
Spec == Init /\ [][Next]_status
=============================================================================
