--------------------------- MODULE SignOffProtocol ---------------------------
(***************************************************************************)
(* What sign_off_state promises a reader of state.toon.  "Driver owns the  *)
(* not-eligible <-> eligible transition; sign-off.ts owns the eligible ->  *)
(* signed-off transition" (scripts/roadmap-converge/driver.ts): consent is *)
(* given only to an eligible roadmap and is final.                         *)
(***************************************************************************)
VARIABLE status

Init == status = "not-eligible"

Grant   == status = "not-eligible" /\ status' = "eligible"
Revoke  == status = "eligible"     /\ status' = "not-eligible"
Consent == status = "eligible"     /\ status' = "signed-off"

Next == Grant \/ Revoke \/ Consent

Spec == Init /\ [][Next]_status
=============================================================================
