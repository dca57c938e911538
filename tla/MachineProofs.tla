---------------------------- MODULE MachineProofs ----------------------------
(***************************************************************************)
(* The components of MC_Machine side by side: in whatever order they run,  *)
(* each keeps to its own specification, so that what InstallProofs,        *)
(* HookProofs and WorktreeProofs say of one holds of the composition.      *)
(***************************************************************************)
EXTENDS MC_Machine, InstallProofs, HookProofs, WorktreeProofs

(* A step of the machine is a step of each part, or leaves it alone. *)
LEMMA EachPartSteps ==
  ASSUME [MachineNext]_machineVars
  PROVE  /\ [InstallNext]_installVars /\ [HookNext]_hookVars /\ [SlotNext]_slotVars /\ [LeaseNext]_leaseVars
         /\ [DaemonNext]_daemonVars /\ [SnapNext]_snapVars /\ [TriageNext]_triageVars /\ [WikiNext]_wikiVars
         /\ UNCHANGED part
  <1>1. CASE MachineNext
    <2>1. UNCHANGED part
      BY <1>1 DEF MachineNext, Others
    <2>2. [InstallNext]_installVars
      BY <1>1, Zenon DEF MachineNext, Others
    <2>3. [HookNext]_hookVars
      BY <1>1, Zenon DEF MachineNext, Others
    <2>4. [SlotNext]_slotVars
      BY <1>1, Zenon DEF MachineNext, Others
    <2>5. [LeaseNext]_leaseVars
      BY <1>1, Zenon DEF MachineNext, Others
    <2>6. [DaemonNext]_daemonVars
      BY <1>1, Zenon DEF MachineNext, Others
    <2>7. [SnapNext]_snapVars
      BY <1>1, Zenon DEF MachineNext, Others
    <2>8. [TriageNext]_triageVars
      BY <1>1, Zenon DEF MachineNext, Others
    <2>9. [WikiNext]_wikiVars
      BY <1>1, Zenon DEF MachineNext, Others
    <2> QED
      BY <2>1, <2>2, <2>3, <2>4, <2>5, <2>6, <2>7, <2>8, <2>9
  <1>2. CASE UNCHANGED machineVars
    BY <1>2 DEF machineVars
  <1> QED
    BY <1>1, <1>2

(* Each part of the machine behaves as its own specification says. *)
THEOREM PartsKeepToTheirSpecs ==
  MachineSpec => /\ InstallSpec /\ HookSpec /\ SlotSpec /\ LeaseSpec
                 /\ DaemonSpec /\ SnapSpec /\ TriageSpec /\ WikiSpec
  <1>1. MachineInit => /\ InstallInit /\ HookInit /\ SlotInit /\ LeaseInit
                       /\ DaemonInit /\ SnapInit /\ TriageInit /\ WikiInit
    BY DEF MachineInit
  <1> QED
    BY <1>1, EachPartSteps, PTL
       DEF MachineSpec, InstallSpec, HookSpec, SlotSpec, LeaseSpec, DaemonSpec, SnapSpec, TriageSpec, WikiSpec

(* Types of all components: every file, process and history of the models is  *)
(* of the shape the code gives it, whichever part runs.                       *)
THEOREM MachineTypeCorrect == MachineSpec => []MachineTypeOK
  <1>1. MachineInit => part \in Parts
    BY DEF MachineInit
  <1>2. part \in Parts /\ [MachineNext]_machineVars => (part \in Parts)'
    BY EachPartSteps
  <1>3. /\ part \in Parts
        /\ InstallTypeOK /\ HookTypeOK /\ SlotTypeOK /\ LeaseTypeOK
        /\ DaemonTypeOK /\ SnapTypeOK /\ TriageTypeOK /\ WikiTypeOK
        => MachineTypeOK
    BY DEF Parts, MachineTypeOK
  <1> QED
    BY <1>1, <1>2, <1>3, PartsKeepToTheirSpecs, InstallTypeCorrect, HookTypeCorrect, SlotTypeCorrect, LeaseTypeCorrect,
       DaemonTypeCorrect, SnapTypeCorrect, TriageTypeCorrect, WikiTypeCorrect, PTL DEF MachineSpec

(* What the eight parts promise over overlapping commands, kills and outside  *)
(* changes holds of the machine that runs them.                               *)
THEOREM MachineIsSafe ==
  MachineSpec => /\ []TornIsMarked /\ MarkerProtocol /\ []OneTier /\ RecordedBeforeRewrite
                 /\ []ReservedMeansClaimed /\ LeasesFollowWorktrees /\ []NoChromiumIsLost
                 /\ []SnapshotsAreKept /\ []TransitionsAreHistory /\ []LedgerIsHonest
  BY PartsKeepToTheirSpecs, InstallTornIsMarked, InstallMarkerProtocol, RegisteredOnce, GuardHolds, SlotReservation,
     LeasesAreRepaired, ChromiumIsKnown, SnapshotsStay, TriageHistory, WikiLedgerHonest, PTL
=============================================================================
