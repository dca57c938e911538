------------------------------ MODULE MC_Machine ------------------------------
(***************************************************************************)
(* The components that keep files in the home directory or in a checkout   *)
(* and share no state with each other, side by side: one behaviour runs    *)
(* one of them, so the states of the run are the sum of theirs.            *)
(***************************************************************************)
EXTENDS InstallUpdate, HookSettings, VersionSlots, WorktreeLeases, BrowserDaemon,
        IterationSnapshots, Triage, WikiLedger, TLC

VARIABLE part

machineVars == <<part, installVars, hookVars, slotVars, leaseVars, daemonVars, snapVars, triageVars, wikiVars>>

Parts == {"install", "hooks", "slots", "leases", "daemon", "snapshots", "triage", "wiki"}

MachineInit ==
    /\ part \in Parts
    /\ InstallInit /\ HookInit /\ SlotInit /\ LeaseInit /\ DaemonInit /\ SnapInit /\ TriageInit /\ WikiInit
    (* of the first states: the upgrade snapshot, if any, is of the older version, *)
    (* only the project file has entries yet, and a part that stands still has one *)
    /\ snapshot \in {None, 1} /\ (part # "install" => snapshot = None /\ manifest = {1})
    /\ settings["local"] = Missing /\ (part # "hooks" => settings["project"] = Missing)
    /\ part # "wiki" => \A p \in WikiPage : refs[p] = {}

Others ==
    /\ UNCHANGED part
    /\ IF part = "install" THEN TRUE ELSE UNCHANGED installVars
    /\ IF part = "hooks" THEN TRUE ELSE UNCHANGED hookVars
    /\ IF part = "slots" THEN TRUE ELSE UNCHANGED slotVars
    /\ IF part = "leases" THEN TRUE ELSE UNCHANGED leaseVars
    /\ IF part = "daemon" THEN TRUE ELSE UNCHANGED daemonVars
    /\ IF part = "snapshots" THEN TRUE ELSE UNCHANGED snapVars
    /\ IF part = "triage" THEN TRUE ELSE UNCHANGED triageVars
    /\ IF part = "wiki" THEN TRUE ELSE UNCHANGED wikiVars

MachineNext ==
    /\ Others
    /\ \/ part = "install" /\ InstallNext
       \/ part = "hooks" /\ HookNext
       \/ part = "slots" /\ SlotNext
       \/ part = "leases" /\ LeaseNext
       \/ part = "daemon" /\ DaemonNext
       \/ part = "snapshots" /\ SnapNext
       \/ part = "triage" /\ TriageNext
       \/ part = "wiki" /\ WikiNext

MachineSpec == MachineInit /\ [][MachineNext]_machineVars

(* Types of all components: every file, process and history of the models is  *)
(* of the shape the code gives it.                                            *)
MachineTypeOK ==
    CASE part = "install" -> InstallTypeOK
      [] part = "hooks" -> HookTypeOK
      [] part = "slots" -> SlotTypeOK
      [] part = "leases" -> LeaseTypeOK
      [] part = "daemon" -> DaemonTypeOK
      [] part = "snapshots" -> SnapTypeOK
      [] part = "triage" -> TriageTypeOK
      [] part = "wiki" -> WikiTypeOK

(* Behaviours are cut where the properties no longer claim anything, and the  *)
(* last migrations are made one after the other.                              *)
Claims ==
    /\ ~raced /\ ~stale /\ ~slotStale /\ ~daemonRaced /\ ~snapRaced
    /\ starts = MaxStarts => \A s, t \in Session : mig[s] # Off /\ mig[t] # Off => s = t

(* Four worktrees: three of one repository, two of them of one name, which is *)
(* also the name of the worktree of another, with a branch of the same name.  *)
Dirs == <<"app", "app", "app", "lib">>
Repos == <<"A", "B", "B", "B">>
Branches == <<"main", "main", "fix", "dev">>

(* Two worktrees, one of them in ~/.worktrees: it is listed by the other, which *)
(* it does not list itself.                                                    *)
Parents == [main |-> "projects", m07 |-> "pool"]
Pools == [main |-> {"pool"}, m07 |-> {"pool"}]

(* Three subjects: two of one slug, and one that is a .toon file itself. *)
Slugs == <<"spec", "spec", "road">>
Exts == <<"md", "txt", "toon">>

(* The processes of the components that have two alike are the same two, so    *)
(* that one permutation serves them all; no definition tells them apart.       *)
Symmetry == Permutations(Command)
=============================================================================
