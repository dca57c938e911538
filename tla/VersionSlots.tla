----------------------------- MODULE VersionSlots -----------------------------
(***************************************************************************)
(* The registry of reserved versions, ~/.loom/version-slots.toon, and the  *)
(* commands scan, next, reserve and release of loom-version-slot.ts.       *)
(*                                                                         *)
(* Every command reads the registry, spends its time on git and gh, writes *)
(* a refreshed registry, and a reserve or release then writes again what   *)
(* it made of the registry in its memory.  Nothing locks the file, which   *)
(* all worktrees of all repositories of a user share.                      *)
(*                                                                         *)
(* A row is filed under the name of the directory of the worktree, not of  *)
(* the repository (currentRepo), so two worktrees of a repository share    *)
(* their keys only when they have one name, as in ../app and               *)
(* ~/.worktrees/app.  A worktree is a number, its place in the listing of  *)
(* directories; every worktree sees every other.  A branch is checked out  *)
(* in one worktree, or in none: then the worktree is detached.  Two        *)
(* repositories may each have a branch of one name.  The data of pull      *)
(* requests decides nothing and is left out.                               *)
(***************************************************************************)
EXTENDS Naturals, FiniteSets

CONSTANTS
    Worktree,         \* numbers
    DirName, RepoOf,  \* of a worktree: its directory's name and its repository
    BranchOf,         \* of a worktree: the name of its branch
    SlotVersion,      \* versions that manifests and reservations name
    MaxSlotEvents     \* bound on commands and on other events

ASSUME SlotAssumption ==
    /\ Worktree \subseteq Nat \ {0} /\ \E last \in Worktree : \A w \in Worktree : w <= last
    /\ 0 \notin SlotVersion /\ MaxSlotEvents \in Nat

VARIABLES
    slots,      \* the registry: a row or NoSlot for each name and version
    tree,       \* of a worktree: "live", "detached", or "gone"
    branchHere, \* whether its branch exists in its repository
    ships,      \* the version its manifest states, 0 for none
    slotCmd,    \* the command that runs in it
    slotEvents,
    granted,    \* history: <<worktree, key>> of reservations that should stand
    slotStale   \* history: a registry out of date was written back

slotVars == <<slots, tree, branchHere, ships, slotCmd, slotEvents, granted, slotStale>>

(* What a row names as its repository is the directory of a worktree. *)
Key == {DirName[w] : w \in Worktree} \X SlotVersion
NoSlot == [branch |-> "none", at |-> 0]
Slot == {NoSlot} \cup [branch : {BranchOf[w] : w \in Worktree} \cup {"unknown"}, at : Worktree]
Registry == [Key -> Slot]
NoCommand == [pc |-> "idle"]

SlotTypeOK ==
    /\ slots \in Registry
    /\ tree \in [Worktree -> {"live", "detached", "gone"}]
    /\ branchHere \in [Worktree -> BOOLEAN]
    /\ ships \in [Worktree -> SlotVersion \cup {0}]
    /\ slotCmd \in [Worktree -> {NoCommand} \cup [pc : {"read", "refreshed"}, op : {"scan", "reserve", "release"},
                                                 ver : SlotVersion \cup {0}, reg : Registry]]
    /\ slotEvents \in 0..MaxSlotEvents
    /\ granted \subseteq Worktree \X Key
    /\ slotStale \in BOOLEAN

SlotInit ==
    /\ slots = [k \in Key |-> NoSlot]
    /\ tree = [w \in Worktree |-> "live"]
    /\ branchHere = [w \in Worktree |-> TRUE]
    /\ ships = [w \in Worktree |-> 0]
    /\ slotCmd = [w \in Worktree |-> NoCommand]
    /\ slotEvents = 0 /\ granted = {} /\ slotStale = FALSE

SlotEvent == slotEvents < MaxSlotEvents /\ slotEvents' = slotEvents + 1

-----------------------------------------------------------------------------
(* What a command looks at. *)

(* readVersionFromWorktree and currentBranch both find something. *)
Siblings(w) ==
    {s \in Worktree \ {w} : RepoOf[s] = RepoOf[w] /\ tree[s] = "live" /\ ships[s] # 0}

LastOf(ws) == CHOOSE s \in ws : \A t \in ws : t <= s

BranchExists(w, branch) ==
    \E s \in Worktree : RepoOf[s] = RepoOf[w] /\ BranchOf[s] = branch /\ branchHere[s]

(* Mutant: the refresh keeps no row that no worktree vouches for. *)
RefreshedFromTreesOnly(w, reg) ==
    [k \in Key |->
        LET found == {s \in Siblings(w) : <<DirName[w], ships[s]>> = k}
        IN  IF found # {} THEN [branch |-> BranchOf[LastOf(found)], at |-> LastOf(found)] ELSE NoSlot]

(* refresh: siblings first, the last of one version wins; then the rows whose *)
(* branch exists where the command runs.                                      *)
Refreshed(w, reg) ==
    [k \in Key |->
        LET found == {s \in Siblings(w) : <<DirName[w], ships[s]>> = k}
        IN  IF found # {} THEN [branch |-> BranchOf[LastOf(found)], at |-> LastOf(found)]
            ELSE IF reg[k] # NoSlot /\ BranchExists(w, reg[k].branch) THEN reg[k]
            ELSE NoSlot]

IsClaimed(reg, w, v) == reg[<<DirName[w], v>>] # NoSlot

OwnSlot(w) == [branch |-> IF tree[w] = "live" THEN BranchOf[w] ELSE "unknown", at |-> w]

(* The reservations a refresh of w may end: others' repositories, those of a *)
(* detached worktree, and those a sibling ships now.                         *)
Voided(w) ==
    {g \in granted : \/ RepoOf[g[1]] # RepoOf[w]
                     \/ slots[g[2]].branch = "unknown"
                     \/ \E s \in Siblings(w) : g[2] = <<DirName[w], ships[s]>>}

-----------------------------------------------------------------------------
SlotRead(w) ==
    /\ slotCmd[w].pc = "idle" /\ tree[w] # "gone" /\ SlotEvent
    /\ \E op \in {"scan", "reserve", "release"}, v \in SlotVersion :
          slotCmd' = [slotCmd EXCEPT ![w] = [pc |-> "read", op |-> op, ver |-> IF op = "scan" THEN 0 ELSE v, reg |-> slots]]
    /\ UNCHANGED <<slots, tree, branchHere, ships, granted, slotStale>>

(* scan and next end here, and so does the reserve of a claimed version. *)
SlotRefresh(w) ==
    LET c == slotCmd[w]
        reg == Refreshed(w, c.reg)
    IN  /\ c.pc = "read"
        /\ slots' = reg
        /\ slotStale' = (slotStale \/ slots # c.reg)
        /\ granted' = granted \ Voided(w)
        /\ slotCmd' = [slotCmd EXCEPT ![w] =
              IF c.op = "scan" \/ (c.op = "reserve" /\ IsClaimed(reg, w, c.ver))
              THEN NoCommand ELSE [pc |-> "refreshed", op |-> c.op, ver |-> c.ver, reg |-> reg]]
        /\ UNCHANGED <<tree, branchHere, ships, slotEvents>>

Reserve(w) ==
    LET c == slotCmd[w]
        k == <<DirName[w], c.ver>>
    IN  /\ c.pc = "refreshed" /\ c.op = "reserve"
        /\ slots' = [c.reg EXCEPT ![k] = OwnSlot(w)]
        /\ slotStale' = (slotStale \/ slots # c.reg)
        /\ granted' = granted \cup {<<w, k>>}
        /\ slotCmd' = [slotCmd EXCEPT ![w] = NoCommand]
        /\ UNCHANGED <<tree, branchHere, ships, slotEvents>>

ReleaseSlot(w) ==
    LET c == slotCmd[w]
        k == <<DirName[w], c.ver>>
    IN  /\ c.pc = "refreshed" /\ c.op = "release"
        /\ slots' = [c.reg EXCEPT ![k] = NoSlot]
        /\ slotStale' = (slotStale \/ slots # c.reg)
        /\ granted' = {g \in granted : g[2] # k}
        /\ slotCmd' = [slotCmd EXCEPT ![w] = NoCommand]
        /\ UNCHANGED <<tree, branchHere, ships, slotEvents>>

(* The command is killed. *)
SlotKill(w) ==
    /\ slotCmd[w].pc # "idle"
    /\ slotCmd' = [slotCmd EXCEPT ![w] = NoCommand]
    /\ UNCHANGED <<slots, tree, branchHere, ships, slotEvents, granted, slotStale>>

(* Someone edits a manifest, removes a worktree, detaches it, or deletes a *)
(* branch that is checked out nowhere.                                     *)
SlotWorld(w) ==
    /\ slotCmd[w].pc = "idle" /\ SlotEvent
    /\ \/ tree[w] # "gone" /\ \E v \in SlotVersion : ships' = [ships EXCEPT ![w] = v]
          /\ UNCHANGED <<tree, branchHere, granted>>
       \/ tree[w] = "live" /\ \E to \in {"detached", "gone"} : tree' = [tree EXCEPT ![w] = to]
          /\ UNCHANGED <<ships, branchHere, granted>>
       \/ tree[w] # "live" /\ branchHere[w]
          /\ branchHere' = [branchHere EXCEPT ![w] = FALSE]
          /\ granted' = {g \in granted : g[1] # w}
          /\ UNCHANGED <<ships, tree>>
    /\ UNCHANGED <<slots, slotCmd, slotStale>>

SlotNext ==
    \E w \in Worktree :
        \/ SlotRead(w) \/ SlotRefresh(w) \/ Reserve(w) \/ ReleaseSlot(w) \/ SlotKill(w)
        \/ SlotWorld(w)

SlotSpec == SlotInit /\ [][SlotNext]_slotVars

-----------------------------------------------------------------------------
(* What "reserved" still promises.  While no command wrote a registry out of  *)
(* date, a version someone was told is reserved stays claimed under the name  *)
(* of his worktree's directory, over every refresh from any worktree of his   *)
(* repository, and no other worktree of that name is told the same, until it  *)
(* is released or the branch is deleted.  What may end it without his doing   *)
(* is in Voided: a command in another repository, HEAD detached, or a sibling *)
(* that ships that version.  (loom-version-slot.ts:338-340, 394-421)          *)
ReservedMeansClaimed ==
    ~slotStale =>
        /\ \A g \in granted : slots[g[2]] # NoSlot
        /\ \A g, h \in granted : g[2] = h[2] => g = h

(* Does not hold: one version of one repository is reserved once, whatever    *)
(* its worktrees are called.  (version-slot.schema.toon:11, 20)               *)
UniqueInRepository ==
    ~slotStale => \A g, h \in granted : RepoOf[g[1]] = RepoOf[h[1]] /\ g[2][2] = h[2][2] => g = h

(* Does not hold: two worktrees of one repository and one name are never both *)
(* told that the same slot is theirs, their commands overlapping or not.      *)
(* (version-slot.schema.toon:11)                                              *)
GrantedOnce == \A g, h \in granted : RepoOf[g[1]] = RepoOf[h[1]] /\ g[2] = h[2] => g = h

(* Does not hold: a row goes only by a release or with the branch it names,   *)
(* in the repository of the worktree that made it.                            *)
(* (version-slot.schema.toon:12)                                              *)
ExpiresWithBranch ==
    [][ ~slotStale' => \A k \in Key : slots[k] # NoSlot /\ slots'[k] = NoSlot =>
            \/ ~branchHere[slots[k].at]
            \/ \E w \in Worktree : slotCmd[w].pc = "refreshed" /\ slotCmd[w].op = "release" ]_slotVars
=============================================================================
