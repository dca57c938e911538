---------------------------- MODULE WorktreeLeases ----------------------------
(***************************************************************************)
(* The leases of the worktrees of one repository, ~/.loom/leases/<repo>,   *)
(* kept by loom-worktree-scan.ts: scan (and preflight, the same with an    *)
(* exit code) and release.  The preflight hook runs a scan before a pull   *)
(* request.                                                                *)
(*                                                                         *)
(* A scan reads the leases, then builds a lease for its own worktree and   *)
(* for each sibling, which takes several git calls each, merges them in    *)
(* and replaces the file.  A release reads and replaces it.  Nothing locks *)
(* the file.                                                               *)
(*                                                                         *)
(* The siblings are the worktrees next to the one that scans, in           *)
(* ~/.worktrees, and in the root its orchestration.toml names.  The main   *)
(* checkout therefore often lists a worktree that does not list it, and a  *)
(* worktree anywhere else is met by no scan but its own.                   *)
(*                                                                         *)
(* A lease is known by its branch, and a branch is checked out once, so it *)
(* is known by its checkout here; detached checkouts all share "HEAD".     *)
(* What a lease says of paths, and the overlaps a scan prints, are left    *)
(* out: the file never decides by them.                                    *)
(***************************************************************************)
EXTENDS Naturals, FiniteSets

CONSTANTS
    Checkout,        \* worktrees of the repository
    ParentOf,        \* of a worktree: the directory it is in
    PoolsOf,         \* of a worktree: ~/.worktrees and the root it configures
    TTL,             \* days a lease lives
    MaxDay,          \* bound on time
    MaxLeaseEvents   \* bound on commands and on events

ASSUME LeaseAssumption ==
    /\ IsFiniteSet(Checkout) /\ "HEAD" \notin Checkout
    /\ TTL \in Nat \ {0} /\ MaxDay \in Nat /\ MaxLeaseEvents \in Nat

VARIABLES
    leases,      \* the lease file
    checkout,    \* "here" on its branch, "detached", or "away"
    day,
    scanner,     \* the command that runs in each checkout
    leaseEvents,
    leaseStale   \* history: a file out of date was written back

leaseVars == <<leases, checkout, day, scanner, leaseEvents, leaseStale>>

LeaseId == Checkout \cup {"HEAD"}
NoLease == [status |-> "none", expires |-> 0]
Lease == {NoLease} \cup [status : {"active", "expired", "released"}, expires : 0..(MaxDay + TTL)]
NoScan == [pc |-> "idle"]
Scans == [pc : {"scan", "report"}, read : [LeaseId -> Lease], merged : [LeaseId -> Lease],
          todo : SUBSET Checkout, steady : SUBSET Checkout, since : 0..MaxDay]
Releases == [pc : {"release"}, op : LeaseId, read : [LeaseId -> Lease]]

LeaseTypeOK ==
    /\ leases \in [LeaseId -> Lease]
    /\ checkout \in [Checkout -> {"here", "detached", "away"}]
    /\ day \in 0..MaxDay
    /\ scanner \in [Checkout -> {NoScan} \cup Scans \cup Releases]
    /\ leaseEvents \in 0..MaxLeaseEvents
    /\ leaseStale \in BOOLEAN

LeaseInit ==
    /\ leases = [i \in LeaseId |-> NoLease]
    /\ checkout = [w \in Checkout |-> "here"]
    /\ day = 0 /\ leaseEvents = 0 /\ leaseStale = FALSE
    /\ scanner = [w \in Checkout |-> NoScan]

LeaseEvent == leaseEvents < MaxLeaseEvents /\ leaseEvents' = leaseEvents + 1

-----------------------------------------------------------------------------
IdOf(w) == IF checkout[w] = "here" THEN w ELSE "HEAD"

(* Mutant: expired rows are marked first, the fresh one among them is not put in. *)
MergeLeaseKeepsOld(prior, w) ==
    [i \in LeaseId |->
        IF prior[i].status = "active" /\ prior[i].expires < day THEN [prior[i] EXCEPT !.status = "expired"]
        ELSE IF i = IdOf(w) THEN [status |-> "active", expires |-> day + TTL]
        ELSE prior[i]]

(* mergeLease: the lease of that id is replaced, others past their day expire. *)
MergeLease(prior, w) ==
    [i \in LeaseId |->
        IF i = IdOf(w) THEN [status |-> "active", expires |-> day + TTL]
        ELSE IF prior[i].status = "active" /\ prior[i].expires < day THEN [prior[i] EXCEPT !.status = "expired"]
        ELSE prior[i]]

(* enumerateSiblings: what is there, next to the worktree or in a pool of it. *)
Listed(w) ==
    {s \in Checkout \ {w} : checkout[s] # "away" /\ ParentOf[s] \in {ParentOf[w]} \cup PoolsOf[w]}

(* The siblings are listed, the leases read, and the own lease is merged. *)
ScanStarts(w) ==
    /\ scanner[w].pc = "idle" /\ checkout[w] # "away" /\ LeaseEvent
    /\ scanner' = [scanner EXCEPT ![w] =
          [pc |-> "scan", read |-> leases, merged |-> MergeLease(leases, w), todo |-> Listed(w),
           steady |-> {s \in Listed(w) \cup {w} : checkout[s] = "here"}, since |-> day]]
    /\ UNCHANGED <<leases, checkout, day, leaseStale>>

(* One sibling; one that went away meanwhile is of another repository, or none. *)
ScanSibling(w) ==
    /\ scanner[w].pc = "scan"
    /\ \E s \in scanner[w].todo :
          LET scan == scanner[w]
              met == IF checkout[s] = "away" THEN scan.merged ELSE MergeLease(scan.merged, s)
          IN  scanner' = [scanner EXCEPT ![w] =
                 [pc |-> "scan", read |-> scan.read, merged |-> met, todo |-> scan.todo \ {s},
                  steady |-> scan.steady, since |-> scan.since]]
    /\ UNCHANGED <<leases, checkout, day, leaseEvents, leaseStale>>

ScanWrites(w) ==
    /\ scanner[w].pc = "scan" /\ scanner[w].todo = {}
    /\ leases' = scanner[w].merged
    /\ leaseStale' = (leaseStale \/ leases # scanner[w].read)
    /\ scanner' = [scanner EXCEPT ![w] = [@ EXCEPT !.pc = "report"]]
    /\ UNCHANGED <<checkout, day, leaseEvents>>

(* release <id>: a lease that is there and not released yet. *)
ReleaseStarts(w) ==
    /\ scanner[w].pc = "idle" /\ checkout[w] # "away" /\ LeaseEvent
    /\ \E i \in LeaseId :
          /\ leases[i].status \notin {"none", "released"}
          /\ scanner' = [scanner EXCEPT ![w] = [pc |-> "release", op |-> i, read |-> leases]]
    /\ UNCHANGED <<leases, checkout, day, leaseStale>>

ReleaseWrites(w) ==
    /\ scanner[w].pc = "release"
    /\ leases' = [scanner[w].read EXCEPT ![scanner[w].op] = [@ EXCEPT !.status = "released"]]
    /\ leaseStale' = (leaseStale \/ leases # scanner[w].read)
    /\ scanner' = [scanner EXCEPT ![w] = NoScan]
    /\ UNCHANGED <<checkout, day, leaseEvents>>

(* The report is printed, or the command is killed. *)
LeaseExit(w) ==
    /\ scanner[w].pc # "idle"
    /\ scanner' = [scanner EXCEPT ![w] = NoScan]
    /\ UNCHANGED <<leases, checkout, day, leaseEvents, leaseStale>>

NextDay ==
    /\ day < MaxDay /\ day' = day + 1
    /\ UNCHANGED <<leases, checkout, scanner, leaseEvents, leaseStale>>

(* A worktree is added, removed, or put on or off its branch. *)
CheckoutChanges(w) ==
    /\ LeaseEvent
    /\ \E to \in {"here", "detached", "away"} \ {checkout[w]} : checkout' = [checkout EXCEPT ![w] = to]
    /\ scanner' = [p \in Checkout |->
          IF scanner[p].pc \in {"scan", "report"} THEN [scanner[p] EXCEPT !.steady = scanner[p].steady \ {w}] ELSE scanner[p]]
    /\ UNCHANGED <<leases, day, leaseStale>>

LeaseNext ==
    \/ \E w \in Checkout :
          \/ ScanStarts(w) \/ ScanSibling(w) \/ ScanWrites(w)
          \/ ReleaseStarts(w) \/ ReleaseWrites(w) \/ LeaseExit(w)
          \/ CheckoutChanges(w)
    \/ NextDay

LeaseSpec == LeaseInit /\ [][LeaseNext]_leaseVars

-----------------------------------------------------------------------------
(* A scan repairs what it lists.  However many scans and releases overlap,    *)
(* when a scan has written the file, its own worktree and every one it listed *)
(* that stayed on its branch while it ran has an active lease good for the    *)
(* whole time to live from the scan on (if the scan itself was not longer),   *)
(* whatever the last one was.  And while no file out of date was written      *)
(* back, a lease comes to life only by a scan, and goes only by its day.      *)
(* (loom-worktree-scan.ts:389-442)                                            *)
LeasesFollowWorktrees ==
    [][ /\ \A w \in Checkout : scanner[w].pc = "scan" /\ scanner'[w].pc = "report" /\ day <= scanner[w].since + TTL =>
              \A s \in scanner[w].steady :
                  leases'[s].status = "active" /\ leases'[s].expires >= scanner[w].since + TTL
        /\ ~leaseStale' => \A i \in LeaseId :
              leases[i].status # "active" /\ leases'[i].status = "active" =>
                  \E w \in Checkout : scanner'[w].pc = "report" /\ leases'[i].expires >= scanner'[w].since + TTL
        /\ ~leaseStale' => \A i \in LeaseId :
              /\ leases[i].status = "active" /\ leases'[i].status = "expired" => leases[i].expires < day
              /\ leases[i] # NoLease => leases'[i] # NoLease
      ]_leaseVars

(* Does not hold: no row is lost, whatever overlaps: a lease past its day is  *)
(* marked, not deleted.  (worktree-lease.schema.toon:22-23)                   *)
RowsAreKept == [][ \A i \in LeaseId : leases[i] # NoLease => leases'[i] # NoLease ]_leaseVars

(* Does not hold: a lease lives its days from the first scan that saw the     *)
(* branch, not from the last.  (worktree-lease.schema.toon:30-31)             *)
LivesFromFirstScan ==
    [][ \A w \in Checkout :
          leases[w].status = "active" /\ leases'[w].status = "active" => leases'[w].expires = leases[w].expires ]_leaseVars
=============================================================================
