---------------------------- MODULE WorktreeProofs ----------------------------
(***************************************************************************)
(* Theorems about the parts that keep their files in, or about, a checkout: *)
(* worktree leases, the triage inbox, iteration snapshots and the browser  *)
(* daemon, for any checkouts, entries, subjects, commands and pids.        *)
(***************************************************************************)
EXTENDS WorktreeLeases, Triage, IterationSnapshots, BrowserDaemon, TLAPS

-----------------------------------------------------------------------------
(***************************************************************************)
(* Worktree leases: scan and release                                       *)
(***************************************************************************)

(* What a scan made of the leases it read: a lease is active because it was, *)
(* or for a worktree it met; what was active and is expired was past its day. *)
Tracks(read, merged, since) ==
    \A i \in LeaseId :
        /\ read[i] # NoLease => merged[i] # NoLease
        /\ merged[i].status = "active" => read[i].status = "active" \/ merged[i].expires >= since + TTL
        /\ read[i].status = "active" /\ merged[i].status = "active" => merged[i].expires >= read[i].expires
        /\ read[i].status = "active" /\ merged[i].status = "expired" => read[i].expires < day

InTime(file, by) == \A i \in LeaseId : file[i].expires <= by + TTL

(* The worktrees that stay where they are and were met have their lease. *)
Scanned(scan) ==
    /\ scan.since <= day
    /\ InTime(scan.read, scan.since) /\ InTime(scan.merged, day)
    /\ Tracks(scan.read, scan.merged, scan.since)
    /\ \A s \in scan.steady : checkout[s] = "here"
    /\ day <= scan.since + TTL =>
          \A s \in scan.steady \ scan.todo :
              scan.merged[s].status = "active" /\ scan.merged[s].expires >= scan.since + TTL

LeaseInv ==
    /\ LeaseTypeOK
    /\ InTime(leases, day)
    /\ \A w \in Checkout :
          /\ scanner[w].pc = "scan" => Scanned(scanner[w])
          /\ scanner[w].pc = "release" => InTime(scanner[w].read, day)

LEMMA LeaseFields ==
  \A l \in Lease : /\ l.expires \in 0..(MaxDay + TTL)
                   /\ l.status \in {"none", "active", "expired", "released"}
                   /\ l = NoLease <=> l.status = "none"
                   /\ l # NoLease => l \in [status : {"active", "expired", "released"}, expires : 0..(MaxDay + TTL)]
  BY LeaseAssumption DEF Lease, NoLease

LEMMA MergeTracks ==
  ASSUME NEW read \in [LeaseId -> Lease], NEW prior \in [LeaseId -> Lease], NEW since \in Nat, NEW w \in Checkout,
         day \in 0..MaxDay, since <= day, InTime(read, since), InTime(prior, day), Tracks(read, prior, since)
  PROVE  LET merged == MergeLease(prior, w)
         IN  /\ merged \in [LeaseId -> Lease] /\ InTime(merged, day) /\ Tracks(read, merged, since)
             /\ checkout[w] = "here" => merged[w] = [status |-> "active", expires |-> day + TTL]
             /\ \A s \in Checkout \ {w} : prior[s].expires >= day => merged[s] = prior[s]
  <1> DEFINE merged == MergeLease(prior, w)
  <1>1. TTL \in Nat \ {0} /\ MaxDay \in Nat /\ "HEAD" \notin Checkout
    BY LeaseAssumption
  <1>2. IdOf(w) \in LeaseId /\ (checkout[w] = "here" => IdOf(w) = w) /\ (IdOf(w) \in Checkout => IdOf(w) = w)
    BY <1>1 DEF IdOf, LeaseId
  <1>3. \A i \in LeaseId : merged[i] = IF i = IdOf(w) THEN [status |-> "active", expires |-> day + TTL]
                                       ELSE IF prior[i].status = "active" /\ prior[i].expires < day THEN [prior[i] EXCEPT !.status = "expired"]
                                       ELSE prior[i]
    BY DEF MergeLease
  <1>4. merged = [i \in LeaseId |-> merged[i]]
    BY DEF MergeLease
  <1> HIDE DEF merged
  <1>5. ASSUME NEW i \in LeaseId
        PROVE  /\ merged[i] \in Lease /\ merged[i].expires <= day + TTL
               /\ read[i] # NoLease => merged[i] # NoLease
               /\ merged[i].status = "active" => read[i].status = "active" \/ merged[i].expires >= since + TTL
               /\ read[i].status = "active" /\ merged[i].status = "active" => merged[i].expires >= read[i].expires
               /\ read[i].status = "active" /\ merged[i].status = "expired" => read[i].expires < day
    <2>1. /\ read[i] \in Lease /\ prior[i] \in Lease
          /\ read[i].expires <= since + TTL /\ prior[i].expires <= day + TTL
          /\ read[i] # NoLease => prior[i] # NoLease
          /\ prior[i].status = "active" => read[i].status = "active" \/ prior[i].expires >= since + TTL
          /\ read[i].status = "active" /\ prior[i].status = "active" => prior[i].expires >= read[i].expires
          /\ read[i].status = "active" /\ prior[i].status = "expired" => read[i].expires < day
      BY DEF InTime, Tracks
    <2>2. read[i].expires \in Nat /\ prior[i].expires \in 0..(MaxDay + TTL)
      BY <1>1, <2>1, LeaseFields
    <2>3. CASE i = IdOf(w)
      <3>1. merged[i] = [status |-> "active", expires |-> day + TTL]
        BY <1>3, <2>3
      <3>2. merged[i].status = "active" /\ merged[i].expires = day + TTL /\ day + TTL \in 0..(MaxDay + TTL)
        BY <1>1, <3>1
      <3>3. merged[i] \in Lease
        BY <3>1, <3>2 DEF Lease
      <3>4. merged[i] # NoLease
        BY <3>2, <3>3, LeaseFields
      <3> QED
        BY <1>1, <2>1, <2>2, <3>2, <3>3, <3>4
    <2>4. CASE i # IdOf(w) /\ prior[i].status = "active" /\ prior[i].expires < day
      <3>1. merged[i] = [prior[i] EXCEPT !.status = "expired"]
        BY <1>3, <2>4
      <3>2. prior[i] \in [status : {"active", "expired", "released"}, expires : 0..(MaxDay + TTL)]
        BY <2>1, <2>4, LeaseFields
      <3>3. merged[i].status = "expired" /\ merged[i].expires = prior[i].expires /\ merged[i] \in Lease
        BY <3>1, <3>2 DEF Lease
      <3>4. merged[i] # NoLease
        BY <3>3, LeaseFields
      <3> QED
        BY <1>1, <2>1, <2>2, <2>4, <3>3, <3>4
    <2>5. CASE i # IdOf(w) /\ ~(prior[i].status = "active" /\ prior[i].expires < day)
      <3>1. merged[i] = prior[i]
        BY <1>3, <2>5
      <3> QED
        BY <2>1, <3>1
    <2> QED
      BY <2>3, <2>4, <2>5
  <1>6. merged \in [LeaseId -> Lease]
    BY <1>4, <1>5
  <1>7. InTime(merged, day) /\ Tracks(read, merged, since)
    BY <1>5 DEF InTime, Tracks
  <1>8. checkout[w] = "here" => merged[w] = [status |-> "active", expires |-> day + TTL]
    BY <1>2, <1>3
  <1>9. ASSUME NEW s \in Checkout \ {w}, prior[s].expires >= day
        PROVE  merged[s] = prior[s]
    <2>1. s \in LeaseId /\ s # IdOf(w) /\ prior[s].expires \in Nat
      BY <1>1, <1>2, LeaseFields DEF LeaseId
    <2>2. day \in Nat
      BY <1>1
    <2>3. ~(prior[s].expires < day)
      BY <1>9, <2>1, <2>2
    <2> QED
      BY <1>3, <2>1, <2>3
  <1> QED
    BY <1>6, <1>7, <1>8, <1>9 DEF merged

LEMMA LeaseStarts == LeaseInit => LeaseInv
  <1> SUFFICES ASSUME LeaseInit
               PROVE  LeaseInv
    OBVIOUS
  <1>1. NoLease \in Lease /\ NoLease.expires = 0
    BY DEF Lease, NoLease
  <1>2. LeaseTypeOK
    <2>1. leases \in [LeaseId -> Lease] /\ scanner \in [Checkout -> {NoScan} \cup Scans \cup Releases]
          /\ checkout \in [Checkout -> {"here", "detached", "away"}]
      BY <1>1 DEF LeaseInit
    <2>2. day \in 0..MaxDay /\ leaseEvents \in 0..MaxLeaseEvents /\ leaseStale \in BOOLEAN
      <3>1. 0 \in 0..MaxDay /\ 0 \in 0..MaxLeaseEvents
        BY LeaseAssumption
      <3>2. day = 0 /\ leaseEvents = 0 /\ leaseStale = FALSE
        BY DEF LeaseInit
      <3> QED
        BY <3>1, <3>2
    <2> QED
      BY <2>1, <2>2 DEF LeaseTypeOK
  <1>3. InTime(leases, day)
    BY <1>1, LeaseAssumption DEF LeaseInit, InTime
  <1>4. \A w \in Checkout : scanner[w].pc = "idle"
    BY DEF LeaseInit, NoScan
  <1> QED
    BY <1>2, <1>3, <1>4 DEF LeaseInv

(* The commands of a checkout, by their kind. *)
LEMMA ScannerKinds ==
  ASSUME LeaseInv, NEW w \in Checkout
  PROVE  /\ scanner[w].pc \in {"idle", "scan", "report", "release"}
         /\ scanner[w].pc = "idle" => scanner[w] = NoScan
         /\ scanner[w].pc \in {"scan", "report"} => scanner[w] \in Scans
         /\ scanner[w].pc = "release" => scanner[w] \in Releases
  BY DEF LeaseInv, LeaseTypeOK, NoScan, Scans, Releases

(* The property of one step. *)
LeaseStep ==
    /\ \A w \in Checkout : scanner[w].pc = "scan" /\ scanner'[w].pc = "report" /\ day <= scanner[w].since + TTL =>
          \A s \in scanner[w].steady :
              leases'[s].status = "active" /\ leases'[s].expires >= scanner[w].since + TTL
    /\ ~leaseStale' => \A i \in LeaseId :
          leases[i].status # "active" /\ leases'[i].status = "active" =>
              \E w \in Checkout : scanner'[w].pc = "report" /\ leases'[i].expires >= scanner'[w].since + TTL
    /\ ~leaseStale' => \A i \in LeaseId :
          /\ leases[i].status = "active" /\ leases'[i].status = "expired" => leases[i].expires < day
          /\ leases[i] # NoLease => leases'[i] # NoLease

(* A step of one command that leaves the file, the worktrees and the day. *)
LEMMA CommandStep ==
  ASSUME LeaseInv, NEW w \in Checkout, NEW n \in {NoScan} \cup Scans \cup Releases,
         scanner' = [scanner EXCEPT ![w] = n], UNCHANGED <<leases, checkout, day, leaseStale>>,
         leaseEvents' \in 0..MaxLeaseEvents, n.pc # "report",
         n.pc = "scan" => Scanned(n), n.pc = "release" => InTime(n.read, day)
  PROVE  LeaseInv' /\ LeaseStep
  <1>1. scanner'[w] = n /\ \A p \in Checkout \ {w} : scanner'[p] = scanner[p]
    BY DEF LeaseInv, LeaseTypeOK
  <1>2. LeaseTypeOK'
    BY DEF LeaseInv, LeaseTypeOK
  <1>3. InTime(leases, day)'
    BY DEF LeaseInv, InTime
  <1>4. ASSUME NEW p \in Checkout
        PROVE  /\ (scanner[p].pc = "scan" => Scanned(scanner[p]))'
               /\ (scanner[p].pc = "release" => InTime(scanner[p].read, day))'
    <2>1. CASE p = w
      BY <1>1, <2>1 DEF Scanned, InTime, Tracks
    <2>2. CASE p # w
      <3>1. scanner'[p] = scanner[p]
        BY <1>1, <2>2
      <3>2. (scanner[p].pc = "scan" => Scanned(scanner[p])) /\ (scanner[p].pc = "release" => InTime(scanner[p].read, day))
        BY DEF LeaseInv
      <3> QED
        BY <3>1, <3>2 DEF Scanned, InTime, Tracks
    <2> QED
      BY <2>1, <2>2
  <1>5. LeaseInv'
    BY <1>2, <1>3, <1>4 DEF LeaseInv
  <1>6. LeaseStep
    <2>1. \A p \in Checkout : ~(scanner[p].pc = "scan" /\ scanner'[p].pc = "report")
      BY <1>1
    <2> QED
      BY <2>1 DEF LeaseStep
  <1> QED
    BY <1>5, <1>6

LEMMA ScanStartsStep ==
  ASSUME LeaseInv, NEW w \in Checkout, ScanStarts(w)
  PROVE  LeaseInv' /\ LeaseStep
  <1>0. PICK merged : merged = MergeLease(leases, w)
    OBVIOUS
  <1>1. PICK n : n = [pc |-> "scan", read |-> leases, merged |-> merged, todo |-> Listed(w),
                      steady |-> {s \in Listed(w) \cup {w} : checkout[s] = "here"}, since |-> day]
    OBVIOUS
  <1>2. scanner' = [scanner EXCEPT ![w] = n] /\ UNCHANGED <<leases, checkout, day, leaseStale>>
        /\ leaseEvents' \in 0..MaxLeaseEvents
    BY <1>0, <1>1, LeaseAssumption DEF ScanStarts, LeaseEvent, LeaseInv, LeaseTypeOK
  <1>3. leases \in [LeaseId -> Lease] /\ day \in 0..MaxDay /\ InTime(leases, day) /\ TTL \in Nat \ {0} /\ MaxDay \in Nat
    BY LeaseAssumption DEF LeaseInv, LeaseTypeOK
  <1>4. Tracks(leases, leases, day)
    <2>1. \A i \in LeaseId : leases[i].expires \in Nat
      BY <1>3, LeaseFields
    <2> QED
      BY <2>1 DEF Tracks
  <1>5. /\ merged \in [LeaseId -> Lease] /\ InTime(merged, day) /\ Tracks(leases, merged, day)
        /\ checkout[w] = "here" => merged[w] = [status |-> "active", expires |-> day + TTL]
    <2>1. day \in Nat /\ day <= day
      BY <1>3
    <2> QED
      BY <1>0, <1>3, <1>4, <2>1, MergeTracks
  <1>6. /\ n.pc = "scan" /\ n.read = leases /\ n.merged = merged /\ n.since = day
        /\ n.steady \ n.todo \subseteq {w} /\ \A s \in n.steady : checkout[s] = "here"
        /\ n \in Scans
    <2>1. Listed(w) \subseteq Checkout
      BY DEF Listed
    <2> QED
      BY <1>1, <1>3, <1>5, <2>1 DEF Scans
  <1>7. \A s \in n.steady \ n.todo : n.merged[s].status = "active" /\ n.merged[s].expires >= day + TTL
    BY <1>3, <1>5, <1>6
  <1>8. Scanned(n)
    BY <1>3, <1>5, <1>6, <1>7 DEF Scanned
  <1> QED
    BY <1>2, <1>6, <1>8, CommandStep

LEMMA ScanSiblingStep ==
  ASSUME LeaseInv, NEW w \in Checkout, ScanSibling(w)
  PROVE  LeaseInv' /\ LeaseStep
  <1>1. PICK scan : scan = scanner[w]
    OBVIOUS
  <1>2. scan.pc = "scan" /\ scan \in Scans /\ Scanned(scan)
    BY <1>1, ScannerKinds DEF ScanSibling, LeaseInv
  <1>3. PICK s \in scan.todo :
           scanner' = [scanner EXCEPT ![w] =
              [pc |-> "scan", read |-> scan.read,
               merged |-> IF checkout[s] = "away" THEN scan.merged ELSE MergeLease(scan.merged, s),
               todo |-> scan.todo \ {s}, steady |-> scan.steady, since |-> scan.since]]
    BY <1>1, Zenon DEF ScanSibling
  <1>4. PICK met : met = IF checkout[s] = "away" THEN scan.merged ELSE MergeLease(scan.merged, s)
    OBVIOUS
  <1>5. PICK n : n = [pc |-> "scan", read |-> scan.read, merged |-> met, todo |-> scan.todo \ {s},
                      steady |-> scan.steady, since |-> scan.since]
    OBVIOUS
  <1>6. /\ scan.read \in [LeaseId -> Lease] /\ scan.merged \in [LeaseId -> Lease] /\ scan.since \in Nat
        /\ scan.since \in 0..MaxDay /\ scan.todo \in SUBSET Checkout /\ scan.steady \in SUBSET Checkout
        /\ day \in 0..MaxDay /\ TTL \in Nat \ {0} /\ MaxDay \in Nat /\ s \in Checkout
    BY <1>2, LeaseAssumption DEF Scans, LeaseInv, LeaseTypeOK
  <1>7. /\ met \in [LeaseId -> Lease] /\ InTime(met, day) /\ Tracks(scan.read, met, scan.since)
        /\ checkout[s] = "here" => met[s] = [status |-> "active", expires |-> day + TTL]
        /\ \A p \in Checkout \ {s} : scan.merged[p].expires >= day => met[p] = scan.merged[p]
    <2>1. CASE checkout[s] = "away"
      BY <1>2, <1>4, <1>6, <2>1 DEF Scanned
    <2>2. CASE checkout[s] # "away"
      <3>1. scan.since <= day /\ InTime(scan.read, scan.since) /\ InTime(scan.merged, day) /\ Tracks(scan.read, scan.merged, scan.since)
        BY <1>2 DEF Scanned
      <3>2. met = MergeLease(scan.merged, s)
        BY <1>4, <2>2
      <3> QED
        BY <1>6, <3>1, <3>2, MergeTracks
    <2> QED
      BY <2>1, <2>2
  <1>8. /\ n.pc = "scan" /\ n.read = scan.read /\ n.merged = met /\ n.since = scan.since
        /\ n.steady = scan.steady /\ n.todo = scan.todo \ {s} /\ n \in Scans
    BY <1>5, <1>6, <1>7 DEF Scans
  <1>9. ASSUME day <= scan.since + TTL, NEW p \in n.steady \ n.todo
        PROVE  met[p].status = "active" /\ met[p].expires >= scan.since + TTL
    <2>1. scan.since <= day /\ checkout[p] = "here" /\ p \in Checkout
      BY <1>2, <1>6, <1>8 DEF Scanned
    <2>2. CASE p = s
      BY <1>6, <1>7, <2>1, <2>2
    <2>3. CASE p # s
      <3>1. scan.merged[p].status = "active" /\ scan.merged[p].expires >= scan.since + TTL
        BY <1>2, <1>8, <1>9, <2>3 DEF Scanned
      <3>2. scan.merged[p].expires \in Nat
        BY <1>6, <2>1, LeaseFields DEF LeaseId
      <3> QED
        BY <1>6, <1>7, <1>9, <2>1, <2>3, <3>1, <3>2
    <2> QED
      BY <2>2, <2>3
  <1>10. Scanned(n)
    BY <1>2, <1>7, <1>8, <1>9 DEF Scanned
  <1>11. scanner' = [scanner EXCEPT ![w] = n] /\ UNCHANGED <<leases, checkout, day, leaseStale>>
         /\ leaseEvents' \in 0..MaxLeaseEvents
    BY <1>3, <1>4, <1>5 DEF ScanSibling, LeaseInv, LeaseTypeOK
  <1> QED
    BY <1>8, <1>10, <1>11, CommandStep

(* A step that replaces the file, and ends what a command held of it. *)
LEMMA FileStep ==
  ASSUME LeaseInv, NEW w \in Checkout, NEW n \in {NoScan} \cup Scans \cup Releases, NEW file \in [LeaseId -> Lease],
         n.pc \in {"idle", "report"}, scanner' = [scanner EXCEPT ![w] = n], leases' = file, InTime(file, day),
         UNCHANGED <<checkout, day, leaseEvents>>, leaseStale' \in BOOLEAN
  PROVE  LeaseInv' /\ \A p \in Checkout \ {w} : scanner'[p] = scanner[p]
  <1>1. scanner'[w] = n /\ \A p \in Checkout \ {w} : scanner'[p] = scanner[p]
    BY DEF LeaseInv, LeaseTypeOK
  <1>2. LeaseTypeOK'
    BY DEF LeaseInv, LeaseTypeOK
  <1>3. InTime(leases, day)'
    BY DEF InTime
  <1>4. ASSUME NEW p \in Checkout
        PROVE  /\ (scanner[p].pc = "scan" => Scanned(scanner[p]))'
               /\ (scanner[p].pc = "release" => InTime(scanner[p].read, day))'
    <2>1. CASE p = w
      BY <1>1, <2>1
    <2>2. CASE p # w
      <3>1. scanner'[p] = scanner[p]
        BY <1>1, <2>2
      <3>2. (scanner[p].pc = "scan" => Scanned(scanner[p])) /\ (scanner[p].pc = "release" => InTime(scanner[p].read, day))
        BY DEF LeaseInv
      <3> QED
        BY <3>1, <3>2 DEF Scanned, InTime, Tracks
    <2> QED
      BY <2>1, <2>2
  <1> QED
    BY <1>1, <1>2, <1>3, <1>4 DEF LeaseInv

LEMMA ScanWritesStep ==
  ASSUME LeaseInv, NEW w \in Checkout, ScanWrites(w)
  PROVE  LeaseInv' /\ LeaseStep
  <1>1. PICK scan : scan = scanner[w]
    OBVIOUS
  <1>2. PICK n : n = [scan EXCEPT !.pc = "report"]
    OBVIOUS
  <1>3. /\ scan.pc = "scan" /\ scan.todo = {} /\ scan \in Scans /\ Scanned(scan)
        /\ leases' = scan.merged /\ leaseStale' = (leaseStale \/ leases # scan.read)
        /\ scanner' = [scanner EXCEPT ![w] = n]
        /\ UNCHANGED <<checkout, day, leaseEvents>>
    BY <1>1, <1>2, ScannerKinds DEF ScanWrites, LeaseInv
  <1>4. n \in Scans /\ n.pc = "report" /\ n.since = scan.since
    BY <1>2, <1>3 DEF Scans
  <1>5. scan.merged \in [LeaseId -> Lease] /\ InTime(scan.merged, day) /\ leaseStale' \in BOOLEAN
    BY <1>3 DEF Scans, Scanned, LeaseInv, LeaseTypeOK
  <1>6. LeaseInv' /\ \A p \in Checkout \ {w} : scanner'[p] = scanner[p]
    BY <1>3, <1>4, <1>5, FileStep
  <1>7. scanner'[w] = n
    BY <1>3 DEF LeaseInv, LeaseTypeOK
  <1>8. ASSUME NEW p \in Checkout, scanner[p].pc = "scan", scanner'[p].pc = "report", day <= scanner[p].since + TTL,
               NEW s \in scanner[p].steady
        PROVE  leases'[s].status = "active" /\ leases'[s].expires >= scanner[p].since + TTL
    <2>1. p = w
      BY <1>6, <1>8
    <2> QED
      BY <1>1, <1>3, <1>8, <2>1 DEF Scanned
  <1>9. ~leaseStale' => leases = scan.read /\ Tracks(leases, leases', scan.since)
    BY <1>3 DEF Scanned
  <1>10. LeaseStep
    BY <1>4, <1>7, <1>8, <1>9 DEF LeaseStep, Tracks
  <1> QED
    BY <1>6, <1>10

LEMMA ReleaseStartsStep ==
  ASSUME LeaseInv, NEW w \in Checkout, ReleaseStarts(w)
  PROVE  LeaseInv' /\ LeaseStep
  <1>1. PICK i \in LeaseId : scanner' = [scanner EXCEPT ![w] = [pc |-> "release", op |-> i, read |-> leases]]
    BY DEF ReleaseStarts
  <1>2. UNCHANGED <<leases, checkout, day, leaseStale>> /\ leaseEvents' \in 0..MaxLeaseEvents
    BY LeaseAssumption DEF ReleaseStarts, LeaseEvent, LeaseInv, LeaseTypeOK
  <1>3. PICK n : n = [pc |-> "release", op |-> i, read |-> leases]
    OBVIOUS
  <1>4. n \in Releases /\ n.pc = "release" /\ n.read = leases /\ InTime(leases, day)
    BY <1>3 DEF Releases, LeaseInv, LeaseTypeOK
  <1>5. scanner' = [scanner EXCEPT ![w] = n]
    BY <1>1, <1>3
  <1> QED
    BY <1>2, <1>4, <1>5, CommandStep

LEMMA ReleaseWritesStep ==
  ASSUME LeaseInv, NEW w \in Checkout, ReleaseWrites(w)
  PROVE  LeaseInv' /\ LeaseStep
  <1>1. PICK r : r = scanner[w]
    OBVIOUS
  <1>2. PICK file : file = [r.read EXCEPT ![r.op] = [r.read[r.op] EXCEPT !.status = "released"]]
    OBVIOUS
  <1>3. /\ r.pc = "release" /\ r \in Releases /\ InTime(r.read, day)
        /\ leases' = file /\ leaseStale' = (leaseStale \/ leases # r.read)
        /\ scanner' = [scanner EXCEPT ![w] = NoScan]
        /\ UNCHANGED <<checkout, day, leaseEvents>>
    BY <1>1, <1>2, ScannerKinds DEF ReleaseWrites, LeaseInv
  <1>4. r.op \in LeaseId /\ r.read \in [LeaseId -> Lease]
    BY <1>3 DEF Releases
  <1>5. PICK l : l = [r.read[r.op] EXCEPT !.status = "released"]
    OBVIOUS
  <1>6. l \in Lease /\ l.status = "released" /\ l.expires = r.read[r.op].expires /\ l # NoLease
    <2>1. r.read[r.op] \in [status : {"none", "active", "expired", "released"}, expires : 0..(MaxDay + TTL)]
      BY <1>4, LeaseAssumption DEF Lease, NoLease
    <2>2. l \in [status : {"active", "expired", "released"}, expires : 0..(MaxDay + TTL)] /\ l.status = "released"
          /\ l.expires = r.read[r.op].expires
      BY <1>5, <2>1
    <2> QED
      BY <2>2 DEF Lease, NoLease
  <1>7. \A i \in LeaseId : file[i] = IF i = r.op THEN l ELSE r.read[i]
    BY <1>2, <1>4, <1>5
  <1>8. file \in [LeaseId -> Lease] /\ InTime(file, day)
    <2>1. file \in [LeaseId -> Lease]
      BY <1>2, <1>4, <1>5, <1>6
    <2> QED
      BY <1>3, <1>4, <1>6, <1>7, <2>1 DEF InTime
  <1>9. leaseStale' \in BOOLEAN /\ NoScan.pc = "idle"
    BY <1>3 DEF LeaseInv, LeaseTypeOK, NoScan
  <1>10. LeaseInv' /\ \A p \in Checkout \ {w} : scanner'[p] = scanner[p]
    BY <1>3, <1>8, <1>9, FileStep
  <1>11. scanner'[w] = NoScan
    BY <1>3 DEF LeaseInv, LeaseTypeOK
  <1>12. \A p \in Checkout : ~(scanner[p].pc = "scan" /\ scanner'[p].pc = "report")
    BY <1>9, <1>10, <1>11
  <1>13. ~leaseStale' => \A i \in LeaseId : leases'[i] = leases[i] \/ (leases'[i] # NoLease /\ leases'[i].status = "released")
    BY <1>3, <1>6, <1>7
  <1>14. LeaseStep
    BY <1>12, <1>13 DEF LeaseStep
  <1> QED
    BY <1>10, <1>14

LEMMA LeaseExitStep ==
  ASSUME LeaseInv, NEW w \in Checkout, LeaseExit(w)
  PROVE  LeaseInv' /\ LeaseStep
  <1>1. /\ scanner' = [scanner EXCEPT ![w] = NoScan] /\ UNCHANGED <<leases, checkout, day, leaseStale>>
        /\ leaseEvents' \in 0..MaxLeaseEvents /\ NoScan.pc = "idle"
    BY DEF LeaseExit, LeaseInv, LeaseTypeOK, NoScan
  <1> QED
    BY <1>1, CommandStep

LEMMA NextDayStep ==
  ASSUME LeaseInv, NextDay \/ UNCHANGED leaseVars
  PROVE  LeaseInv' /\ LeaseStep
  <1>1. /\ UNCHANGED <<leases, checkout, scanner, leaseStale>>
        /\ day \in Nat /\ day' \in Nat /\ day <= day' /\ day' \in 0..MaxDay /\ leaseEvents' \in 0..MaxLeaseEvents
    <2>1. CASE NextDay
      BY <2>1, LeaseAssumption DEF NextDay, LeaseInv, LeaseTypeOK
    <2>2. CASE UNCHANGED leaseVars
      BY <2>2, LeaseAssumption DEF leaseVars, LeaseInv, LeaseTypeOK
    <2> QED
      BY <2>1, <2>2
  <1>2. LeaseTypeOK' /\ TTL \in Nat
    BY <1>1, LeaseAssumption DEF LeaseInv, LeaseTypeOK
  <1>3. ASSUME NEW file \in [LeaseId -> Lease], InTime(file, day)
        PROVE  InTime(file, day')
    <2> SUFFICES ASSUME NEW i \in LeaseId
                 PROVE  file[i].expires <= day' + TTL
      BY DEF InTime
    <2>1. file[i].expires \in Nat /\ file[i].expires <= day + TTL
      BY <1>3, LeaseFields DEF InTime
    <2> QED
      BY <1>1, <1>2, <2>1
  <1>4. InTime(leases, day)'
    BY <1>1, <1>3 DEF LeaseInv, LeaseTypeOK
  <1>5. ASSUME NEW p \in Checkout, scanner[p].pc = "scan"
        PROVE  Scanned(scanner[p])'
    <2>1. PICK scan : scan = scanner[p]
      OBVIOUS
    <2>2. scan \in Scans /\ Scanned(scan) /\ scanner'[p] = scan
      BY <1>1, <1>5, <2>1, ScannerKinds DEF LeaseInv
    <2>3. scan.read \in [LeaseId -> Lease] /\ scan.merged \in [LeaseId -> Lease] /\ scan.since \in Nat
      BY <2>2, LeaseAssumption DEF Scans
    <2>4. scan.since <= day /\ InTime(scan.read, scan.since) /\ InTime(scan.merged, day) /\ Tracks(scan.read, scan.merged, scan.since)
      BY <2>2 DEF Scanned
    <2>5. InTime(scan.merged, day')
      BY <1>3, <2>3, <2>4
    <2>6. Tracks(scan.read, scan.merged, scan.since)'
      <3>1. \A i \in LeaseId : scan.read[i].expires \in Nat
        BY <2>3, LeaseFields
      <3>2. \A i \in LeaseId : scan.read[i].expires < day => scan.read[i].expires < day'
        BY <1>1, <3>1
      <3> QED
        BY <2>4, <3>2 DEF Tracks
    <2>7. day' <= scan.since + TTL => day <= scan.since + TTL
      BY <1>1, <1>2, <2>3
    <2>8. scan.since <= day'
      BY <1>1, <2>3, <2>4
    <2>9. Scanned(scan)'
      BY <1>1, <2>2, <2>4, <2>5, <2>6, <2>7, <2>8 DEF Scanned, InTime
    <2> QED
      BY <2>2, <2>9 DEF Scanned, InTime, Tracks
  <1>6. ASSUME NEW p \in Checkout, scanner[p].pc = "release"
        PROVE  InTime(scanner'[p].read, day')
    <2>1. scanner[p].read \in [LeaseId -> Lease] /\ InTime(scanner[p].read, day)
      BY <1>6, ScannerKinds DEF LeaseInv, Releases
    <2> QED
      BY <1>1, <1>3, <2>1
  <1>7. LeaseInv'
    BY <1>1, <1>2, <1>4, <1>5, <1>6 DEF LeaseInv, InTime
  <1>8. LeaseStep
    BY <1>1 DEF LeaseStep
  <1> QED
    BY <1>7, <1>8

LEMMA CheckoutChangesStep ==
  ASSUME LeaseInv, NEW w \in Checkout, CheckoutChanges(w)
  PROVE  LeaseInv' /\ LeaseStep
  <1>1. PICK to \in {"here", "detached", "away"} : checkout' = [checkout EXCEPT ![w] = to]
    BY DEF CheckoutChanges
  <1>2. /\ scanner' = [p \in Checkout |->
              IF scanner[p].pc \in {"scan", "report"} THEN [scanner[p] EXCEPT !.steady = scanner[p].steady \ {w}] ELSE scanner[p]]
        /\ UNCHANGED <<leases, day, leaseStale>>
        /\ leaseEvents' \in 0..MaxLeaseEvents
    BY LeaseAssumption DEF CheckoutChanges, LeaseEvent, LeaseInv, LeaseTypeOK
  <1>3. ASSUME NEW p \in Checkout
        PROVE  /\ scanner'[p] \in {NoScan} \cup Scans \cup Releases
               /\ scanner'[p].pc = scanner[p].pc
               /\ (scanner[p].pc = "scan" => Scanned(scanner[p]))'
               /\ (scanner[p].pc = "release" => InTime(scanner[p].read, day))'
    <2>1. PICK scan : scan = scanner[p]
      OBVIOUS
    <2>2. CASE scan.pc \in {"scan", "report"}
      <3>1. PICK n : n = [scan EXCEPT !.steady = scan.steady \ {w}]
        OBVIOUS
      <3>2. scanner'[p] = n
        BY <1>2, <2>1, <2>2, <3>1
      <3>3. scan \in Scans /\ (scan.pc = "scan" => Scanned(scan))
        BY <2>1, <2>2, ScannerKinds DEF LeaseInv
      <3>4. /\ n \in Scans /\ n.pc = scan.pc /\ n.read = scan.read /\ n.merged = scan.merged /\ n.since = scan.since
            /\ n.todo = scan.todo /\ n.steady = scan.steady \ {w}
        BY <3>1, <3>3 DEF Scans
      <3>5. n.pc = "scan" => Scanned(n)'
        BY <1>1, <1>2, <3>3, <3>4 DEF Scanned, InTime, Tracks, LeaseInv, LeaseTypeOK, Scans
      <3>6. (scanner[p].pc = "scan" => Scanned(scanner[p]))'
        BY <3>2, <3>5 DEF Scanned, InTime, Tracks
      <3> QED
        BY <2>1, <2>2, <3>2, <3>4, <3>6
    <2>3. CASE scan.pc \notin {"scan", "report"}
      <3>1. scanner'[p] = scan
        BY <1>2, <2>1, <2>3
      <3> QED
        BY <1>2, <2>1, <2>3, <3>1 DEF InTime, LeaseInv, LeaseTypeOK
    <2> QED
      BY <2>2, <2>3
  <1>4. LeaseTypeOK'
    <2>1. scanner' \in [Checkout -> {NoScan} \cup Scans \cup Releases]
      <3>1. scanner' = [p \in Checkout |-> scanner'[p]]
        BY <1>2
      <3> QED
        BY <1>3, <3>1
    <2> QED
      BY <1>1, <1>2, <2>1 DEF LeaseInv, LeaseTypeOK
  <1>5. LeaseInv'
    BY <1>2, <1>3, <1>4 DEF LeaseInv, InTime
  <1>6. LeaseStep
    BY <1>2, <1>3 DEF LeaseStep
  <1> QED
    BY <1>5, <1>6

LEMMA LeaseNextStep == LeaseInv /\ [LeaseNext]_leaseVars => LeaseInv' /\ LeaseStep
  <1> SUFFICES ASSUME LeaseInv, [LeaseNext]_leaseVars
               PROVE  LeaseInv' /\ LeaseStep
    OBVIOUS
  <1>1. CASE NextDay \/ UNCHANGED leaseVars
    BY <1>1, NextDayStep
  <1>2. ASSUME NEW w \in Checkout,
               \/ ScanStarts(w) \/ ScanSibling(w) \/ ScanWrites(w)
               \/ ReleaseStarts(w) \/ ReleaseWrites(w) \/ LeaseExit(w)
               \/ CheckoutChanges(w)
        PROVE  LeaseInv' /\ LeaseStep
    BY <1>2, ScanStartsStep, ScanSiblingStep, ScanWritesStep, ReleaseStartsStep, ReleaseWritesStep, LeaseExitStep,
       CheckoutChangesStep
  <1> QED
    BY <1>1, <1>2 DEF LeaseNext

LEMMA LeaseAlways == LeaseSpec => []LeaseInv
  <1>1. LeaseInv /\ [LeaseNext]_leaseVars => LeaseInv'
    BY LeaseNextStep
  <1> QED
    BY <1>1, LeaseStarts, PTL DEF LeaseSpec

(* The lease file, the worktrees and every command are well-formed. *)
THEOREM LeaseTypeCorrect == LeaseSpec => []LeaseTypeOK
  <1>1. LeaseInv => LeaseTypeOK
    BY DEF LeaseInv
  <1> QED
    BY <1>1, LeaseAlways, PTL

(* A scan repairs what it finds, however many scans and releases of however  *)
(* many worktrees overlap, and revives or expires nothing it should not.     *)
THEOREM LeasesAreRepaired == LeaseSpec => LeasesFollowWorktrees
  <1>1. LeaseInv /\ [LeaseNext]_leaseVars => [LeaseStep]_leaseVars
    BY LeaseNextStep
  <1> QED
    BY <1>1, LeaseAlways, PTL DEF LeaseSpec, LeasesFollowWorktrees, LeaseStep

-----------------------------------------------------------------------------
(***************************************************************************)
(* Triage: transitions and the sweep                                       *)
(***************************************************************************)

InboxEntry == [created : 0..LastDay, state : TriageState, updated : 0..LastDay, log : Seq(LogRow)]
Reading == [of : Entry, entry : InboxEntry]

(* The transitions of an entry, the last of them when it was updated. *)
Kept(entry) ==
    LET log == entry.log
        n == Len(log)
    IN  /\ entry.state = IF n = 0 THEN "needs-triage" ELSE log[n].to
        /\ n > 0 => log[n].at = entry.updated
        /\ \A i \in 1..n :
              /\ <<log[i].from, log[i].to>> \in ValidTransitions
              /\ log[i].from = IF i = 1 THEN "needs-triage" ELSE log[i - 1].to
              /\ i > 1 => log[i - 1].at <= log[i].at
              /\ "wontfix" \in {log[i].from, log[i].to} => log[i].reason # "none"
              /\ log[i].reason = "timeout-30d" =>
                    i > 1 /\ log[i - 1].to = "needs-info" /\ log[i].at - log[i - 1].at >= Thirty

(* Every timeout is paid for by at least a day since the last one, so the    *)
(* transitions of an entry are no more than the moves and the days.          *)
TriageInv ==
    /\ inbox \in [Entry -> InboxEntry]
    /\ sweep \in [on : BOOLEAN, now : 0..LastDay, left : SUBSET Entry, read : {<<>>} \cup {<<q>> : q \in Reading}]
    /\ date \in 0..LastDay /\ moves \in 0..MaxMoves /\ made \in [Entry -> Nat] /\ sweepRaced \in BOOLEAN
    /\ sweep.now <= date
    /\ \A e \in Entry :
          /\ Kept(inbox[e]) /\ inbox[e].updated <= date
          /\ made[e] <= moves + inbox[e].updated
          /\ ~sweepRaced => Len(inbox[e].log) = made[e]
    /\ \A q \in Reading : sweep.read = <<q>> =>
          Kept(q.entry) /\ Due(q.entry, sweep.now) /\ made[q.of] <= moves + q.entry.updated

LEMMA AppendKept ==
  ASSUME NEW entry \in InboxEntry, Kept(entry), NEW to \in TriageState, NEW at \in 0..LastDay,
         NEW reason \in Reason \cup {"timeout-30d"}, entry.updated <= at,
         <<entry.state, to>> \in ValidTransitions,
         "wontfix" \in {entry.state, to} => reason # "none",
         reason = "timeout-30d" => Due(entry, at)
  PROVE  LET m == Moved(entry, to, at, reason)
         IN  m \in InboxEntry /\ Kept(m) /\ m.updated = at /\ Len(m.log) = Len(entry.log) + 1
  <1>1. PICK log : log = entry.log
    OBVIOUS
  <1>2. PICK row : row = [from |-> entry.state, to |-> to, at |-> at, reason |-> reason]
    OBVIOUS
  <1>3. PICK n : n = Len(log)
    OBVIOUS
  <1>4. PICK m : m = Moved(entry, to, at, reason)
    OBVIOUS
  <1>5. PICK new : new = Append(log, row)
    OBVIOUS
  <1>6. /\ log \in Seq(LogRow) /\ n \in Nat /\ entry.state \in TriageState /\ entry.updated \in 0..LastDay
        /\ entry.created \in 0..LastDay
    BY <1>1, <1>3 DEF InboxEntry
  <1>7. row \in LogRow /\ row.from = entry.state /\ row.to = to /\ row.at = at /\ row.reason = reason
    BY <1>2, <1>6 DEF LogRow
  <1>8. /\ new \in Seq(LogRow) /\ Len(new) = n + 1 /\ new[n + 1] = row
        /\ \A i \in 1..n : new[i] = log[i]
    BY <1>3, <1>5, <1>6, <1>7
  <1>9. m = [created |-> entry.created, state |-> to, updated |-> at, log |-> new]
    BY <1>1, <1>2, <1>4, <1>5 DEF Moved
  <1>10. m \in InboxEntry /\ m.state = to /\ m.updated = at /\ m.log = new
    BY <1>6, <1>8, <1>9 DEF InboxEntry
  <1>11. /\ entry.state = IF n = 0 THEN "needs-triage" ELSE log[n].to
         /\ n > 0 => log[n].at = entry.updated
         /\ \A i \in 1..n :
              /\ <<log[i].from, log[i].to>> \in ValidTransitions
              /\ log[i].from = IF i = 1 THEN "needs-triage" ELSE log[i - 1].to
              /\ i > 1 => log[i - 1].at <= log[i].at
              /\ "wontfix" \in {log[i].from, log[i].to} => log[i].reason # "none"
              /\ log[i].reason = "timeout-30d" =>
                    i > 1 /\ log[i - 1].to = "needs-info" /\ log[i].at - log[i - 1].at >= Thirty
    BY <1>1, <1>3 DEF Kept
  <1>12. ASSUME NEW i \in 1..(n + 1)
         PROVE  /\ <<new[i].from, new[i].to>> \in ValidTransitions
                /\ new[i].from = IF i = 1 THEN "needs-triage" ELSE new[i - 1].to
                /\ i > 1 => new[i - 1].at <= new[i].at
                /\ "wontfix" \in {new[i].from, new[i].to} => new[i].reason # "none"
                /\ new[i].reason = "timeout-30d" =>
                      i > 1 /\ new[i - 1].to = "needs-info" /\ new[i].at - new[i - 1].at >= Thirty
    <2>1. CASE i \in 1..n
      <3>1. new[i] = log[i] /\ (i > 1 => i - 1 \in 1..n /\ new[i - 1] = log[i - 1])
        BY <1>6, <1>8, <2>1
      <3> QED
        BY <1>6, <1>11, <2>1, <3>1
    <2>2. CASE i = n + 1
      <3>1. new[i] = row /\ (n > 0 => n \in 1..n /\ new[i - 1] = log[n] /\ i > 1) /\ (n = 0 => i = 1) /\ (n # 0 => n > 0 /\ i # 1)
        BY <1>6, <1>8, <2>2
      <3>2. new[i].from = IF i = 1 THEN "needs-triage" ELSE new[i - 1].to
        BY <1>7, <1>11, <3>1
      <3>3. i > 1 => new[i - 1].at <= new[i].at
        BY <1>6, <1>7, <1>11, <2>2, <3>1
      <3>4. "wontfix" \in {new[i].from, new[i].to} => new[i].reason # "none"
        BY <1>7, <3>1
      <3>6. <<new[i].from, new[i].to>> \in ValidTransitions
        BY <1>7, <3>1
      <3>5. ASSUME new[i].reason = "timeout-30d"
            PROVE  i > 1 /\ new[i - 1].to = "needs-info" /\ new[i].at - new[i - 1].at >= Thirty
        <4>1. entry.state = "needs-info" /\ entry.updated + Thirty <= at
          BY <1>7, <3>1, <3>5 DEF Due
        <4>2. n # 0
          BY <1>11, <4>1
        <4>3. i > 1 /\ new[i - 1].to = "needs-info" /\ new[i - 1].at = entry.updated /\ new[i].at = at
          BY <1>7, <1>11, <3>1, <4>1, <4>2
        <4>4. at - entry.updated >= Thirty
          BY <1>6, <4>1, TriageAssumption
        <4> QED
          BY <4>3, <4>4
      <3> QED
        BY <3>2, <3>3, <3>4, <3>5, <3>6
    <2> QED
      BY <1>6, <2>1, <2>2
  <1>13. Kept(m)
    <2>1. n + 1 # 0 /\ new[n + 1].to = to /\ new[n + 1].at = at
      BY <1>6, <1>7, <1>8
    <2>2. Len(m.log) = n + 1 /\ m.log = new /\ m.state = to /\ m.updated = at
      BY <1>8, <1>10
    <2> QED
      BY <1>12, <2>1, <2>2 DEF Kept
  <1> QED
    BY <1>1, <1>3, <1>4, <1>8, <1>10, <1>13

LEMMA ReparsedKept ==
  ASSUME NEW entry \in InboxEntry, Kept(entry)
  PROVE  LET r == [entry EXCEPT !.log = Reparsed(entry.log)]
         IN  /\ r \in InboxEntry /\ Kept(r) /\ Len(r.log) = Len(entry.log)
             /\ r.state = entry.state /\ r.updated = entry.updated
  <1>1. PICK log : log = entry.log
    OBVIOUS
  <1>2. PICK new : new = Reparsed(log)
    OBVIOUS
  <1>3. PICK r : r = [entry EXCEPT !.log = new]
    OBVIOUS
  <1>4. log \in Seq(LogRow) /\ Len(log) \in Nat /\ DOMAIN log = 1..Len(log) /\ \A i \in 1..Len(log) : log[i] \in LogRow
    BY <1>1 DEF InboxEntry
  <1>5. ASSUME NEW i \in 1..Len(log)
        PROVE  /\ new[i] \in LogRow /\ new[i].from = log[i].from /\ new[i].to = log[i].to /\ new[i].at = log[i].at
               /\ new[i].reason # "none" <=> log[i].reason # "none"
               /\ new[i].reason = "timeout-30d" <=> log[i].reason = "timeout-30d"
    <2>1. new[i] = IF log[i].reason = "with, comma" THEN [log[i] EXCEPT !.reason = "with"] ELSE log[i]
      BY <1>2, <1>4 DEF Reparsed
    <2>2. log[i] \in LogRow
      BY <1>4
    <2> QED
      BY <2>1, <2>2 DEF LogRow, Reason
  <1>6. new = [i \in 1..Len(log) |-> new[i]]
    BY <1>2, <1>4 DEF Reparsed
  <1>7. new \in Seq(LogRow) /\ Len(new) = Len(log)
    BY <1>4, <1>5, <1>6
  <1>8. r \in InboxEntry /\ r.log = new /\ r.state = entry.state /\ r.updated = entry.updated
    BY <1>3, <1>7 DEF InboxEntry
  <1>9. Kept(r)
    <2>1. PICK n \in Nat : n = Len(log) /\ n = Len(r.log)
      BY <1>4, <1>7, <1>8
    <2>2. /\ entry.state = IF n = 0 THEN "needs-triage" ELSE log[n].to
          /\ n > 0 => log[n].at = entry.updated
          /\ \A i \in 1..n :
              /\ <<log[i].from, log[i].to>> \in ValidTransitions
              /\ log[i].from = IF i = 1 THEN "needs-triage" ELSE log[i - 1].to
              /\ i > 1 => log[i - 1].at <= log[i].at
              /\ "wontfix" \in {log[i].from, log[i].to} => log[i].reason # "none"
              /\ log[i].reason = "timeout-30d" =>
                    i > 1 /\ log[i - 1].to = "needs-info" /\ log[i].at - log[i - 1].at >= Thirty
      BY <1>1, <2>1 DEF Kept
    <2>3. n # 0 => n \in 1..n
      BY <2>1
    <2>4. \A i \in 1..n : i # 1 => i - 1 \in 1..n
      BY <2>1
    <2>5. /\ r.state = IF n = 0 THEN "needs-triage" ELSE new[n].to
          /\ n > 0 => new[n].at = r.updated
      BY <1>5, <1>8, <2>1, <2>2, <2>3
    <2>6. ASSUME NEW i \in 1..n
          PROVE  /\ <<new[i].from, new[i].to>> \in ValidTransitions
                 /\ new[i].from = IF i = 1 THEN "needs-triage" ELSE new[i - 1].to
                 /\ i > 1 => new[i - 1].at <= new[i].at
                 /\ "wontfix" \in {new[i].from, new[i].to} => new[i].reason # "none"
                 /\ new[i].reason = "timeout-30d" =>
                       i > 1 /\ new[i - 1].to = "needs-info" /\ new[i].at - new[i - 1].at >= Thirty
      <3>1. /\ new[i].from = log[i].from /\ new[i].to = log[i].to /\ new[i].at = log[i].at
            /\ new[i].reason # "none" <=> log[i].reason # "none"
            /\ new[i].reason = "timeout-30d" <=> log[i].reason = "timeout-30d"
        BY <1>5, <2>1
      <3>2. i # 1 => new[i - 1].to = log[i - 1].to /\ new[i - 1].at = log[i - 1].at
        BY <1>5, <2>1, <2>4
      <3>3. <<log[i].from, log[i].to>> \in ValidTransitions
        BY <2>2
      <3>4. <<new[i].from, new[i].to>> \in ValidTransitions
        BY <3>1, <3>3, Zenon
      <3>5. /\ log[i].from = IF i = 1 THEN "needs-triage" ELSE log[i - 1].to
            /\ i > 1 => log[i - 1].at <= log[i].at
            /\ "wontfix" \in {log[i].from, log[i].to} => log[i].reason # "none"
            /\ log[i].reason = "timeout-30d" =>
                  i > 1 /\ log[i - 1].to = "needs-info" /\ log[i].at - log[i - 1].at >= Thirty
        BY <2>2
      <3>6. i > 1 <=> i # 1
        OBVIOUS
      <3>7. new[i].from = IF i = 1 THEN "needs-triage" ELSE new[i - 1].to
        BY <3>1, <3>2, <3>5
      <3>8. /\ i > 1 => new[i - 1].at <= new[i].at
            /\ new[i].reason = "timeout-30d" =>
                  i > 1 /\ new[i - 1].to = "needs-info" /\ new[i].at - new[i - 1].at >= Thirty
        BY <3>1, <3>2, <3>5, <3>6
      <3>9. "wontfix" \in {new[i].from, new[i].to} => new[i].reason # "none"
        BY <3>1, <3>5
      <3> QED
        BY <3>4, <3>7, <3>8, <3>9
    <2> QED
      BY <1>8, <2>1, <2>5, <2>6 DEF Kept
  <1> QED
    BY <1>1, <1>2, <1>3, <1>7, <1>8, <1>9

LEMMA TriageStarts == TriageInit => TriageInv
  <1> SUFFICES ASSUME TriageInit
               PROVE  TriageInv
    OBVIOUS
  <1>1. PICK entry : entry = [created |-> 0, state |-> "needs-triage", updated |-> 0, log |-> <<>>]
    OBVIOUS
  <1>2. 0 \in 0..LastDay /\ 0 \in 0..MaxMoves
    BY TriageAssumption
  <1>3. entry \in InboxEntry /\ Kept(entry) /\ entry.updated = 0 /\ Len(entry.log) = 0
    BY <1>1, <1>2 DEF InboxEntry, Kept, TriageState
  <1>4. inbox = [e \in Entry |-> entry] /\ date = 0 /\ moves = 0 /\ sweep = NoSweep /\ made = [e \in Entry |-> 0] /\ sweepRaced = FALSE
    BY <1>1 DEF TriageInit
  <1>5. /\ sweep \in [on : BOOLEAN, now : 0..LastDay, left : SUBSET Entry, read : {<<>>} \cup {<<q>> : q \in Reading}]
        /\ sweep.now = 0 /\ sweep.read = <<>>
    BY <1>2, <1>4 DEF NoSweep
  <1>6. \A q \in Reading : sweep.read # <<q>>
    BY <1>5
  <1>7. inbox \in [Entry -> InboxEntry] /\ made \in [Entry -> Nat] /\ \A e \in Entry : inbox[e] = entry /\ made[e] = 0
    BY <1>3, <1>4
  <1>a. date = 0 /\ moves = 0 /\ sweepRaced = FALSE
    BY DEF TriageInit
  <1>8. date \in 0..LastDay /\ moves \in 0..MaxMoves /\ sweepRaced \in BOOLEAN /\ sweep.now <= date
    <2>1. sweep.now = 0
      BY <1>5
    <2>2. 0 <= 0 /\ FALSE \in BOOLEAN
      OBVIOUS
    <2> QED
      BY <1>2, <1>a, <2>1, <2>2, Zenon
  <1>9. \A e \in Entry : /\ Kept(inbox[e]) /\ inbox[e].updated <= date
                          /\ made[e] <= moves + inbox[e].updated
                          /\ Len(inbox[e].log) = made[e]
    <2>1. 0 <= 0 /\ 0 + 0 = 0
      OBVIOUS
    <2> QED
      BY <1>3, <1>7, <1>a, <2>1, Zenon
  <1> QED
    BY <1>5, <1>6, <1>7, <1>8, <1>9 DEF TriageInv

LEMMA AcceptedFacts ==
  ASSUME NEW from \in TriageState, NEW to \in TriageState, NEW reason, NEW reopen, Accepted(from, to, reason, reopen)
  PROVE  /\ <<from, to>> \in ValidTransitions
         /\ "wontfix" \in {from, to} => reason # "none"
  BY DEF Accepted, ValidTransitions, ReasonRequired

LEMMA MoveStep ==
  ASSUME TriageInv, NEW e \in Entry, Move(e)
  PROVE  TriageInv'
  <1>1. PICK to \in TriageState, reason \in Reason \ {"with"}, reopen \in BOOLEAN :
           /\ Accepted(inbox[e].state, to, reason, reopen)
           /\ inbox' = [inbox EXCEPT ![e] = Moved(inbox[e], to, date, reason)]
    BY DEF Move
  <1>2. PICK m : m = Moved(inbox[e], to, date, reason)
    OBVIOUS
  <1>3. /\ inbox[e] \in InboxEntry /\ Kept(inbox[e]) /\ inbox[e].updated <= date /\ inbox[e].state \in TriageState
        /\ inbox[e].updated \in Nat /\ date \in 0..LastDay /\ date \in Nat /\ moves \in 0..MaxMoves /\ moves \in Nat
        /\ made[e] \in Nat /\ made[e] <= moves + inbox[e].updated
    BY TriageAssumption DEF TriageInv, InboxEntry
  <1>4. m \in InboxEntry /\ Kept(m) /\ m.updated = date /\ Len(m.log) = Len(inbox[e].log) + 1
    <2>1. /\ <<inbox[e].state, to>> \in ValidTransitions
          /\ "wontfix" \in {inbox[e].state, to} => reason # "none"
      BY <1>1, <1>3, AcceptedFacts
    <2>2. reason # "timeout-30d" /\ reason \in Reason \cup {"timeout-30d"}
      BY DEF Reason
    <2> QED
      BY <1>2, <1>3, <2>1, <2>2, AppendKept
  <1>5. /\ moves' = moves + 1 /\ moves' \in 0..MaxMoves
        /\ made' = [made EXCEPT ![e] = @ + 1]
        /\ UNCHANGED <<date, sweep, sweepRaced>>
    BY <1>3, TriageAssumption DEF Move
  <1>6. /\ inbox' \in [Entry -> InboxEntry] /\ inbox'[e] = m /\ \A d \in Entry \ {e} : inbox'[d] = inbox[d]
        /\ made' \in [Entry -> Nat] /\ made'[e] = made[e] + 1 /\ \A d \in Entry \ {e} : made'[d] = made[d]
    BY <1>1, <1>2, <1>3, <1>4, <1>5 DEF TriageInv
  <1>7. ASSUME NEW d \in Entry
        PROVE  /\ Kept(inbox'[d]) /\ inbox'[d].updated <= date
               /\ made'[d] <= moves' + inbox'[d].updated
               /\ ~sweepRaced => Len(inbox'[d].log) = made'[d]
    <2>1. /\ Kept(inbox[d]) /\ inbox[d].updated <= date
          /\ made[d] <= moves + inbox[d].updated /\ made[d] \in Nat /\ inbox[d].updated \in Nat
          /\ ~sweepRaced => Len(inbox[d].log) = made[d]
      BY DEF TriageInv, InboxEntry
    <2>2. CASE d = e
      BY <1>3, <1>4, <1>5, <1>6, <2>1, <2>2
    <2>3. CASE d # e
      BY <1>3, <1>5, <1>6, <2>1, <2>3
    <2> QED
      BY <2>2, <2>3
  <1>8. ASSUME NEW q \in Reading, sweep.read = <<q>>
        PROVE  Kept(q.entry) /\ Due(q.entry, sweep.now) /\ made'[q.of] <= moves' + q.entry.updated
    <2>1. /\ Kept(q.entry) /\ Due(q.entry, sweep.now) /\ made[q.of] <= moves + q.entry.updated
          /\ q.of \in Entry /\ made[q.of] \in Nat /\ q.entry.updated \in Nat
      BY <1>8 DEF TriageInv, Reading, InboxEntry
    <2>2. made'[q.of] <= made[q.of] + 1 /\ made'[q.of] \in Nat
      BY <1>6, <2>1
    <2> QED
      BY <1>3, <1>5, <2>1, <2>2
  <1> QED
    BY <1>5, <1>6, <1>7, <1>8 DEF TriageInv

LEMMA SweepSteps ==
  ASSUME TriageInv, SweepBegins \/ SweepReads \/ SweepEnds \/ Tomorrow \/ UNCHANGED triageVars
  PROVE  TriageInv'
  <1>1. /\ UNCHANGED <<inbox, moves, made, sweepRaced>>
        /\ date' \in 0..LastDay /\ date <= date' /\ date \in 0..LastDay /\ date \in Nat /\ date' \in Nat
    <2>0. date \in 0..LastDay /\ LastDay \in Nat /\ 0..LastDay \subseteq Nat
      BY TriageAssumption DEF TriageInv
    <2>1. CASE Tomorrow
      BY <2>0, <2>1 DEF Tomorrow
    <2>2. CASE UNCHANGED date
      BY <2>0, <2>2, SweepBegins \/ SweepReads \/ SweepEnds \/ Tomorrow \/ UNCHANGED triageVars
      DEF SweepBegins, SweepReads, SweepEnds, Tomorrow, triageVars
    <2> QED
      BY <2>1, <2>2 DEF SweepBegins, SweepReads, SweepEnds, triageVars
  <1>2. /\ sweep' \in [on : BOOLEAN, now : 0..LastDay, left : SUBSET Entry, read : {<<>>} \cup {<<q>> : q \in Reading}]
        /\ sweep'.now <= date'
        /\ \A q \in Reading : sweep'.read = <<q>> =>
              Kept(q.entry) /\ Due(q.entry, sweep'.now) /\ made[q.of] <= moves + q.entry.updated
    <2>0. /\ sweep \in [on : BOOLEAN, now : 0..LastDay, left : SUBSET Entry, read : {<<>>} \cup {<<q>> : q \in Reading}]
          /\ sweep.now <= date /\ sweep.now \in Nat /\ 0 \in 0..LastDay
      BY TriageAssumption DEF TriageInv
    <2>1. CASE UNCHANGED sweep
      BY <1>1, <2>0, <2>1 DEF TriageInv
    <2>2. CASE SweepBegins
      <3>1. sweep' = [on |-> TRUE, now |-> date, left |-> Entry, read |-> <<>>] /\ date' = date
        BY <2>2 DEF SweepBegins
      <3>2. \A q \in Reading : sweep'.read # <<q>>
        BY <3>1
      <3> QED
        BY <1>1, <3>1, <3>2
    <2>3. CASE SweepEnds
      <3>1. sweep' = [on |-> FALSE, now |-> 0, left |-> {}, read |-> <<>>]
        BY <2>3 DEF SweepEnds, NoSweep
      <3>2. \A q \in Reading : sweep'.read # <<q>>
        BY <3>1
      <3> QED
        BY <1>1, <2>0, <3>1, <3>2
    <2>4. CASE SweepReads
      <3>1. PICK e \in sweep.left :
               sweep' = [on |-> TRUE, now |-> sweep.now, left |-> sweep.left \ {e},
                         read |-> IF Due(inbox[e], sweep.now) THEN <<[of |-> e, entry |-> inbox[e]]>> ELSE <<>>]
        BY <2>4 DEF SweepReads
      <3>2. PICK q : q = [of |-> e, entry |-> inbox[e]]
        OBVIOUS
      <3>3. e \in Entry /\ inbox[e] \in InboxEntry /\ Kept(inbox[e]) /\ made[e] <= moves + inbox[e].updated
        BY <2>0 DEF TriageInv
      <3>4. q \in Reading /\ q.of = e /\ q.entry = inbox[e]
        BY <3>2, <3>3 DEF Reading
      <3>5. sweep'.now = sweep.now /\ sweep'.read = (IF Due(inbox[e], sweep.now) THEN <<q>> ELSE <<>>)
        BY <3>1, <3>2
      <3>6. sweep' \in [on : BOOLEAN, now : 0..LastDay, left : SUBSET Entry, read : {<<>>} \cup {<<p>> : p \in Reading}]
        BY <2>0, <3>1, <3>2, <3>4
      <3>7. ASSUME NEW p \in Reading, sweep'.read = <<p>>
            PROVE  p = q /\ Due(inbox[e], sweep.now)
        <4>1. sweep'.read = IF Due(inbox[e], sweep.now) THEN <<q>> ELSE <<>>
          BY <3>5
        <4>2. <<p>> # <<>> /\ (<<p>> = <<q>> => p = q)
          OBVIOUS
        <4> QED
          BY <3>7, <4>1, <4>2, Zenon
      <3> QED
        BY <1>1, <2>0, <3>3, <3>4, <3>5, <3>6, <3>7
    <2> QED
      BY <2>1, <2>2, <2>3, <2>4, SweepBegins \/ SweepReads \/ SweepEnds \/ Tomorrow \/ UNCHANGED triageVars
      DEF Tomorrow, triageVars
  <1>3. \A e \in Entry : inbox[e].updated <= date'
    <2> TAKE e \in Entry
    <2>1. inbox[e].updated \in Nat /\ inbox[e].updated <= date
      BY DEF TriageInv, InboxEntry
    <2> QED
      BY <1>1, <2>1
  <1> QED
    BY <1>1, <1>2, <1>3 DEF TriageInv

LEMMA SweepWritesStep ==
  ASSUME TriageInv, SweepWrites
  PROVE  TriageInv'
  <1>1. PICK q \in Reading : sweep.read = <<q>>
    BY DEF TriageInv, SweepWrites
  <1>2. PICK e : e = q.of
    OBVIOUS
  <1>3. PICK was : was = q.entry
    OBVIOUS
  <1>4. sweep.read[1] = q
    BY <1>1
  <1>5. PICK again : again = [was EXCEPT !.log = Reparsed(was.log)]
    OBVIOUS
  <1>6. PICK m : m = Moved(again, "wontfix", sweep.now, "timeout-30d")
    OBVIOUS
  <1>7. /\ Accepted(was.state, "wontfix", "timeout-30d", FALSE)
        /\ inbox' = [inbox EXCEPT ![e] = m]
        /\ made' = [made EXCEPT ![e] = @ + 1]
        /\ sweepRaced' = (sweepRaced \/ inbox[e] # was)
        /\ sweep' = [sweep EXCEPT !.read = <<>>]
        /\ UNCHANGED <<date, moves>>
    BY <1>2, <1>3, <1>4, <1>5, <1>6 DEF SweepWrites
  <1>8. /\ e \in Entry /\ was \in InboxEntry /\ Kept(was) /\ Due(was, sweep.now) /\ made[e] <= moves + was.updated
        /\ made[e] \in Nat /\ was.updated \in Nat /\ was.updated \in 0..LastDay
        /\ sweep.now \in 0..LastDay /\ sweep.now \in Nat /\ sweep.now <= date
        /\ date \in Nat /\ moves \in Nat /\ Thirty \in Nat \ {0}
    BY <1>1, <1>2, <1>3, TriageAssumption DEF TriageInv, Reading, InboxEntry
  <1>9. /\ again \in InboxEntry /\ Kept(again) /\ Len(again.log) = Len(was.log)
        /\ again.state = was.state /\ again.updated = was.updated
    BY <1>5, <1>8, ReparsedKept
  <1>10. m \in InboxEntry /\ Kept(m) /\ m.updated = sweep.now /\ Len(m.log) = Len(was.log) + 1
    <2>1. Due(again, sweep.now) /\ again.updated <= sweep.now
      BY <1>8, <1>9 DEF Due
    <2>2. "wontfix" \in TriageState /\ "timeout-30d" \in Reason \cup {"timeout-30d"} /\ "timeout-30d" # "none"
      BY DEF TriageState
    <2>3. <<again.state, "wontfix">> \in ValidTransitions
      BY <1>7, <1>9 DEF Accepted
    <2>4. PICK reason \in Reason \cup {"timeout-30d"}, to \in TriageState : reason = "timeout-30d" /\ to = "wontfix"
      BY <2>2
    <2>5. PICK new : new = Moved(again, to, sweep.now, reason)
      OBVIOUS
    <2>6. reason # "none" /\ Due(again, sweep.now) /\ <<again.state, to>> \in ValidTransitions
      BY <2>1, <2>3, <2>4
    <2>7. new \in InboxEntry /\ Kept(new) /\ new.updated = sweep.now /\ Len(new.log) = Len(again.log) + 1
      BY <1>8, <1>9, <2>1, <2>5, <2>6, AppendKept
    <2>8. new = m
      BY <1>6, <2>4, <2>5
    <2> QED
      BY <1>9, <2>7, <2>8
  <1>11. made[e] + 1 <= moves + sweep.now
    BY <1>8 DEF Due
  <1>12. /\ inbox' \in [Entry -> InboxEntry] /\ inbox'[e] = m /\ \A d \in Entry \ {e} : inbox'[d] = inbox[d]
         /\ made' \in [Entry -> Nat] /\ made'[e] = made[e] + 1 /\ \A d \in Entry \ {e} : made'[d] = made[d]
    BY <1>7, <1>8, <1>10 DEF TriageInv
  <1>13. sweepRaced' \in BOOLEAN /\ (~sweepRaced' => ~sweepRaced /\ inbox[e] = was)
    BY <1>7
  <1>14. ASSUME NEW d \in Entry
         PROVE  /\ Kept(inbox'[d]) /\ inbox'[d].updated <= date
                /\ made'[d] <= moves + inbox'[d].updated
                /\ ~sweepRaced' => Len(inbox'[d].log) = made'[d]
    <2>1. /\ Kept(inbox[d]) /\ inbox[d].updated <= date /\ made[d] <= moves + inbox[d].updated
          /\ ~sweepRaced => Len(inbox[d].log) = made[d]
      BY DEF TriageInv
    <2>2. CASE d = e
      BY <1>8, <1>10, <1>11, <1>12, <1>13, <2>1, <2>2
    <2>3. CASE d # e
      BY <1>12, <1>13, <2>1, <2>3
    <2> QED
      BY <2>2, <2>3
  <1>15. /\ sweep' \in [on : BOOLEAN, now : 0..LastDay, left : SUBSET Entry, read : {<<>>} \cup {<<p>> : p \in Reading}]
         /\ sweep'.now = sweep.now /\ sweep'.read = <<>>
    BY <1>7 DEF TriageInv
  <1>16. \A p \in Reading : sweep'.read # <<p>>
    BY <1>15
  <1> QED
    BY <1>7, <1>8, <1>12, <1>13, <1>14, <1>15, <1>16 DEF TriageInv

LEMMA TriageAlways == TriageSpec => []TriageInv
  <1>1. TriageInv /\ [TriageNext]_triageVars => TriageInv'
    BY MoveStep, SweepSteps, SweepWritesStep DEF TriageNext
  <1> QED
    BY <1>1, TriageStarts, PTL DEF TriageSpec

(* Entries, sweep and histories are well-formed; an entry has at most as many *)
(* transitions as people made moves and days passed.                          *)
THEOREM TriageTypeCorrect == TriageSpec => []TriageTypeOK
  <1>1. TriageInv => TriageTypeOK
    <2> SUFFICES ASSUME TriageInv
                 PROVE  TriageTypeOK
      OBVIOUS
    <2>1. ASSUME NEW e \in Entry
          PROVE  /\ inbox[e].state \in TriageState
                 /\ inbox[e].created \in 0..LastDay /\ inbox[e].updated \in 0..LastDay
                 /\ \A i \in DOMAIN inbox[e].log : inbox[e].log[i] \in LogRow
                 /\ made[e] \in 0..(MaxMoves + LastDay)
      <3>1. inbox[e] \in InboxEntry /\ made[e] \in Nat /\ made[e] <= moves + inbox[e].updated /\ moves \in 0..MaxMoves
        BY DEF TriageInv
      <3>2. inbox[e].log \in Seq(LogRow) /\ inbox[e].updated \in 0..LastDay
        BY <3>1 DEF InboxEntry
      <3>3. made[e] \in 0..(MaxMoves + LastDay)
        BY <3>1, <3>2, TriageAssumption
      <3> QED
        BY <3>1, <3>2, <3>3 DEF InboxEntry
    <2>2. made \in [Entry -> 0..(MaxMoves + LastDay)]
      BY <2>1 DEF TriageInv
    <2>3. Len(sweep.read) \in 0..1
      <3>1. sweep.read = <<>> \/ \E q \in Reading : sweep.read = <<q>>
        BY DEF TriageInv
      <3>2. sweep.read = <<>> => Len(sweep.read) = 0
        OBVIOUS
      <3>3. ASSUME NEW q \in Reading, sweep.read = <<q>>
            PROVE  Len(sweep.read) = 1
        BY <3>3
      <3> QED
        BY <3>1, <3>2, <3>3
    <2> QED
      BY <2>1, <2>2, <2>3 DEF TriageInv, TriageTypeOK
  <1> QED
    BY <1>1, TriageAlways, PTL

(* The transitions of an entry are its history, for any number of entries,   *)
(* moves and days.                                                           *)
THEOREM TriageHistory == TriageSpec => []TransitionsAreHistory
  <1>1. TriageInv => TransitionsAreHistory
    BY DEF TriageInv, TransitionsAreHistory, Kept
  <1> QED
    BY <1>1, TriageAlways, PTL

-----------------------------------------------------------------------------
(***************************************************************************)
(* Iteration snapshots: what is kept until two calls share a pass          *)
(***************************************************************************)

USE SnapshotAssumption

-----------------------------------------------------------------------------
Calls ==
    [pc : {"copy", "meta", "verify", "sleep"}, subject : Subject, pass : PassNumber, bytes : Bytes, try : 1..2]

Contents == {NoFile} \cup {CopyOf(b) : b \in Bytes} \cup {MetaOf(s, b) : s \in Subject, b \in Bytes}

(* Types, stated for the writers as a set of functions. *)
SnapTypes ==
    /\ SnapTypeOK
    /\ writer \in [Writer -> {NoCall} \cup Calls]

LEMMA SnapTypeInit == SnapInit => SnapTypes
  <1>1. SnapInit => snapRaced \in BOOLEAN
    BY Zenon DEF SnapInit
  <1> QED
    BY <1>1 DEF SnapInit, SnapTypeOK, SnapTypes, Bytes

LEMMA BusyCall ==
  ASSUME SnapTypes, NEW w \in Writer, writer[w].pc # "idle"
  PROVE  /\ writer[w] \in Calls
         /\ CopyName(writer[w].subject, writer[w].pass) \in FileName
         /\ MetaName(writer[w].subject, writer[w].pass) \in FileName
  <1>1. writer[w] \in Calls
    BY DEF SnapTypes, NoCall
  <1> QED
    BY <1>1 DEF Calls, CopyName, MetaName, FileName

LEMMA SnapTypeStep == SnapTypes /\ [SnapNext]_snapVars => SnapTypes'
  <1> SUFFICES ASSUME SnapTypes, [SnapNext]_snapVars
               PROVE  SnapTypes'
    OBVIOUS
  <1>0. ASSUME writer' \in [Writer -> {NoCall} \cup Calls],
               subjects' \in [Subject -> Bytes], snapFiles' \in [FileName -> Contents],
               calls' \in 0..MaxCalls, kept' \subseteq Subject \X PassNumber \X Bytes, snapRaced' \in BOOLEAN
        PROVE  SnapTypes'
    BY <1>0 DEF SnapTypes, SnapTypeOK, Calls, Contents
  <1>a. /\ writer \in [Writer -> {NoCall} \cup Calls]
        /\ subjects \in [Subject -> Bytes] /\ snapFiles \in [FileName -> Contents]
        /\ calls \in 0..MaxCalls /\ kept \subseteq Subject \X PassNumber \X Bytes /\ snapRaced \in BOOLEAN
    BY DEF SnapTypes, SnapTypeOK, Contents
  <1>1. ASSUME NEW w \in Writer, SnapBegins(w)
        PROVE  SnapTypes'
    <2>1. \A s \in Subject, n \in PassNumber : Call("copy", s, n, subjects[s], 1) \in Calls
      BY <1>a DEF Call, Calls
    <2>2. writer' \in [Writer -> {NoCall} \cup Calls]
      BY <1>1, <1>a, <2>1 DEF SnapBegins
    <2>3. snapRaced' \in BOOLEAN /\ calls' \in 0..MaxCalls
      BY <1>1, <1>a DEF SnapBegins
    <2> QED
      BY <1>0, <1>1, <1>a, <2>2, <2>3 DEF SnapBegins
  <1>2. ASSUME NEW w \in Writer, SnapCopies(w)
        PROVE  SnapTypes'
    <2>1. writer[w] \in Calls
      BY <1>2, BusyCall DEF SnapCopies
    <2>2. CopyOf(writer[w].bytes) \in Contents
      BY <2>1 DEF Calls, Contents
    <2>3. snapFiles' \in [FileName -> Contents]
      BY <1>2, <1>a, <2>2 DEF SnapCopies
    <2>4. [writer[w] EXCEPT !.pc = "meta"] \in Calls
      BY <2>1 DEF Calls
    <2>5. writer' \in [Writer -> {NoCall} \cup Calls]
      BY <1>2, <1>a, <2>4 DEF SnapCopies
    <2> QED
      BY <1>0, <1>2, <1>a, <2>3, <2>5 DEF SnapCopies
  <1>3. ASSUME NEW w \in Writer, SnapDescribes(w)
        PROVE  SnapTypes'
    <2>1. writer[w] \in Calls
      BY <1>3, BusyCall DEF SnapDescribes
    <2>2. MetaOf(writer[w].subject, writer[w].bytes) \in Contents
      BY <2>1 DEF Calls, Contents
    <2>3. snapFiles' \in [FileName -> Contents]
      BY <1>3, <1>a, <2>2 DEF SnapDescribes
    <2>4. [writer[w] EXCEPT !.pc = "verify"] \in Calls
      BY <2>1 DEF Calls
    <2>5. writer' \in [Writer -> {NoCall} \cup Calls]
      BY <1>3, <1>a, <2>4 DEF SnapDescribes
    <2> QED
      BY <1>0, <1>3, <1>a, <2>3, <2>5 DEF SnapDescribes
  <1>4. ASSUME NEW w \in Writer, SnapReturns(w)
        PROVE  SnapTypes'
    <2>1. writer[w] \in Calls
      BY <1>4, BusyCall DEF SnapReturns
    <2>2. kept' \subseteq Subject \X PassNumber \X Bytes
      BY <1>4, <1>a, <2>1 DEF SnapReturns, Calls
    <2>3. writer' \in [Writer -> {NoCall} \cup Calls]
      BY <1>4, <1>a DEF SnapReturns
    <2> QED
      BY <1>0, <1>4, <1>a, <2>2, <2>3 DEF SnapReturns
  <1>5. ASSUME NEW w \in Writer, SnapThrows(w)
        PROVE  SnapTypes'
    <2>1. writer[w] \in Calls
      BY <1>5, BusyCall DEF SnapThrows
    <2>2. [writer[w] EXCEPT !.pc = "sleep"] \in Calls
      BY <2>1 DEF Calls
    <2>3. writer' \in [Writer -> {NoCall} \cup Calls]
      BY <1>5, <1>a, <2>2 DEF SnapThrows
    <2> QED
      BY <1>0, <1>5, <1>a, <2>3 DEF SnapThrows
  <1>6. ASSUME NEW w \in Writer, SnapRetries(w)
        PROVE  SnapTypes'
    <2>1. writer[w] \in Calls
      BY <1>6, BusyCall DEF SnapRetries
    <2>2. Call("copy", writer[w].subject, writer[w].pass, writer[w].bytes, 2) \in Calls
      BY <2>1 DEF Call, Calls
    <2>3. writer' \in [Writer -> {NoCall} \cup Calls]
      BY <1>6, <1>a, <2>2 DEF SnapRetries
    <2>4. NoFile \in Contents
      BY DEF Contents
    <2>5. snapFiles' \in [FileName -> Contents]
      BY <1>6, <1>a, <2>4 DEF SnapRetries
    <2> QED
      BY <1>0, <1>6, <1>a, <2>3, <2>5 DEF SnapRetries
  <1>7. ASSUME NEW w \in Writer, SnapKilled(w)
        PROVE  SnapTypes'
    BY <1>0, <1>7, <1>a DEF SnapKilled
  <1>8. ASSUME NEW s \in Subject, SubjectEdited(s)
        PROVE  SnapTypes'
    <2>1. subjects' \in [Subject -> Bytes]
      BY <1>8, <1>a DEF SubjectEdited, Bytes
    <2> QED
      BY <1>0, <1>8, <1>a, <2>1 DEF SubjectEdited
  <1>9. CASE UNCHANGED snapVars
    BY <1>0, <1>9, <1>a DEF snapVars
  <1> QED
    BY <1>1, <1>2, <1>3, <1>4, <1>5, <1>6, <1>7, <1>8, <1>9 DEF SnapNext

(* Every reachable state of subjects, snapshots and calls is well typed. *)
THEOREM SnapTypeCorrect == SnapSpec => []SnapTypeOK
  BY SnapTypeInit, SnapTypeStep, PTL DEF SnapSpec, SnapTypes

-----------------------------------------------------------------------------
(* Until two calls meet at one slug and pass: a call is alone there, no      *)
(* snapshot was returned there, and what it described is on disk when it     *)
(* verifies.                                                                 *)

Busies(w) == writer[w] # NoCall
Same(w, s, n) == SlugOf[writer[w].subject] = SlugOf[s] /\ writer[w].pass = n

CallsAlone ==
    \A v, w \in Writer :
        Busies(v) /\ Busies(w) /\ Same(v, writer[w].subject, writer[w].pass) => v = w

NothingKeptHere == \A w \in Writer, k \in kept : Busies(w) => ~Same(w, k[1], k[2])

Described ==
    \A w \in Writer :
        writer[w].pc = "verify" =>
            snapFiles[MetaName(writer[w].subject, writer[w].pass)] = MetaOf(writer[w].subject, writer[w].bytes)

KeptThere ==
    \A k \in kept :
        /\ snapFiles[CopyName(k[1], k[2])] = CopyOf(k[3])
        /\ snapFiles[MetaName(k[1], k[2])] = MetaOf(k[1], k[3])

Undisturbed == ~snapRaced => CallsAlone /\ NothingKeptHere /\ Described /\ KeptThere

SnapInv == SnapTypes /\ Undisturbed

LEMMA KeptType == ASSUME SnapTypes, NEW k \in kept
                  PROVE  /\ k[1] \in Subject /\ k[2] \in PassNumber
                         /\ CopyName(k[1], k[2]) \in FileName /\ MetaName(k[1], k[2]) \in FileName
  BY DEF SnapTypes, SnapTypeOK, CopyName, MetaName, FileName

(* A call writes only names of its own slug and pass. *)
LEMMA OwnNames ==
  ASSUME NEW w \in Writer, NEW s \in Subject, NEW n \in PassNumber, ~Same(w, s, n)
  PROVE  {CopyName(s, n), MetaName(s, n)}
           \cap {CopyName(writer[w].subject, writer[w].pass), MetaName(writer[w].subject, writer[w].pass)} = {}
  BY DEF Same, CopyName, MetaName

LEMMA SnapInvInit == SnapInit => SnapInv
  <1>1. SnapInit => CallsAlone /\ NothingKeptHere /\ Described /\ KeptThere
    BY DEF SnapInit, CallsAlone, NothingKeptHere, Described, KeptThere, Busies, NoCall
  <1> QED
    BY <1>1, SnapTypeInit DEF SnapInv, Undisturbed

(* The calls other than w, and what is kept, are untouched when w changes only *)
(* its own names.                                                              *)
LEMMA OthersStand ==
  ASSUME SnapTypes, CallsAlone, NothingKeptHere, Described, KeptThere,
         NEW w \in Writer, writer[w].pc # "idle",
         \A f \in FileName : f \notin {CopyName(writer[w].subject, writer[w].pass), MetaName(writer[w].subject, writer[w].pass)}
                                => snapFiles'[f] = snapFiles[f],
         \A v \in Writer \ {w} : writer'[v] = writer[v],
         kept' = kept
  PROVE  /\ KeptThere'
         /\ \A v \in Writer \ {w} : writer[v].pc = "verify" =>
               snapFiles'[MetaName(writer[v].subject, writer[v].pass)] = MetaOf(writer[v].subject, writer[v].bytes)
  <1>1. Busies(w)
    BY DEF Busies, NoCall
  <1>2. ASSUME NEW k \in kept
        PROVE  /\ snapFiles'[CopyName(k[1], k[2])] = CopyOf(k[3])
               /\ snapFiles'[MetaName(k[1], k[2])] = MetaOf(k[1], k[3])
    <2>1. ~Same(w, k[1], k[2])
      BY <1>1 DEF NothingKeptHere
    <2>2. CopyName(k[1], k[2]) \in FileName /\ MetaName(k[1], k[2]) \in FileName
      BY KeptType
    <2>3. snapFiles'[CopyName(k[1], k[2])] = snapFiles[CopyName(k[1], k[2])]
          /\ snapFiles'[MetaName(k[1], k[2])] = snapFiles[MetaName(k[1], k[2])]
      BY <2>1, <2>2, KeptType, OwnNames
    <2> QED
      BY <2>3 DEF KeptThere
  <1>3. ASSUME NEW v \in Writer \ {w}, writer[v].pc = "verify"
        PROVE  snapFiles'[MetaName(writer[v].subject, writer[v].pass)] = MetaOf(writer[v].subject, writer[v].bytes)
    <2>1. Busies(v) /\ writer[v] \in Calls /\ MetaName(writer[v].subject, writer[v].pass) \in FileName
      BY <1>3, BusyCall DEF Busies, NoCall
    <2>2. ~Same(w, writer[v].subject, writer[v].pass)
      BY <1>1, <2>1 DEF CallsAlone
    <2>3. snapFiles'[MetaName(writer[v].subject, writer[v].pass)] = snapFiles[MetaName(writer[v].subject, writer[v].pass)]
      BY <2>1, <2>2, OwnNames DEF Calls
    <2> QED
      BY <1>3, <2>3 DEF Described
  <1> QED
    BY <1>2, <1>3 DEF KeptThere, CopyName, MetaName, CopyOf, MetaOf

(* A step that leaves a call where it is, or ends it, keeps calls apart. *)
LEMMA ApartStands ==
  ASSUME SnapTypes, CallsAlone, NothingKeptHere, NEW w \in Writer,
         \A v \in Writer \ {w} : writer'[v] = writer[v],
         \/ writer'[w] = NoCall
         \/ Busies(w) /\ writer'[w].subject = writer[w].subject /\ writer'[w].pass = writer[w].pass,
         kept' = kept
  PROVE  CallsAlone' /\ NothingKeptHere'
  BY DEF CallsAlone, NothingKeptHere, Busies, Same

LEMMA SnapStep == SnapInv /\ [SnapNext]_snapVars => Undisturbed'
  <1> SUFFICES ASSUME SnapInv, [SnapNext]_snapVars, ~snapRaced'
               PROVE  CallsAlone' /\ NothingKeptHere' /\ Described' /\ KeptThere'
    BY DEF Undisturbed
  <1>a. SnapTypes /\ SnapTypes' /\ writer \in [Writer -> {NoCall} \cup Calls] /\ snapFiles \in [FileName -> Contents]
    BY SnapTypeStep DEF SnapInv, SnapTypes, SnapTypeOK, Contents
  <1>1. ASSUME NEW w \in Writer, SnapBegins(w)
        PROVE  CallsAlone' /\ NothingKeptHere' /\ Described' /\ KeptThere'
    <2>1. PICK s \in Subject, n \in PassNumber :
             /\ ~Exists(CopyName(s, n)) /\ ~Exists(MetaName(s, n))
             /\ writer' = [writer EXCEPT ![w] = Call("copy", s, n, subjects[s], 1)]
             /\ snapRaced' = (snapRaced \/ Busy(SlugOf[s], n))
      BY <1>1 DEF SnapBegins
    <2>2. ~snapRaced /\ ~Busy(SlugOf[s], n)
      BY <2>1
    <2>3. CallsAlone /\ NothingKeptHere /\ Described /\ KeptThere
      BY <2>2 DEF SnapInv, Undisturbed
    <2>4. writer'[w].subject = s /\ writer'[w].pass = n /\ writer'[w].pc = "copy" /\ \A v \in Writer \ {w} : writer'[v] = writer[v]
      BY <1>a, <2>1 DEF Call
    <2>5. \A v \in Writer : Busies(v) => ~Same(v, s, n)
      BY <2>2 DEF Busy, Busies, Same
    <2>6. CallsAlone'
      BY <2>3, <2>4, <2>5 DEF CallsAlone, Busies, Same
    <2>7. ASSUME NEW k \in kept, SlugOf[s] = SlugOf[k[1]], n = k[2]
          PROVE  FALSE
      <3>1. snapFiles[MetaName(k[1], k[2])] = MetaOf(k[1], k[3])
        BY <2>3 DEF KeptThere
      <3>2. MetaName(k[1], k[2]) = MetaName(s, n)
        BY <2>7 DEF MetaName
      <3>3. MetaOf(k[1], k[3]) # NoFile
        BY DEF MetaOf, NoFile
      <3> QED
        BY <2>1, <3>1, <3>2, <3>3 DEF Exists
    <2>8. NothingKeptHere'
      BY <1>1, <2>3, <2>4, <2>7 DEF SnapBegins, NothingKeptHere, Busies, Same
    <2>9. Described' /\ KeptThere'
      BY <1>1, <2>3, <2>4 DEF SnapBegins, Described, KeptThere
    <2> QED
      BY <2>6, <2>8, <2>9
  <1>2. ASSUME NEW w \in Writer, SnapCopies(w)
        PROVE  CallsAlone' /\ NothingKeptHere' /\ Described' /\ KeptThere'
    <2>1. CallsAlone /\ NothingKeptHere /\ Described /\ KeptThere /\ kept' = kept
      BY <1>2 DEF SnapCopies, SnapInv, Undisturbed
    <2>2. writer[w] \in Calls /\ writer[w].pc # "idle" /\ Busies(w)
      BY <1>2, <1>a, BusyCall DEF SnapCopies, Busies, NoCall
    <2>3. /\ writer'[w].pc = "meta" /\ writer'[w].subject = writer[w].subject /\ writer'[w].pass = writer[w].pass
          /\ \A v \in Writer \ {w} : writer'[v] = writer[v]
      BY <1>2, <1>a, <2>2 DEF SnapCopies, Calls
    <2>4. \A f \in FileName : f # CopyName(writer[w].subject, writer[w].pass) => snapFiles'[f] = snapFiles[f]
      BY <1>2, <1>a DEF SnapCopies
    <2>5. CallsAlone' /\ NothingKeptHere'
      BY <1>a, <2>1, <2>2, <2>3, ApartStands
    <2>6. /\ KeptThere'
          /\ \A v \in Writer \ {w} : writer[v].pc = "verify" =>
                snapFiles'[MetaName(writer[v].subject, writer[v].pass)] = MetaOf(writer[v].subject, writer[v].bytes)
      BY <1>a, <2>1, <2>2, <2>3, <2>4, OthersStand
    <2>7. Described'
      BY <2>3, <2>6 DEF Described
    <2> QED
      BY <2>5, <2>6, <2>7
  <1>3. ASSUME NEW w \in Writer, SnapDescribes(w)
        PROVE  CallsAlone' /\ NothingKeptHere' /\ Described' /\ KeptThere'
    <2>1. CallsAlone /\ NothingKeptHere /\ Described /\ KeptThere /\ kept' = kept
      BY <1>3 DEF SnapDescribes, SnapInv, Undisturbed
    <2>2. writer[w] \in Calls /\ writer[w].pc # "idle" /\ Busies(w) /\ MetaName(writer[w].subject, writer[w].pass) \in FileName
      BY <1>3, <1>a, BusyCall DEF SnapDescribes, Busies, NoCall
    <2>3. /\ writer'[w].subject = writer[w].subject /\ writer'[w].pass = writer[w].pass /\ writer'[w].bytes = writer[w].bytes
          /\ \A v \in Writer \ {w} : writer'[v] = writer[v]
      BY <1>3, <1>a, <2>2 DEF SnapDescribes, Calls
    <2>4. \A f \in FileName : f # MetaName(writer[w].subject, writer[w].pass) => snapFiles'[f] = snapFiles[f]
      BY <1>3, <1>a DEF SnapDescribes
    <2>5. snapFiles'[MetaName(writer[w].subject, writer[w].pass)] = MetaOf(writer[w].subject, writer[w].bytes)
      BY <1>3, <1>a, <2>2 DEF SnapDescribes
    <2>6. CallsAlone' /\ NothingKeptHere'
      BY <1>a, <2>1, <2>2, <2>3, ApartStands
    <2>7. /\ KeptThere'
          /\ \A v \in Writer \ {w} : writer[v].pc = "verify" =>
                snapFiles'[MetaName(writer[v].subject, writer[v].pass)] = MetaOf(writer[v].subject, writer[v].bytes)
      BY <1>a, <2>1, <2>2, <2>3, <2>4, OthersStand
    <2>8. Described'
      BY <2>3, <2>5, <2>7 DEF Described
    <2> QED
      BY <2>6, <2>7, <2>8
  <1>4. ASSUME NEW w \in Writer, SnapReturns(w)
        PROVE  CallsAlone' /\ NothingKeptHere' /\ Described' /\ KeptThere'
    <2> DEFINE s == writer[w].subject
               n == writer[w].pass
               b == writer[w].bytes
    <2>1. CallsAlone /\ NothingKeptHere /\ Described /\ KeptThere /\ snapFiles' = snapFiles
      BY <1>4 DEF SnapReturns, SnapInv, Undisturbed
    <2>2. writer[w] \in Calls /\ Busies(w)
      BY <1>4, <1>a, BusyCall DEF SnapReturns, Busies, NoCall
    <2>3. kept' = kept \cup {<<s, n, b>>}
      BY <1>4 DEF SnapReturns
    <2>4. writer'[w] = NoCall /\ \A v \in Writer \ {w} : writer'[v] = writer[v]
      BY <1>4, <1>a DEF SnapReturns
    <2>5. CallsAlone'
      BY <2>1, <2>4 DEF CallsAlone, Busies, Same
    <2>6. \A v \in Writer \ {w} : Busies(v) => ~Same(v, s, n)
      BY <2>1, <2>2 DEF CallsAlone
    <2>7. NothingKeptHere'
      BY <2>1, <2>3, <2>4, <2>6 DEF NothingKeptHere, Busies, Same
    <2>8. Described'
      BY <2>1, <2>4 DEF Described, NoCall
    <2>9. snapFiles[CopyName(s, n)] = CopyOf(b) /\ snapFiles[MetaName(s, n)] = MetaOf(s, b)
      BY <1>4, <2>1 DEF SnapReturns, Verified, Described
    <2>10. KeptThere'
      BY <2>1, <2>3, <2>9 DEF KeptThere
    <2> QED
      BY <2>5, <2>7, <2>8, <2>10
  <1>5. ASSUME NEW w \in Writer, SnapThrows(w) \/ SnapKilled(w)
        PROVE  CallsAlone' /\ NothingKeptHere' /\ Described' /\ KeptThere'
    <2>1. CallsAlone /\ NothingKeptHere /\ Described /\ KeptThere /\ kept' = kept /\ snapFiles' = snapFiles
      BY <1>5 DEF SnapThrows, SnapKilled, SnapInv, Undisturbed
    <2>2. Busies(w)
      BY <1>5 DEF SnapThrows, SnapKilled, Busies, NoCall
    <2>3. /\ \/ writer'[w] = NoCall
             \/ /\ writer'[w].pc = "sleep"
                /\ writer'[w].subject = writer[w].subject
                /\ writer'[w].pass = writer[w].pass
          /\ \A v \in Writer \ {w} : writer'[v] = writer[v]
      <3>1. CASE SnapKilled(w)
        BY <3>1, <1>a DEF SnapKilled
      <3>2. CASE SnapThrows(w)
        <4>1. writer[w] \in Calls
          BY <1>a, <2>2 DEF Busies
        <4>2. writer' = [writer EXCEPT ![w] = IF writer[w].try = 1 THEN [writer[w] EXCEPT !.pc = "sleep"] ELSE NoCall]
          BY <3>2 DEF SnapThrows
        <4>3. CASE writer[w].try = 1
          <5>1. writer'[w] = [writer[w] EXCEPT !.pc = "sleep"]
            BY <4>2, <4>3, <1>a
          <5>2. \A v \in Writer \ {w} : writer'[v] = writer[v]
            BY <4>2, <1>a
          <5>3. writer'[w].pc = "sleep" /\ writer'[w].subject = writer[w].subject /\ writer'[w].pass = writer[w].pass
            BY <4>1, <5>1 DEF Calls
          <5> QED
            BY <5>2, <5>3
        <4>4. CASE writer[w].try # 1
          BY <4>2, <4>4, <1>a
        <4> QED
          BY <4>3, <4>4
      <3> QED
        BY <1>5, <3>1, <3>2
    <2>4. CallsAlone' /\ NothingKeptHere'
      BY <1>a, <2>1, <2>2, <2>3, ApartStands
    <2>5. Described' /\ KeptThere'
      BY <2>1, <2>3 DEF Described, KeptThere, NoCall
    <2> QED
      BY <2>4, <2>5
  <1>6. ASSUME NEW w \in Writer, SnapRetries(w)
        PROVE  CallsAlone' /\ NothingKeptHere' /\ Described' /\ KeptThere'
    <2>1. CallsAlone /\ NothingKeptHere /\ Described /\ KeptThere /\ kept' = kept
      BY <1>6 DEF SnapRetries, SnapInv, Undisturbed
    <2>2. writer[w] \in Calls /\ writer[w].pc # "idle" /\ Busies(w)
      BY <1>6, <1>a, BusyCall DEF SnapRetries, Busies, NoCall
    <2>3. /\ writer'[w].pc = "copy" /\ writer'[w].subject = writer[w].subject /\ writer'[w].pass = writer[w].pass
          /\ \A v \in Writer \ {w} : writer'[v] = writer[v]
      BY <1>6, <1>a, <2>2 DEF SnapRetries, Calls, Call
    <2>4. \A f \in FileName : f \notin {CopyName(writer[w].subject, writer[w].pass), MetaName(writer[w].subject, writer[w].pass)}
                                => snapFiles'[f] = snapFiles[f]
      BY <1>6 DEF SnapRetries
    <2>5. CallsAlone' /\ NothingKeptHere'
      BY <1>a, <2>1, <2>2, <2>3, ApartStands
    <2>6. /\ KeptThere'
          /\ \A v \in Writer \ {w} : writer[v].pc = "verify" =>
                snapFiles'[MetaName(writer[v].subject, writer[v].pass)] = MetaOf(writer[v].subject, writer[v].bytes)
      BY <1>a, <2>1, <2>2, <2>3, <2>4, OthersStand
    <2>7. Described'
      BY <2>3, <2>6 DEF Described
    <2> QED
      BY <2>5, <2>6, <2>7
  <1>7. ASSUME UNCHANGED <<snapFiles, writer, kept, snapRaced>>
        PROVE  CallsAlone' /\ NothingKeptHere' /\ Described' /\ KeptThere'
    BY <1>7 DEF SnapInv, Undisturbed, CallsAlone, NothingKeptHere, Described, KeptThere, Busies, Same
  <1> QED
    BY <1>1, <1>2, <1>3, <1>4, <1>5, <1>6, <1>7 DEF SnapNext, SubjectEdited, snapVars

(* A snapshot that was reported stays, for any subjects, slugs, extensions and *)
(* writers, over failures, clean-ups and kills, until two calls work on one    *)
(* slug and pass at once.                                                      *)
THEOREM SnapshotsStay == SnapSpec => []SnapshotsAreKept
  <1>1. SnapInv /\ [SnapNext]_snapVars => SnapInv'
    BY SnapTypeStep, SnapStep DEF SnapInv
  <1>2. SnapInv => SnapshotsAreKept
    BY DEF SnapInv, Undisturbed, KeptThere, SnapshotsAreKept
  <1> QED
    BY SnapInvInit, <1>1, <1>2, PTL DEF SnapSpec

-----------------------------------------------------------------------------
(***************************************************************************)
(* The browser daemon: start and stop                                      *)
(***************************************************************************)

USE DaemonAssumption

-----------------------------------------------------------------------------
LEMMA DaemonTypeInit == DaemonInit => DaemonTypeOK
  <1>1. DaemonInit => daemonRaced \in BOOLEAN /\ portShared \in BOOLEAN
    BY Zenon DEF DaemonInit
  <1> QED
    BY <1>1 DEF DaemonInit, DaemonTypeOK, NoState, DaemonIdle

LEMMA DaemonTypeStep == DaemonTypeOK /\ [DaemonNext]_daemonVars => DaemonTypeOK'
  <1> SUFFICES ASSUME DaemonTypeOK, [DaemonNext]_daemonVars
               PROVE  DaemonTypeOK'
    OBVIOUS
  <1> USE DEF DaemonTypeOK, DaemonEvent, StateOf, DaemonIdle
  <1>1. ASSUME NEW c \in DaemonCmd, StartChecks(c)
        PROVE  DaemonTypeOK'
    BY <1>1 DEF StartChecks
  <1>2. ASSUME NEW c \in DaemonCmd, Spawn(c)
        PROVE  DaemonTypeOK'
    BY <1>2 DEF Spawn
  <1>3. ASSUME NEW c \in DaemonCmd, SpawnFails(c)
        PROVE  DaemonTypeOK'
    <2>1. StateOf(0, 0) \in [pid : Pid \cup {0}, endpoint : Pid \cup {0}, there : BOOLEAN]
      OBVIOUS
    <2>2. stateFile' \in [pid : Pid \cup {0}, endpoint : Pid \cup {0}, there : BOOLEAN]
      BY <1>3, <2>1, Zenon DEF SpawnFails
    <2>3. daemonCmd' \in [DaemonCmd -> [pc : {"idle", "spawn", "poll", "stop"}, pid : Pid \cup {0}]]
      BY <1>3 DEF SpawnFails
    <2> QED
      BY <1>3, <2>2, <2>3 DEF SpawnFails
  <1>4. ASSUME NEW c \in DaemonCmd, StartWrites(c)
        PROVE  DaemonTypeOK'
    BY <1>4 DEF StartWrites
  <1>5. ASSUME NEW c \in DaemonCmd, StopSignals(c)
        PROVE  DaemonTypeOK'
    <2>1. \A p \in Pid : procs'[p] \in {"none", "chromium", "ending", "other"}
      BY <1>5 DEF StopSignals
    <2>2. procs' \in [Pid -> {"none", "chromium", "ending", "other"}]
      BY <1>5, <2>1 DEF StopSignals
    <2> QED
      BY <1>5, <2>2 DEF StopSignals
  <1>6. ASSUME NEW c \in DaemonCmd, StopWrites(c)
        PROVE  DaemonTypeOK'
    BY <1>6 DEF StopWrites
  <1>7. ASSUME NEW c \in DaemonCmd, DaemonKill(c)
        PROVE  DaemonTypeOK'
    BY <1>7 DEF DaemonKill
  <1>8. ASSUME NEW p \in Pid, Listen(p) \/ Ends(p) \/ OtherProgram(p)
        PROVE  DaemonTypeOK'
    BY <1>8 DEF Listen, Ends, OtherProgram
  <1>9. CASE UNCHANGED daemonVars
    BY <1>9 DEF daemonVars
  <1> QED
    BY <1>1, <1>2, <1>3, <1>4, <1>5, <1>6, <1>7, <1>8, <1>9 DEF DaemonNext

(* Every reachable state of the daemon's file, processes and port is well   *)
(* typed, for any set of commands and pids.                                 *)
THEOREM DaemonTypeCorrect == DaemonSpec => []DaemonTypeOK
  BY DaemonTypeInit, DaemonTypeStep, PTL DEF DaemonSpec

-----------------------------------------------------------------------------
(* The port belongs to a Chromium.  Until commands race, a start is alone, a *)
(* Chromium nobody signalled is named by the file or being started, and none *)
(* is left when a start is about to spawn or a stop about to write.          *)

PortIsChromiums == port # 0 => port \in Chromium

Alone ==
    ~daemonRaced => \A c, d \in DaemonCmd : c # d /\ daemonCmd[c].pc \in {"spawn", "poll"} => daemonCmd[d].pc = "idle"

Known ==
    ~daemonRaced =>
        /\ \A p \in Pid : procs[p] = "chromium" =>
              \/ stateFile.pid = p /\ stateFile.there
              \/ \E c \in DaemonCmd : daemonCmd[c] = [pc |-> "poll", pid |-> p]
        /\ \A c \in DaemonCmd, p \in Pid : procs[p] = "chromium" =>
              /\ daemonCmd[c].pc \notin {"spawn", "stop"}
              /\ daemonCmd[c].pc = "poll" => daemonCmd[c].pid = p

OwnEndpoint ==
    ~daemonRaced /\ ~portShared =>
        /\ \A c \in DaemonCmd, p \in Chromium : daemonCmd[c].pc = "poll" => daemonCmd[c].pid = p
        /\ stateFile.endpoint \in {0, stateFile.pid}

DaemonInv == DaemonTypeOK /\ PortIsChromiums /\ Alone /\ Known /\ OwnEndpoint

LEMMA DaemonInvInit == DaemonInit => DaemonInv
  <1> SUFFICES ASSUME DaemonInit
               PROVE  DaemonInv
    OBVIOUS
  <1>1. DaemonTypeOK
    BY DaemonTypeInit
  <1>2. PortIsChromiums /\ Alone
    BY DEF DaemonInit, PortIsChromiums, Alone, DaemonIdle
  <1>3. Known /\ OwnEndpoint
    BY DEF DaemonInit, Known, OwnEndpoint, DaemonIdle, NoState, Chromium
  <1> QED
    BY <1>1, <1>2, <1>3 DEF DaemonInv

LEMMA PortStep == DaemonInv /\ [DaemonNext]_daemonVars => PortIsChromiums'
  <1> SUFFICES ASSUME DaemonInv, [DaemonNext]_daemonVars
               PROVE  PortIsChromiums'
    OBVIOUS
  <1> USE DEF PortIsChromiums, Chromium, DaemonInv, DaemonTypeOK
  <1>1. ASSUME NEW c \in DaemonCmd, Spawn(c)
        PROVE  PortIsChromiums'
    BY <1>1 DEF Spawn
  <1>2. ASSUME NEW c \in DaemonCmd, StopSignals(c)
        PROVE  PortIsChromiums'
    BY <1>2 DEF StopSignals
  <1>3. ASSUME NEW p \in Pid, Listen(p) \/ Ends(p) \/ OtherProgram(p)
        PROVE  PortIsChromiums'
    BY <1>3 DEF Listen, Ends, OtherProgram
  <1>4. ASSUME UNCHANGED <<procs, port>>
        PROVE  PortIsChromiums'
    BY <1>4
  <1> QED
    BY <1>1, <1>2, <1>3, <1>4
       DEF DaemonNext, StartChecks, SpawnFails, StartWrites, StopWrites, DaemonKill, daemonVars

LEMMA AloneStep == DaemonInv /\ [DaemonNext]_daemonVars => Alone'
  <1> SUFFICES ASSUME DaemonInv, [DaemonNext]_daemonVars, ~daemonRaced'
               PROVE  Alone'
    BY DEF Alone
  <1> USE DEF Alone, DaemonInv, DaemonTypeOK
  <1>1. ASSUME NEW c \in DaemonCmd, StartChecks(c)
        PROVE  Alone'
    BY <1>1 DEF StartChecks
  <1>2. ASSUME NEW c \in DaemonCmd, Spawn(c)
        PROVE  Alone'
    BY <1>2 DEF Spawn
  <1>3. ASSUME NEW c \in DaemonCmd, SpawnFails(c) \/ StartWrites(c) \/ StopWrites(c) \/ DaemonKill(c)
        PROVE  Alone'
    BY <1>3 DEF SpawnFails, StartWrites, StopWrites, DaemonKill, DaemonIdle
  <1>4. ASSUME NEW c \in DaemonCmd, StopSignals(c)
        PROVE  Alone'
    BY <1>4 DEF StopSignals
  <1>5. ASSUME UNCHANGED <<daemonCmd, daemonRaced>>
        PROVE  Alone'
    BY <1>5
  <1> QED
    BY <1>1, <1>2, <1>3, <1>4, <1>5 DEF DaemonNext, Listen, Ends, OtherProgram, daemonVars

LEMMA NamedByFile ==
  ASSUME DaemonInv, ~daemonRaced, \A c \in DaemonCmd : daemonCmd[c].pc # "poll",
         NEW p \in Pid, procs[p] = "chromium"
  PROVE  stateFile.pid = p
  <1>1. \A c \in DaemonCmd : daemonCmd[c] # [pc |-> "poll", pid |-> p]
    OBVIOUS
  <1>2. stateFile.pid = p \/ \E c \in DaemonCmd : daemonCmd[c] = [pc |-> "poll", pid |-> p]
    <2>1. Known
      BY DEF DaemonInv
    <2> QED
      BY <2>1 DEF Known
  <1> QED
    BY <1>1, <1>2

LEMMA KnownStep == DaemonInv /\ [DaemonNext]_daemonVars => Known'
  <1> SUFFICES ASSUME DaemonInv, [DaemonNext]_daemonVars, ~daemonRaced'
               PROVE  Known'
    BY DEF Known
  <1> USE DEF Known, DaemonInv, DaemonTypeOK
  <1>1. ASSUME NEW c \in DaemonCmd, StartChecks(c)
        PROVE  Known'
    <2>1. \A d \in DaemonCmd : daemonCmd[d].pc = "idle"
      BY <1>1 DEF StartChecks
    <2>2. ~daemonRaced
      BY <1>1 DEF StartChecks
    <2>3. \A p \in Pid : procs[p] # "chromium"
      <3>1. \A p \in Pid : procs[p] = "chromium" => stateFile.pid = p
        BY <2>1, <2>2, NamedByFile
      <3> QED
        BY <1>1, <3>1 DEF StartChecks, IsPidAlive
    <2> QED
      BY <1>1, <2>3 DEF StartChecks
  <1>2. ASSUME NEW c \in DaemonCmd, Spawn(c)
        PROVE  Known'
    <2>1. ~daemonRaced
      BY <1>2, Zenon DEF Spawn
    <2>2. PICK p \in Pid : /\ procs' = [procs EXCEPT ![p] = "chromium"]
                           /\ daemonCmd' = [daemonCmd EXCEPT ![c] = [pc |-> "poll", pid |-> p]]
      BY <1>2 DEF Spawn
    <2>3. \A q \in Pid : procs'[q] = "chromium" => q = p
      BY <1>2, <2>1, <2>2 DEF Spawn
    <2>4. \A d \in DaemonCmd \ {c} : daemonCmd'[d] = daemonCmd[d] /\ daemonCmd[d].pc = "idle"
      BY <1>2, <2>1, <2>2 DEF Spawn, Alone
    <2>5. daemonCmd'[c] = [pc |-> "poll", pid |-> p]
      BY <2>2
    <2> QED
      BY <2>3, <2>4, <2>5
  <1>3. ASSUME NEW c \in DaemonCmd, SpawnFails(c)
        PROVE  Known'
    <2>1. ~daemonRaced
      BY <1>3, Zenon DEF SpawnFails
    <2>2. \A p \in Pid : procs'[p] # "chromium"
      BY <1>3, <2>1 DEF SpawnFails
    <2> QED
      BY <2>2
  <1>4. ASSUME NEW c \in DaemonCmd, StartWrites(c)
        PROVE  Known'
    <2>1. ~daemonRaced
      BY <1>4, Zenon DEF StartWrites
    <2>2. stateFile'.pid = daemonCmd[c].pid /\ stateFile'.there /\ procs' = procs
      BY <1>4 DEF StartWrites, StateOf
    <2>3. \A d \in DaemonCmd : daemonCmd'[d].pc = "idle"
      BY <1>4, <2>1 DEF StartWrites, Alone, DaemonIdle
    <2> QED
      BY <1>4, <2>1, <2>2, <2>3 DEF StartWrites
  <1>5. ASSUME NEW c \in DaemonCmd, StopSignals(c)
        PROVE  Known'
    <2>1. ~daemonRaced /\ \A d \in DaemonCmd : daemonCmd[d].pc \notin {"spawn", "poll"}
      BY <1>5 DEF StopSignals
    <2>2. \A p \in Pid : procs[p] = "chromium" => stateFile.pid = p
      BY <2>1, NamedByFile
    <2>3. \A p \in Pid : procs'[p] # "chromium"
      BY <1>5, <2>2 DEF StopSignals
    <2> QED
      BY <2>3
  <1>6. ASSUME NEW c \in DaemonCmd, StopWrites(c)
        PROVE  Known'
    <2>1. ~daemonRaced
      BY <1>6, Zenon DEF StopWrites
    <2>2. \A p \in Pid : procs'[p] # "chromium"
      BY <1>6, <2>1 DEF StopWrites
    <2> QED
      BY <2>2
  <1>7. ASSUME NEW c \in DaemonCmd, DaemonKill(c)
        PROVE  Known'
    <2>1. ~daemonRaced /\ daemonCmd[c].pc # "poll"
      BY <1>7 DEF DaemonKill
    <2> QED
      BY <1>7, <2>1 DEF DaemonKill, DaemonIdle
  <1>8. ASSUME NEW p \in Pid, Listen(p) \/ Ends(p) \/ OtherProgram(p)
        PROVE  Known'
    <2>1. ~daemonRaced /\ UNCHANGED <<stateFile, daemonCmd>>
      BY <1>8 DEF Listen, Ends, OtherProgram
    <2>2. \A q \in Pid : procs'[q] = "chromium" => procs[q] = "chromium"
      BY <1>8 DEF Listen, Ends, OtherProgram
    <2> QED
      BY <2>1, <2>2
  <1>9. CASE UNCHANGED daemonVars
    BY <1>9 DEF daemonVars
  <1> QED
    BY <1>1, <1>2, <1>3, <1>4, <1>5, <1>6, <1>7, <1>8, <1>9 DEF DaemonNext

LEMMA EndpointStep == DaemonInv /\ [DaemonNext]_daemonVars => OwnEndpoint'
  <1> SUFFICES ASSUME DaemonInv, [DaemonNext]_daemonVars, ~daemonRaced', ~portShared'
               PROVE  OwnEndpoint'
    BY DEF OwnEndpoint
  <1> USE DEF OwnEndpoint, DaemonInv, DaemonTypeOK, Chromium
  <1>1. ASSUME NEW c \in DaemonCmd, StartChecks(c) \/ DaemonKill(c)
        PROVE  OwnEndpoint'
    BY <1>1 DEF StartChecks, DaemonKill, DaemonIdle
  <1>2. ASSUME NEW c \in DaemonCmd, Spawn(c)
        PROVE  OwnEndpoint'
    <2>1. ~daemonRaced /\ ~portShared /\ Chromium = {}
      BY <1>2 DEF Spawn
    <2>2. PICK p \in Pid : /\ procs' = [procs EXCEPT ![p] = "chromium"]
                           /\ daemonCmd' = [daemonCmd EXCEPT ![c] = [pc |-> "poll", pid |-> p]]
      BY <1>2 DEF Spawn
    <2>3. \A q \in Chromium' : q = p
      BY <2>1, <2>2
    <2>4. \A d \in DaemonCmd \ {c} : daemonCmd'[d].pc = "idle"
      BY <1>2, <2>1, <2>2 DEF Spawn, Alone
    <2>5. daemonCmd'[c] = [pc |-> "poll", pid |-> p] /\ stateFile' = stateFile
      BY <1>2, <2>2 DEF Spawn
    <2> QED
      BY <2>1, <2>3, <2>4, <2>5
  <1>3. ASSUME NEW c \in DaemonCmd, SpawnFails(c) \/ StopWrites(c)
        PROVE  OwnEndpoint'
    BY <1>3 DEF SpawnFails, StopWrites, DaemonIdle, StateOf
  <1>4. ASSUME NEW c \in DaemonCmd, StartWrites(c)
        PROVE  OwnEndpoint'
    <2>1. ~daemonRaced /\ ~portShared /\ daemonCmd[c].pc = "poll"
      BY <1>4 DEF StartWrites
    <2>2. port \in {0, daemonCmd[c].pid}
      BY <2>1 DEF PortIsChromiums
    <2>3. stateFile'.endpoint \in {0, stateFile'.pid}
      BY <1>4, <2>2 DEF StartWrites, StateOf
    <2>4. \A d \in DaemonCmd : daemonCmd'[d].pc = "idle"
      BY <1>4, <2>1 DEF StartWrites, Alone, DaemonIdle
    <2> QED
      BY <2>3, <2>4
  <1>5. ASSUME NEW c \in DaemonCmd, StopSignals(c)
        PROVE  OwnEndpoint'
    <2>1. ~daemonRaced /\ ~portShared /\ stateFile' = stateFile
      BY <1>5 DEF StopSignals
    <2>2. \A d \in DaemonCmd : daemonCmd'[d].pc # "poll"
      BY <1>5 DEF StopSignals
    <2> QED
      BY <2>1, <2>2
  <1>6. ASSUME NEW p \in Pid, Listen(p) \/ Ends(p) \/ OtherProgram(p)
        PROVE  OwnEndpoint'
    BY <1>6 DEF Listen, Ends, OtherProgram
  <1>7. CASE UNCHANGED daemonVars
    BY <1>7 DEF daemonVars
  <1> QED
    BY <1>1, <1>2, <1>3, <1>4, <1>5, <1>6, <1>7 DEF DaemonNext

(* No Chromium is lost: for any commands and pids, as long as no start overlaps *)
(* a command or is killed between spawn and write, the file or a running start  *)
(* names every Chromium that was not told to end, and the recorded endpoint is  *)
(* that Chromium's, unless it shared the port with an older one.                *)
THEOREM ChromiumIsKnown == DaemonSpec => []NoChromiumIsLost
  <1>1. DaemonInv /\ [DaemonNext]_daemonVars => DaemonInv'
    BY DaemonTypeStep, PortStep, AloneStep, KnownStep, EndpointStep DEF DaemonInv
  <1>2. DaemonInv => NoChromiumIsLost
    BY DEF DaemonInv, Known, OwnEndpoint, NoChromiumIsLost, Phase, IsPidAlive
  <1> QED
    BY DaemonInvInit, <1>1, <1>2, PTL DEF DaemonSpec
=============================================================================
