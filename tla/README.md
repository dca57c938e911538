# Formal models of Loom

Loom is a workflow toolkit for coding agents: prompts (agents, commands,
protocols, skills) and the TypeScript programs they run. This directory holds
TLA+ specifications of the programs that keep state in files several actors
share, the TLC configurations that check them, and TLAPS proofs. Everything is
translated from the TypeScript, not from the prompts or the documents.

    tlc -workers 2 -config Lock.cfg MC_ConvergeLock      # check one model
    tlapm MachineProofs.tla                              # check the proofs of one module

`PROJECT.json` lists the runs, the mutants that show every property can fail,
the source lines of each definition, findings, hazards and theorems.

## 1. The system

Loom has no server. A command is a short-lived process; components interact
through files they read, replace (`tmp` + `rename`) and sometimes lock. The
hard behaviours are therefore those of files: two processes between a read and
a write, a process killed between two writes, and a person who edits meanwhile.

| Component | State it keeps | Operations | What makes it correct |
|---|---|---|---|
| roadmap-converge lock (`scripts/roadmap-converge/lock.ts`) | `{slug}.lock`: pid, start time | acquire (with stale window, `--force`), release | one pass at a time; a crashed pass blocks no longer than the window; acquire always answers |
| roadmap-converge loop (`driver.ts`, `integrator.ts`, `stall-detector.ts`, `sign-off.ts`, `state-io.ts`, `content-hash.ts`) | `state.toon`: round, dimensions, questions, content hash, sign-off; `ROADMAP.md` | a pass (review, merge, integrate, judge), sign-off, the user's edits and answers | sign-off only of a converged roadmap, final; answers are kept and applied once; passes end |
| loom-change (`scripts/loom-change/*.ts`, `hooks/lib/change-state.ts`) | `proposal.md`, a ChangeState with an append-only log per change; contract pages and their `.bak` | init, review, approve, run, reject, archive, quick-archive | pages change all or none; archived means on the pages; legal, logged status moves; no unreviewed text is replaced |
| browser exec lock (`acquireLock` in `scripts/lib/browser-client.ts`) | `exec.lock`: pid | acquire with a deadline, reclaim of a dead holder's lock, release | WRITE and META commands exclude each other; a dead holder blocks nobody; acquire always returns |
| browser daemon (`loom-browser-daemon.ts`) | `state.toon`: pid, port, endpoint | start, stop, status; exec hands over to the client | no Chromium is lost; the endpoint is the recorded Chromium's |
| installation (`loom-update.ts`, `lib/update/`, `lib/first-run.ts`, `lib/install-state.ts`) | `install.toon`: version, pin, in-progress marker; an upgrade snapshot | apply, `--pin`, resume, rollback, session start | files of two versions are never on disk unannounced; a marker ends only when an update it announced is through, or as "failed" |
| hook settings (`register-loom-hooks.ts`, `lib/migration-runner.ts`, `lib/ownership-evidence.ts`, `lib/tier-resolution.ts`) | two settings files, a log of hashes | register, `--replace`, reconcile, the migration of every session start, reset-evidence | nothing someone else changed is rewritten before that is on record; registration keeps to one file |
| version slots (`loom-version-slot.ts`) | `~/.loom/version-slots.toon` | scan, next, reserve, release | a reserved version stays claimed and has one claimant per directory name |
| worktree leases (`loom-worktree-scan.ts`) | a lease file per repository | scan, preflight, release | a scan repairs what it lists; a lease lives only for a worktree a scan met |
| iteration snapshots (`hooks/lib/iteration-snapshot.ts`) | `<slug>-pass-<n>.<ext>` and its metadata | write, verify, retry once | a snapshot that was reported stays |
| triage (`scripts/triage/`) | inbox entries with their transitions | the transition table, the 30-day sweep | the log is the entry's history; timeouts only after thirty days |
| wiki commit ledger (`hooks/wiki-commit-ledger.ts`) | `ledger.toon`, a cache of page references | one row per commit | no impact of a page that can be read is forgotten; one row per commit |
| review harnesses, other hooks, installers, migrators, TOON core, generators | findings files, small counters | one-shot | see the notes in `PROJECT.json` |

Interactions. The converge driver takes the lock around a whole pass; the
sign-off program takes no lock and shares `state.toon` with it; the user and
agents write both `ROADMAP.md` and the answers in `state.toon` between, or
during, passes. loom-change commands share proposals, ChangeStates and pages
with each other, without any lock; the only guards are the status check at the
start of a command and the monotonic `updatedAt` in `writeChangeState`.
The remaining components share no file with each other. Each of them meets
only itself, in another session or worktree, and the world it keeps a record
of: people who edit settings, git, Chromium and the operating system, the
marketplace, the wiki agents.

## 2. Modules

| Module | What it is |
|---|---|
| `PassMutex` | abstract: the set of processes inside, never two |
| `ConvergeLock` | the lock file, one action per observable system call |
| `ConvergeLockProofs` | theorems about it |
| `SignOffProtocol` | abstract: not-eligible, eligible, signed-off |
| `RoadmapConverge` | the pass, the integrator, the halts, sign-off, the user |
| `RoadmapConvergeProofs` | theorems about it |
| `ChangeLifecycle` | abstract: the graph of a change's status as the commands make it, and the documented table to compare |
| `LoomChange` | the commands on changes and pages, one action per file write |
| `LoomChangeProofs` | theorems about it |
| `ExecLock` | the browser's lock file, one action per observable system call |
| `ExecLockProofs` | theorems about it |
| `InstallUpdate` | update, resume, rollback and session starts over `install.toon` and the files |
| `HookSettings` | the settings files, registration, the migration and its evidence |
| `VersionSlots` | the registry of versions, and the worktrees that use it |
| `WorktreeLeases` | scans and releases of leases |
| `BrowserDaemon` | start and stop of Chromium, pids and the port |
| `IterationSnapshots` | the two files of a pass, and their retry |
| `Triage` | inbox entries, the transition table and the sweep |
| `WikiLedger` | commits, the hook, its cache and the ledger |
| `InstallProofs` | theorems about `InstallUpdate` and `VersionSlots` |
| `HookProofs` | theorems about `WikiLedger` and `HookSettings` |
| `WorktreeProofs` | theorems about `WorktreeLeases`, `Triage`, `IterationSnapshots` and `BrowserDaemon` |
| `MC_Machine` | these eight components side by side |
| `MachineProofs` | theorems about the eight together |
| `MC_*` | symmetry sets and the drafts authors write, for TLC |

`RoadmapConverge` assumes what `PassMutex` promises (at most one pass) and
`ConvergeLock` implements it up to the first disturbance, so the two compose at
that interface instead of in one large state space.

### ConvergeLock

`Start` freezes "now" and takes `opts.force`; `Link` is `linkSync` (success or
EEXIST); `Inspect` is `readLockFile` with the stale decision; `Clear` is the
rename of the path to a private name; `Release` is the unlink in the driver's
`finally`; `Crash` kills a process anywhere; `Tick` advances the clock, but not
beyond `MaxPass` for a live process. Because a lock's body is written before it
is linked, a lock file is identified with its writer. The rename and the unlink
act on whatever is at the path by then: that is the point of the model.
`disturbed` is a history variable: a caller forced, or started while another
was inside `acquireLock`.

### ExecLock

`Open` is the exclusive `openSync`, `Write` the later `writeSync` of the pid
through the descriptor (`WriteFails` when it throws), `Read` and `Probe` are
`readLockHolder` and `isPidAlive`, `Reclaim` the unlink of a lock whose holder
was found dead, `Check` the deadline or the sleep, `Release` the `finally`. A
process runs several commands and then exits or is killed; its pid may come
back as a stranger's (`Reuse`). `named` says whether the pid is in the file
yet. `misfired` is a history variable: a `Reclaim` unlinked a newer lock than
the one whose pid it had read.

### RoadmapConverge

A pass is `Begin` (read, hash), `Publish` (reviewers' outcomes merged, state
written), `Integrate` and `Rehash` (roadmap written, then the state), and one of
`HaltStalled`, `HaltAtCap`, `Complete`, `IntegratorFails`; `Crash` may end it
anywhere. `EditRoadmap`, `Answer` and `Retire` are the user. `Ask`, `Consent`,
`Decline` are `runSignOff` around its prompt. A reviewer may give any status,
with or without a question, or fail. `Quiet` says whether users act only while
nothing runs; the properties that hold need it, the sign-off race does not.

### LoomChange

A command starts with what it reads (`BeginInit`, `BeginReview`, `BeginApprove`,
`BeginRun`, `BeginReject`, `BeginQuick`, `BeginArchive`; the middle four share
`BeginMove`), keeps that in its `session`, and then writes: `WriteProposal`,
`WriteState` (with the check in `writeChangeState`), and for an archive
`Backup`, one `Commit` per page, `CommitFails`, `Scan`, `Supersede`,
`SupersedeProposal`, `RemoveBackups`, or `RecordConflicts`. `Edit` is the author
who fills in the deltas, `Crash` kills a command between two writes. The restore
of `CommitFails` is best effort, as in the code: any of the backups may fail to
be copied. History: `killed` (archives that were killed) and `unrestored`
(changes of which a committed page was not put back). Which of the two files a
command goes by, and which status moves it makes, are the code's; where the
documents say otherwise, a configuration shows it (`Change_proposal_loses`,
`Change_undocumented`, `Change_superseded_open`, see section 3).

### InstallUpdate

A process is one `/loom-update` or one session start. Every helper that edits
the envelope is two steps, `Read` and `Write` of the whole file (`Edits` says
what each of them changes), with others free to act between. The installers
are `Place` (one file at a time), `Fallback` to the other channel, `Placed0`
(exit code 0), `PlaceFails`, and `NothingFetched`, the exit code 0 of a `curl |
bash` whose curl got nothing. `Placed` is the version the installer places: the
plugin manager's latest, whatever was asked for. A restore is `Rollback`
(everything staged and checked) and then one `Rename` per file, or `RenameFails`.
`CommandKilled` ends a process anywhere; `Release` changes the manifest.
History: `raced` (updates overlapped, or an edit of the envelope was lost) and
`halfRestored` (a restore stopped between two renames, or an update over torn
files exited with 0 without a script).

### HookSettings

The migration is `Start`, `Look` (read the file and its latest record: skip,
refuse or migrate), `WriteFile`, then the two halves of an append, `AppendRead`
and `AppendWrite`, then the next file (`NextFile`) and, at the end, the
`Notice`, which speaks of the last file only; `Kill` anywhere. `Register` and
`Reconcile` are the commands a person types, one step each; `ResetEvidence` and
`EditByHand` the rest. A hash is the content it was taken of. History: `known`
(contents that the log has vouched for since the last reset), `silent` (files
whose refusal is on record but was told to nobody), `stale` (a write from an
outdated read), `chosen` (a person picked a settings file).

### VersionSlots, WorktreeLeases

Both are read, compute, write without a lock. `SlotRead`, `SlotRefresh` and
`Reserve` or `ReleaseSlot` are the three places of a slot command: `reserve`
writes twice, both times from what it read first. `Key` is the name of the
worktree's directory, as in the code, so the model has worktrees of one
repository under two names and of two repositories under one. `SlotWorld` is
git: worktrees removed, detached, branches deleted, manifests bumped. A scan of
leases is `ScanStarts`, one `ScanSibling` per worktree it lists (`MergeLease`),
and `ScanWrites`; `Listed` is what `enumerateSiblings` lists, the worktrees next
to the scanning one and in its pools, so that one may list another that does not
list it, or be listed by none; `ReleaseStarts` and `ReleaseWrites` are a release,
`CheckoutChanges` and `NextDay` the world. `slotStale` and `leaseStale` say
that a file out of date was written back; `granted` is what users were told.

### BrowserDaemon

`StartChecks` (is the recorded pid alive), `Spawn`, the poll of the port, and
`StartWrites`; `StopSignals` and `StopWrites`. `Listen`, `Ends` and
`OtherProgram` are Chromium and the system: the first Chromium that listens
keeps the fixed port, and a pid may come back as something else. `daemonRaced`:
a start overlapped a command or was killed after its spawn; `portShared`: a
Chromium was started while another one still ran.

### IterationSnapshots, Triage, WikiLedger

`SnapBegins` is the collision guard, `SnapCopies` and `SnapDescribes` the two
writes, `SnapReturns` the verification, `SnapThrows` and `SnapRetries` the
failure and the second attempt, which removes both files first. `snapRaced`:
two calls worked on one slug and pass.

`Move` is one transition with every refusal of the table. The sweep is
`SweepBegins` (which takes its time), `SweepReads` and `SweepWrites` per entry;
what it reads of a reason ends at the first comma (`Reparsed`). `sweepRaced`:
an entry moved between its read and its write.

The wiki hook is `HookHead`, `HookFiles`, `HookStat`, `HookMap` (cache or
pages), `HookRead` and `HookWrite`, one for each thing that may change under it.
Reads fail as in the code: any page may be unreadable and is left out of the map
(`Built`), which is cached all the same, the cache itself may be unreadable or
not written, and of the ledger any prefix may be what is read. Wiki agents write
a page (`PageWritten`), the index later (`IndexWritten`), and settle rows
(`Reconciled`). History: `missed` (pages the cached map was built without),
`owed` (commits dealt with since rows were last replaced unread), `hooksRaced`
(another session committed, ran its hook or reconciled meanwhile).

### What the history variables are for

These eight programs lock nothing, so none of their promises holds under every
interleaving. Each history variable names one disturbance, as narrowly as the
counterexamples of TLC allow, and the property holds up to it. Reading a
property's premise is therefore reading the list of things that break it, and a
property says nothing about the hazard its own history variable stands for.
These are: forced or overlapping acquires (`disturbed`, lock), a misdirected
unlink (`misfired`, exec lock), a restore that stops between two renames
(`halfRestored`), overlapping starts of the daemon (`daemonRaced`,
`portShared`), two calls on one snapshot (`snapRaced`), a transition under the
sweep (`sweepRaced`), and writes of what is out of date (`raced`, `stale`,
`slotStale`, `leaseStale`, `hooksRaced`). Several of them have a violation run,
or a configuration beyond the runs, that shows what happens then.

## 3. Runs

| Run | Shows | Bounds |
|---|---|---|
| `lock` | types, no orphan lock, sound stale judgement, ownership, two attempts suffice, acquire returns, a crashed lock is taken over, refinement of `PassMutex` | 3 processes, ticks 0..2, window 1 |
| `lock_race` | violation: two unforced passes at once | same, symmetric |
| `converge` | eligibility is the truth after a completed pass; blocks have answers; own edits do not invalidate; answers are kept; nothing for retired dimensions; passes end; refinement of `SignOffProtocol` | 2 dimensions (one without a heading, not always evaluated), 2 passes, 1 edit |
| `converge_stale_eligible` | violation: sign-off of a roadmap that is no longer converged | 1 dimension, 3 passes |
| `converge_signoff_lost` | violation: a running pass overwrites a sign-off | same, users act at any time |
| `converge_reapplied` | violation: an answer is inserted again by the next pass | same |
| `exec_lock` | types, a holder owns the file, no orphan lock, acquire returns, a dead holder is reclaimed, refinement of `PassMutex` | 3 processes, no other bound |
| `exec_lock_race` | violation: two commands hold the lock | same, symmetric |
| `change` | all or none, archived is on its pages, replaced text is the reviewed text, the log is kept, refinement of `ChangeLifecycle` | 2 changes, 2 domains, 5 commands, one at a time, crashes and failing restores anywhere |
| `change_lost_update` | violation: two archives at once lose an archived change | 2 sessions, 2 commands |
| `machine` | what the eight components without a lock still promise: `TornIsMarked`, `MarkerProtocol`, `RecordedBeforeRewrite`, `OneTier`, `ReservedMeansClaimed`, `LeasesFollowWorktrees`, `NoChromiumIsLost`, `SnapshotsAreKept`, `TransitionsAreHistory`, `LedgerIsHonest`, and all types | see below |
| `change_illegal` | violation: two commands on one change make an illegal transition | 2 sessions, 1 change, 5 commands |

### Counterexamples beyond the runs

The other disagreements that came up have a property that does not hold (its
comment begins "Does not hold" or quotes the document) and a configuration with
which TLC finds the counterexample. They are not among the runs of
`PROJECT.json`; those of loom-change go with `MC_LoomChange`, the others with
`MC_Machine`, each for one component:

    tlc -workers 2 -config Change_half_restored.cfg MC_LoomChange
    tlc -workers 2 -config Slots_same_version.cfg MC_Machine

| Configuration | Property | What happens |
|---|---|---|
| `Change_half_restored` | `AtomicCommit` | an archive nobody killed leaves one page changed and one not |
| `Change_proposal_loses` | `ProposalWins` | a command sets `proposal.md` back from archived |
| `Change_undocumented` | `TransitionsAreLegal` | a revival is in the log, which the documented table does not have |
| `Change_superseded_open` | `SupersededWasArchived` | an open change is superseded |
| `Update_wrong_version` | `RecordedIsInstalled` | a pinned or resumed plugin update records a version that is not on disk |
| `Update_nothing_fetched` | `ClearedOnSuccess` | an update whose script never arrived takes the marker off torn files |
| `Hooks_silent_refusal` | `ToldBeforeRewrite` | a migration rewrites a file whose refusal nobody was told of |
| `Hooks_tier_migrated` | `PreservesTier` | registering adds entries to a second file, so that a hook runs twice |
| `Slots_same_version` | `UniqueInRepository` | two worktrees of one repository reserve one version |
| `Slots_granted_twice` | `GrantedOnce` | two overlapping reserves of one version both succeed |
| `Slots_other_repository` | `ExpiresWithBranch` | another repository's command drops a reservation |
| `Leases_row_lost` | `RowsAreKept` | a scan drops the row another one wrote |
| `Leases_renewed` | `LivesFromFirstScan` | a lease lives from the last scan, not from the first |
| `Ledger_page_missed` | `CacheStandsForPages` | a cache of the present index lacks a page |
| `Ledger_rows_lost` | `OnlyTheOldestGo` | a ledger that cannot be read loses its rows |

Why the bounds are enough. The lock protocol's known failures need a holder, a
clearer and a newcomer: three processes; a window of one tick with a clock of
two already separates fresh, exactly at the window, and stale. Two passes are
the shortest history in which an open question is replaced, an answer applied
and a stall seen; the second dimension is there so that a list of evaluated
dimensions can leave one out. Five commands take one change through init,
review, approve, run and archive, or one through rejection and revival, or a
quick-archived one beside another in any state. `MaxClock`, `MaxRound` and
`MaxEdits` occur only in guards. Deadlock is not checked: all three systems
stop when their users stop, and the bounds end them too.

`machine` explores the eight components one after the other: the constant
variable `part` picks one, the others stand still, and since they share no
state the run's states are the sum, not the product, of theirs. Two processes
per component are what a race takes, and the two are the same model values in
every component, so that one permutation is a symmetry of all. In detail:

- installation: 2 versions, one of them released on the way, 2 files, 4
  commands (an update killed, resumed, killed again, rolled back); the snapshot,
  if any, is of the older version;
- hook settings: 1 hook, 3 migrations and 2 edits or commands (refuse, reset,
  migrate again); of the first states only the project file may have entries;
- slots: 4 worktrees, three of one repository, two of them of one name, which is
  also that of the other repository's; 1 version, 4 commands or events of git;
- leases: 2 checkouts, one of which lists the other but not the other way round,
  time to live 1 day, 3 days, 4 commands or events, so a
  lease is met exactly at its last day and after it;
- daemon: 3 pids (old, new, a stranger's), 5 commands or events;
- snapshots: 3 subjects, two of one slug and one that is a `.toon` file itself,
  one pass, 4 calls, 1 edit;
- triage: 1 entry (the sweep treats each alone), thirty days shrunk to 2 of 4,
  3 transitions;
- wiki: 1 page, 1 source, 3 commits, a ledger of 2 rows instead of 500, 2 writes
  of agents.

`Claims` cuts a behaviour at the disturbance after which its properties say
nothing (`sweepRaced`, `leaseStale` and `hooksRaced` are not cut: part of those
properties holds beyond them), and lets the last of the three migrations run
alone. Deadlock is off: commands end, and bounds end the world.

The exec lock needs no bound besides the processes; its race takes three.

Fairness. `ConvergeLock` and `ExecLock` have weak fairness of a process's own
next step and `RoadmapConverge` of the pass's: a running Node process executes
its next statement unless it is killed (the crash is a separate, unfair action).
Nobody is obliged to start a pass, answer, or consent. In `ExecLock` time passes
too (`Expire`). A reviewer that never answers counts as a crash; `PassEnds` says
nothing about it. No liveness is claimed for loom-change and the components of
`machine`, whose commands have no loops and wait for nothing; the one that does
wait, a start of the daemon, gives up after eight seconds by its own deadline.

## 4. What the runs found

The first seven have a run and a finding in `PROJECT.json`; each of the others
has one of the configurations of "Counterexamples beyond the runs".

- `lock.ts:113`: a lock that vanishes before it is read has age Infinity, and
  the rename then removes a lock acquired meanwhile; two clearers of one stale
  lock do the same. "Safe against concurrent callers" does not hold.
- `driver.ts:493,503`: the two halts return before the eligibility transition,
  so `eligible` survives the loss of convergence.
- `driver.ts:410`: a pass that read the state before a sign-off overwrites it.
- `driver.ts:421`: every resolved question is integrated again by every pass.
- `browser-client.ts:597`: the unlink of a stale lock hits a newer one; it needs
  no crash, since the holder whose pid was read may release and exit.
- `archive.ts:390`: overlapping archives overwrite or restore each other's pages.
- `change-state.ts:159`: the monotonic `updatedAt` does not stop a command that
  read an old state but started later; transitions are forgotten.
- `archive.ts:391`: the restore of a failing archive goes on when a copy fails,
  so a change may stay on one page of two without anybody being killed.
- `reject.ts:101` and the other status commands go by the ChangeState, although
  `proposal.md` is documented to win: a kill between the two files is undone.
- `init.ts:166` revives rejected changes, which the documented table does not
  allow; `archive.ts:610` supersedes open changes, the table archived ones.
- `apply.ts:151`: the plugin channel installs its latest and records the version
  that was pinned or resumed; `apply.ts:196`: `curl | bash` succeeds when curl
  fetched nothing, and the marker of a torn installation goes.
- `migration-runner.ts:126`: only the last settings file's outcome is reported,
  so a refusal may be silent and the next session rewrites the file.
- `register-loom-hooks.ts:354`: entries the migration anchored are not seen, and
  the same hooks are registered in the other file as well.
- `loom-version-slot.ts:77`: the key is the name of the worktree's directory;
  `:400`: reserves overlap; `:304`: rows of other repositories are dropped.
- `loom-worktree-scan.ts:446`: a scan drops rows written meanwhile; `:297`: every
  scan starts a lease's days anew.
- `wiki-commit-ledger.ts:131,244`: a page, or the ledger, that cannot be read
  counts as absent, and what was made of that is kept.

Seen while reading, without a run of their own: consent is recorded although
eligibility was revoked while the prompt was open (`sign-off.ts:202`); the
signed hash is not that of the diff shown (`sign-off.ts:196`); an edit made
during a pass is covered by the hash the integrator leaves (`driver.ts:461`);
one answered question disables the stall check for good (`driver.ts:414`); a
failed reviewer drops its dimension's open questions (`driver.ts:319`); a forced
acquire can still be refused (`lock.ts:167`); driver and sign-off share one
`.tmp` name (`state-io.ts:135`). In the browser client: a READ takes no lock and
may run beside a META, which `protocols/browser-command.schema.md:41` excludes;
a lock whose pid was never written, or is in use again, is not reclaimed, and
every later command runs into its deadline. In loom-change: an archive that is
killed between pages and run again adds its requirements twice; an `approved`
change cannot be rejected; the supersession scan can only find a peer that
appeared after the conflict scan, which stops on every overlap it sees.

In the components of `machine`, where every promise comes with its premise, the
premises are the findings. Also seen, by component:

- Installation: a resume records its target as a pin nobody asked for
  (`resume.ts:53`); the next apply writes over "failed"; rollback leaves
  `install.toon` as it was, and one that fails between two renames leaves two
  versions without a mark (`rollback.ts:302`); the curl URL names a
  `scripts/install.sh` that the repository does not have, and the `install.sh`
  at its root fetches from the branch main whatever tag it is given.
- Hook settings: a refusal records the hash it refused, so the guard refuses a
  change once and the next session rewrites it, although
  `protocols/migration-runner.schema.md:69` calls it absolute; a kill between
  the file and the log has the same effect as an edit; register and reconcile
  log nothing and do not recognise each other's or the migration's entries.
- Slots: two repositories with worktrees of one name share their reservations; a
  reservation on a detached HEAD is gone at the next refresh; open or merged pull
  requests never decide.
- Leases: a released lease of a worktree that exists is active again after the
  next scan; a worktree that lies elsewhere has a lease only by its own scans;
  detached checkouts share one row.
- Daemon: stop does not wait for Chromium, so stop and start may record the old
  one's endpoint (`loom-browser-daemon.ts:249`); it may signal a pid that is
  another program's by now; a start that is killed orphans its Chromium.
- Snapshots: the copy and the metadata of a `.toon` subject have one name, so
  such a snapshot always fails; a crash leaves files that block the pass.
- Triage: the sweep drops frontmatter it does not know and cuts reasons at the
  first comma.
- Wiki: of several commits in one Bash call only HEAD gets a row; merges have
  no files and count as n/a; HEAD is read twice; the ledger's cap also drops
  rows of debt.

## 5. Proofs

Every safety invariant, action property and refinement that a passing run
checks is a theorem, for every value of the constants that the assumptions
allow. What each theorem rests on is an inductive invariant: the property
itself says nothing of a program between two of its steps, so the invariant
says what each command remembers at each place and how that relates to the
files. There is one lemma per action, and the temporal step is the same
everywhere: the initial states satisfy the invariant, every step keeps it, it
implies the property.

### Locks

`ConvergeLockProofs`, for every set of processes, window and length of pass:

| Theorem | Statement |
|---|---|
| `TypeCorrect` | `Spec => []TypeOK` |
| `OrphanFree` | `Spec => []NoOrphanLock` |
| `StaleSound` | `MaxPass <= StaleAfter` implies `Spec => []StaleMeansOver` |
| `Ownership` | the same, `[]PassOwnsLock` |
| `LoopReturns` | the same, `[]AttemptsSuffice` |
| `LockImplementsMutex` | the same, `Spec => ImplementsMutex` |

`TypeOK` needs the counter bound `CountOK` (a process that still decides has an
attempt left). `StaleMeansOver` is not inductive: it needs that start times lie
in the past, that a live process is at most `MaxPass` old, and that whoever is
about to clear a stale lock started more than the window after its holder
(`JudgeInv`); then a live holder would be older than a pass can be. Ownership
and the attempts are proved together: until the first disturbance at most one
process is inside `acquireLock`, a clearer is looking at a path that is stale
or empty, and after one clear the path is empty, so its second attempt
succeeds. The premise on `MaxPass` is not enforced by the code; it is the
assumption that a pass ends within ten minutes, which the stale window makes.
Mutual exclusion beyond the first overlap is not proved because it is false
(`lock_race`).

`ExecLockProofs`, for every set of processes: `TypeCorrect`, `OrphanFree`
(`[]NoOrphanLock`), `Ownership` (`[]HolderOwnsLock`) and `ExecImplementsMutex`
(`Spec => ImplementsMutex`). `NoOrphanLock` is inductive with the types.
`HolderOwnsLock` needs one more fact: whoever is about to be reclaimed runs no
more (`JudgedIsDead`), and processes do not come back, so an unlink of the lock
that was judged takes it from nobody.

### The converge loop

`RoadmapConvergeProofs`, for any dimensions, headings, lists of dimensions, pass
limits, verdicts, and any number of passes and edits:

| Theorem | Statement |
|---|---|
| `ConvergeTypeCorrect` | `Spec => []TypeOK` |
| `EligibleIsTrue` | `Spec => []EligibleMeansConverged` |
| `BlocksAreRecorded` | if `Quiet`, `Spec => []NotesAreAnswered` |
| `HashCoversOwnEdits` | if `Quiet`, `Spec => []OwnEditsDontInvalidate` |
| `AnswersSurvive` | if `Quiet`, `Spec => AnswersAreKept` |
| `RetiredGetNoBlocks` | if `Quiet`, `Spec => RetiredIsNotApplied` |
| `SignOffRefines` | if `Quiet`, `Spec => ImplementsProtocol` |

`Quiet` is the constant of the model: users act only while no pass runs. The
first two theorems do not need it; the other five are false without it. For the
last, `converge_signoff_lost` shows it. `NotesAreAnswered` and
`OwnEditsDontInvalidate` only break with three passes (set `MaxRound = 3` and
`Quiet = FALSE` in `Converge.cfg`, one dimension is enough): a sign-off that
waits while a pass integrates writes the older questions and hash back.
`EligibleInv` is the property with the fact that a pass that ended well left a
state. `QuietInv` ties the memory of a pass to the disk: after the review it
remembers the answers and the sign-off that are on disk; once it has published,
its memory is the disk; the hash it remembers has the blocks of the roadmap; a
prompt shows the state that is on disk; every block has a recorded answer. One
lemma (`QuietStep`) shows that a step keeps this, forgets no answer and moves
the sign-off only as `SignOffProtocol` does; the refinement and the action
properties follow.

### Changes

`LoomChangeProofs`, for any changes, domains, requirements and drafts:

| Theorem | Statement |
|---|---|
| `ChangeTypeCorrect` | `Spec => []TypeOK`, commands may overlap |
| `ArchivedStaysOnPages` | if `Alone`, `Spec => []ArchivedIsOnPages` |
| `CommitsAllOrNone` | if `Alone`, `Spec => []AllOrNone` |
| `TransitionsAreKept` | if `Alone`, `Spec => LogIsKept` |
| `ReplacesOnlyReviewed` | if `Alone`, `Spec => ReplacesWhatWasReviewed` |
| `ChangeKeepsToLifecycle` | if `Alone`, `Spec => ImplementsLifecycle` |
| `EdgesAgainstTable` | the graph's edges and the documented ones differ in exactly four kinds |

`Alone` says that `Session` has one member: one command at a time, as in the run
`change`, though any may be killed between two writes. `change_lost_update` and
`change_illegal` show that it cannot be dropped. Types need `Memory`, what a
command must have read to be where it is (an archive has a state, its pages to
do are among those it saw). `CommitsAllOrNone` excepts two things, by its
history: archives that were killed (`killed`), and those that failed and could
not copy back a page they had written (`unrestored`), since `archive.ts:388`
swallows that; it is not a promise that failing archives leave nothing.
`ChangeKeepsToLifecycle` is about the code's graph, and `EdgesAgainstTable` says
how that differs from `change-proposal.schema.md`: the revival, the entry of
quick changes and the supersession of open ones are the code's alone, the
supersession of archived ones the table's. `AloneInv` says that what a command
remembers is what is there: the ChangeState it read is the one on disk
(`ContinuesState`); of the pages of an archive those still to do are as it saw
them, the others have its change at their end, and the backup holds what all of
them were (`ContinuesPages`); the peers it will supersede have not moved
(`ContinuesPeers`). `LandedInv` adds that a change found on a page is archived,
being archived, or one of the two exceptions. `Min`, `Max` and the bump of a
version are chosen numbers; that they exist is proved from the well-foundedness
of the naturals.

### The parts of the machine

Each property holds up to the disturbance its history variable names, which is
part of the property and not of the theorem; none of the theorems below has a
hypothesis. The constants are unrestricted but for their types, and for this:
releases are positive numbers with a largest one, and so are worktrees (their
number is finite).

| Module | Theorem | Statement |
|---|---|---|
| `InstallProofs` | `InstallTypeCorrect` | `InstallSpec => []InstallTypeOK` |
| | `InstallTornIsMarked` | `InstallSpec => []TornIsMarked` |
| | `InstallMarkerProtocol` | `InstallSpec => MarkerProtocol` |
| | `SlotTypeCorrect` | `SlotSpec => []SlotTypeOK` |
| | `SlotReservation` | `SlotSpec => []ReservedMeansClaimed` |
| `HookProofs` | `WikiTypeCorrect` | `WikiSpec => []WikiTypeOK` |
| | `WikiLedgerHonest` | `WikiSpec => []LedgerIsHonest` |
| | `HookTypeCorrect` | `HookSpec => []HookTypeOK` |
| | `RegisteredOnce` | `HookSpec => []OneTier` |
| | `GuardHolds` | `HookSpec => RecordedBeforeRewrite` |
| `WorktreeProofs` | `LeaseTypeCorrect` | `LeaseSpec => []LeaseTypeOK` |
| | `LeasesAreRepaired` | `LeaseSpec => LeasesFollowWorktrees` |
| | `TriageTypeCorrect` | `TriageSpec => []TriageTypeOK` |
| | `TriageHistory` | `TriageSpec => []TransitionsAreHistory` |
| | `SnapTypeCorrect` | `SnapSpec => []SnapTypeOK` |
| | `SnapshotsStay` | `SnapSpec => []SnapshotsAreKept` |
| | `DaemonTypeCorrect` | `DaemonSpec => []DaemonTypeOK` |
| | `ChromiumIsKnown` | `DaemonSpec => []NoChromiumIsLost` |
| `MachineProofs` | `PartsKeepToTheirSpecs` | `MachineSpec` implies the eight specifications |
| | `MachineTypeCorrect` | `MachineSpec => []MachineTypeOK` |
| | `MachineIsSafe` | `MachineSpec` implies all ten properties of the run |

Installation. `InstallInv` says what a process is entitled to at its place
(`Role`), and, until `raced`, that at most one process updates, and that one
which installs has its own marker on disk and knows which files it has replaced
(`Marks`): those are of one version, so that when none is left nothing is torn
and the marker may go. A process about to clear the marker has placed every file
of the version its installer fetched, which for the plugin channel is the
manager's latest and not the target (`Installed`), or has fetched nothing. A
restore counts as torn only from its first rename.

Slots. `reserve` decides on a registry in memory that is written back later. The
invariant says that a command about to reserve still finds the version free in
what it refreshed, and that a version someone was told is reserved is on disk
under the name of his worktree's directory, with his branch, which exists. The
name is all that is unique: two worktrees of one repository under two names may
have one version (`Slots_same_version`). A refresh then keeps it, because
the refresh drops a row only when no branch or worktree speaks for it.

Wiki. `CacheInv`: what stood since the index was written is in the pages, and in
a cache whose key is the index's time, but for the pages that could not be read
when it was built (`missed`); a hook that could not read a page itself drops it
from what it owes. `FoundSteady` carries this to a hook that has seen the time
but not yet the cache, over pages and caches written meanwhile. For the rows,
while hooks do not overlap, a running hook is the only one, its commit is newer
than all that were dealt with, and the rows it read are the ledger, or a part of
it, and then only the commits of that part and its own are owed from its write
on (`HookAlone`). That a row dropped by the cap was pushed out is counting: the
commits of a full ledger of newer rows are distinct.

Hook settings. `OneTier` is inductive with the types, from two lemmas: the
migration's rewrite keeps a file's registered entries, and it rewrites what it
read or is `stale`. It says that no entry is registered in a second file, and not
that no hook runs twice: entries the migration anchored are not seen
(`Hooks_tier_migrated`). `RecordedBeforeRewrite` is about a write whose guard was
evaluated steps earlier: `Deciding` (a migration about to write had not diverged
from the record it read, one about to log has a record) and `Vouched` (unless
`stale`, the record on disk refers to a content in `known`, and nothing is known
without a record) carry that decision to the write. Being on record is all it
promises: that a person was told does not follow (`Hooks_silent_refusal`).

Leases. `Tracks` relates what a scan has merged to what it read: a row is active
because it was or because the scan met its worktree, and expired only past its
day. `Scanned` says that the worktrees which stayed, were listed by the scan and
were met have their lease; what stands elsewhere gets none from it. Both speak
of the scan's memory, so other scans and releases do not disturb them;
`leaseStale` is what happens when the memory is written.

Triage. `Kept`: the state and the date of an entry are those of its last
transition, and every transition is one of the table's. The sweep remembers an
entry whose last transition is the one that made it due at the sweep's time, so
the timeout it appends is legal whatever the entry is by then; until
`sweepRaced` the length of the log is the number of transitions made.

Snapshots. The retry removes files without looking, so the invariant must
exclude that they are a reported snapshot: two calls never work on one slug and
pass (`CallsAlone`), and a call is under way only where nothing was kept
(`NothingKeptHere`), which the collision guard establishes because a kept
snapshot's files exist (`KeptThere`). `Described` says that the metadata is
written by the time a call verifies its copy.

Daemon. No command runs beside a start (`Alone`); every live Chromium is known
to the file or to the start that polls, and no start about to spawn or stop
about to clear the file overlooks one (`Known`); whoever listens on the port is
a Chromium (`PortIsChromiums`); and while no two ran at once the one that
answers a start is its own (`OwnEndpoint`).

The machine. A step of the machine is a step of one part and leaves the others
alone, so each part keeps to its own specification and the theorems about the
parts hold of the composition.

### Only model-checked

`AcquireReturns`, `CrashedLockIsTakenOver`, `DeadHolderIsReclaimed` and
`PassEnds`: liveness under fairness is beyond the prover, as is `ENABLED`. The
seven violations, and those of the configurations beyond the runs, are
counterexamples and need no proof.

## 6. Not modelled

Text: TOON and Markdown formats, rubrics, diffs, digests, reports. Reviewers and
agents are any outcome the driver accepts. In `RoadmapConverge` a reviewer asks
at most one question per pass, a hash is the content, and a write is atomic; the
shared `.tmp` name is therefore outside the model. In `LoomChange` a proposal
has one operation per domain, scenarios, migration notes and the wiki index are
left out, and the writes of several conflict entries or backups are one step.
The clock does not run backwards. The resolution blocks of a roadmap are a count
per question, since their order and text decide nothing, and a backup is a
function from the pages that have one.

In the other models: writing the upgrade snapshot belongs to the shell
installer; the migration of old envelopes is a conversion; `register-wiki-hooks`
and dry runs; reports of overlaps between leases; pull-request data, which
decides nothing; who acted in a transition; the text of ledger rows. A file
that is replaced atomically is replaced in one step, so the shared `.tmp` names
of two writers of one file are outside.

Not modelled at all, with the reason in `PROJECT.json`: the review harnesses
(they merge findings of one run and keep no state between runs), schema
migrators and TOON (conversions), installers, uninstall, doctor and release (one
sequential script each), filters of single tool calls among the hooks,
generators, evaluations and CI, and the prompts, whose statements are quoted
where a program is measured by them.

## 7. Plan

Done: both locks, the converge loop, loom-change and the eight components of
`machine`, each with its types, its safety properties and its refinement proved.
What is left:

1. Weaker premises for `LoomChange`: `Alone` forbids every overlap, but two
   commands on changes with no domain in common, neither of which can see the
   other as a peer, should leave `AllOrNone` and `ArchivedIsOnPages` intact. The
   invariant would be `ContinuesPages` per domain.
2. Weaker premises for `RoadmapConverge`: of what users may do during a pass,
   `AnswersAreKept` should only need that nobody answers or signs off, and
   `OwnEditsDontInvalidate` that nobody edits.
3. The remaining operators against a definition of their own: `Merge` keeps the
   names of questions, `Refreshed` is idempotent, `MergeLease` never loses a row.
4. The counters of the session hooks (budgets, checkpoints), if a property about
   them is worth a run.
