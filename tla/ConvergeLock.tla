---------------------------- MODULE ConvergeLock ----------------------------
(***************************************************************************)
(* The lock file that keeps two /loom-roadmap converge passes apart        *)
(* (scripts/roadmap-converge/lock.ts), one action per system call that     *)
(* other processes can observe: link, read, rename, unlink.                *)
(*                                                                         *)
(* Simplifications.                                                        *)
(*  - A process runs one pass.  A lock file is identified with the process *)
(*    that wrote it: its body is that process's pid and start time.        *)
(*  - Files with private names ({lock}.tmp.{pid}, {lock}.stale.{pid}) are  *)
(*    invisible to other processes and are left out; link writes the whole *)
(*    body at once, so an unparseable lock is never read.                  *)
(*  - Time is a count of ticks that does not run backwards.                *)
(***************************************************************************)
EXTENDS Integers

CONSTANTS
    Proc,           \* the driver processes
    NoLock,         \* no file at the lock path, or none when it was read
    StaleAfter,     \* STALE_AFTER_MS, in ticks
    MaxPass,        \* environment: a live pass is at most this old
    MaxClock        \* bound: the last tick

ASSUME LockAssumption ==
    /\ NoLock \notin Proc
    /\ StaleAfter \in Nat
    /\ MaxPass \in Nat
    /\ MaxClock \in Nat

VARIABLES
    clock,      \* the wall clock
    lock,       \* whose lock file is at the lock path, or NoLock
    pc,         \* where each process is
    startedAt,  \* the frozen "now" of each process
    force,      \* its opts.force
    attempt,    \* how many attempts it has used up
    seen,       \* what readLockFile last gave it
    disturbed   \* history: a caller forced, or came while another was acquiring

vars == <<clock, lock, pc, startedAt, force, attempt, seen, disturbed>>

OneAttempt == 1                          \* mutant: attempt < 1
Attempts == 2                            \* for (attempt = 0; attempt < 2; ...)
Deciding == {"link", "inspect", "clear"}  \* inside acquireLock
Step == Deciding \cup {"idle", "pass", "refused", "done", "dead"}

Acquiring(p) == pc[p] \in Deciding
Passing(p)   == pc[p] = "pass"
Alive(p)     == Acquiring(p) \/ Passing(p)

Init ==
    /\ clock = 0
    /\ lock = NoLock
    /\ pc = [p \in Proc |-> "idle"]
    /\ startedAt = [p \in Proc |-> 0]
    /\ force = [p \in Proc |-> FALSE]
    /\ attempt = [p \in Proc |-> 0]
    /\ seen = [p \in Proc |-> NoLock]
    /\ disturbed = FALSE

-----------------------------------------------------------------------------
(* runConvergePass takes its start time and calls acquireLock. *)
Start(p) ==
    /\ pc[p] = "idle"
    /\ pc' = [pc EXCEPT ![p] = "link"]
    /\ startedAt' = [startedAt EXCEPT ![p] = clock]
    /\ \E f \in BOOLEAN : force' = [force EXCEPT ![p] = f]
    /\ disturbed' = (disturbed \/ force'[p] \/ \E q \in Proc : Acquiring(q))
    /\ UNCHANGED <<clock, lock, attempt, seen>>

(* Mutant: the lock is written with writeFileSync or rename, not link. *)
LinkOver(p) ==
    /\ pc[p] = "link"
    /\ lock' = p
    /\ pc' = [pc EXCEPT ![p] = "pass"]
    /\ UNCHANGED <<clock, startedAt, force, attempt, seen, disturbed>>

(* linkSync(tmpLock, lockPath): publishes the lock, or fails with EEXIST. *)
Link(p) ==
    /\ pc[p] = "link"
    /\ \/ /\ lock = NoLock
          /\ lock' = p
          /\ pc' = [pc EXCEPT ![p] = "pass"]
       \/ /\ lock # NoLock
          /\ pc' = [pc EXCEPT ![p] = "inspect"]
          /\ UNCHANGED lock
    /\ UNCHANGED <<clock, startedAt, force, attempt, seen, disturbed>>

(* Mutant: the window is closed at its end (>=). *)
TooOldAtWindow(p, file) ==
    file = NoLock \/ startedAt[p] - startedAt[file] >= StaleAfter

(* Mutant: the difference is taken the other way round. *)
TooOldSwapped(p, file) ==
    file = NoLock \/ startedAt[file] - startedAt[p] > StaleAfter

(* A lock that vanished before it was read has age Infinity; the age of    *)
(* any other is measured from the start of the process that reads it.      *)
TooOld(p, file) ==
    \/ file = NoLock
    \/ startedAt[p] - startedAt[file] > StaleAfter

(* Mutant: a fresh lock is waited for, with the clock still frozen. *)
InspectWaits(p) ==
    /\ pc[p] = "inspect"
    /\ seen' = [seen EXCEPT ![p] = lock]
    /\ pc' = [pc EXCEPT ![p] = IF force[p] \/ TooOld(p, lock) THEN "clear" ELSE "link"]
    /\ UNCHANGED <<clock, lock, startedAt, force, attempt, disturbed>>

(* readLockFile, then: clear the lock, or LOCK_CONFLICT. *)
Inspect(p) ==
    /\ pc[p] = "inspect"
    /\ seen' = [seen EXCEPT ![p] = lock]
    /\ pc' = [pc EXCEPT ![p] =
                 IF force[p] \/ TooOld(p, lock) THEN "clear" ELSE "refused"]
    /\ UNCHANGED <<clock, lock, startedAt, force, attempt, disturbed>>

(* Mutant: the loop has no bound. *)
ClearForever(p) ==
    /\ pc[p] = "clear"
    /\ lock' = NoLock
    /\ attempt' = [attempt EXCEPT ![p] = @ + 1]
    /\ pc' = [pc EXCEPT ![p] = "link"]
    /\ UNCHANGED <<clock, startedAt, force, seen, disturbed>>

(* renameSync(lockPath, staleTmp) moves away whatever file is there by now *)
(* (ENOENT: none), and the loop goes round or has used its attempts.       *)
Clear(p) ==
    /\ pc[p] = "clear"
    /\ lock' = NoLock
    /\ attempt' = [attempt EXCEPT ![p] = @ + 1]
    /\ pc' = [pc EXCEPT ![p] =
                 IF attempt'[p] < Attempts THEN "link" ELSE "refused"]
    /\ UNCHANGED <<clock, startedAt, force, seen, disturbed>>

(* Mutant: an early return that skips the finally. *)
ReleaseNot(p) ==
    /\ Passing(p)
    /\ pc' = [pc EXCEPT ![p] = "done"]
    /\ UNCHANGED <<clock, lock, startedAt, force, attempt, seen, disturbed>>

(* finally { releaseLock(lockPath) }: unlinks the path, whoever owns it. *)
Release(p) ==
    /\ Passing(p)
    /\ lock' = NoLock
    /\ pc' = [pc EXCEPT ![p] = "done"]
    /\ UNCHANGED <<clock, startedAt, force, attempt, seen, disturbed>>

(* The process is killed; its lock file, if any, stays. *)
Crash(p) ==
    /\ Alive(p)
    /\ pc' = [pc EXCEPT ![p] = "dead"]
    /\ UNCHANGED <<clock, lock, startedAt, force, attempt, seen, disturbed>>

(* Time passes, but no live pass outlives MaxPass. *)
Tick ==
    /\ clock < MaxClock
    /\ \A p \in Proc : Alive(p) => clock - startedAt[p] < MaxPass
    /\ clock' = clock + 1
    /\ UNCHANGED <<lock, pc, startedAt, force, attempt, seen, disturbed>>

Advance(p) == Link(p) \/ Inspect(p) \/ Clear(p) \/ Release(p)

Next == Tick \/ \E p \in Proc : Start(p) \/ Advance(p) \/ Crash(p)

(* A running process takes its next step unless it is killed; nothing      *)
(* obliges a user to start a pass, or a process to crash.                  *)
Fairness == \A p \in Proc : WF_vars(Advance(p))

Spec == Init /\ [][Next]_vars
FairSpec == Spec /\ Fairness

-----------------------------------------------------------------------------
(* Every variable is of its type, and who still decides has an attempt left. *)
TypeOK ==
    /\ clock \in Nat
    /\ lock \in Proc \cup {NoLock}
    /\ pc \in [Proc -> Step]
    /\ startedAt \in [Proc -> Nat]
    /\ force \in [Proc -> BOOLEAN]
    /\ attempt \in [Proc -> 0..Attempts]
    /\ \A p \in Proc : Acquiring(p) => attempt[p] < Attempts
    /\ seen \in [Proc -> Proc \cup {NoLock}]
    /\ disturbed \in BOOLEAN

(* While callers neither force nor overlap inside acquireLock, the lock    *)
(* file on disk is the running pass's own, so one pass runs at a time and  *)
(* the unconditional unlink of releaseLock removes no other pass's lock.   *)
PassOwnsLock == ~disturbed => \A p \in Proc : Passing(p) => lock = p

(* A lock file outlives its process only when the process was killed: no   *)
(* path through acquireLock or the pass leaves one behind.                 *)
NoOrphanLock == lock # NoLock => pc[lock] \in {"pass", "dead"}

(* Who has been judged stale is not running, and stays that way until the  *)
(* rename: with passes shorter than the window, the judgement itself is    *)
(* never what takes a lock from a live pass.                               *)
StaleMeansOver ==
    \A p \in Proc :
        (pc[p] = "clear" /\ ~force[p] /\ seen[p] # NoLock) => ~Alive(seen[p])

(* "Unreachable in practice (loop exits via return)": the attempt after a  *)
(* clear finds the path free, so undisturbed callers use at most two.      *)
AttemptsSuffice == ~disturbed => \A p \in Proc : attempt[p] < Attempts

(* Every acquireLock call returns: it gets the lock or reports a conflict. *)
AcquireReturns == \A p \in Proc : Acquiring(p) ~> ~Acquiring(p)

(* The lock of a crashed pass blocks the roadmap for the stale window and  *)
(* no longer: a process that finds it after that runs its pass.            *)
CrashedLockIsTakenOver ==
    \A p \in Proc :
        ( /\ Acquiring(p)
          /\ lock # NoLock /\ pc[lock] = "dead"
          /\ startedAt[p] - startedAt[lock] > StaleAfter )
            ~> (disturbed \/ pc[p] \in {"pass", "done", "dead"})

(* Seen from outside, the running passes are a mutual exclusion until the  *)
(* first disturbance.                                                      *)
Running == IF disturbed THEN {} ELSE {p \in Proc : Passing(p)}
Mutex == INSTANCE PassMutex WITH running <- Running
ImplementsMutex == Mutex!Spec

(* No two passes run at once unless someone forced: "Atomic; safe against  *)
(* concurrent callers."  The code breaks it when callers overlap.          *)
UnforcedExclusion ==
    (\A p \in Proc : ~force[p]) =>
        \A p, q \in Proc : Passing(p) /\ Passing(q) => p = q
=============================================================================
