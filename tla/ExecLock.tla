------------------------------- MODULE ExecLock -------------------------------
(***************************************************************************)
(* The lock file that serializes WRITE and META commands of loom-browser   *)
(* across processes (acquireLock in scripts/lib/browser-client.ts), one    *)
(* action per system call that other processes can observe.                *)
(*                                                                         *)
(* Simplifications.                                                        *)
(*  - READ commands take no lock and are left out; what WRITE and META do  *)
(*    while they hold it is one state.                                     *)
(*  - A process runs commands one after another.  A lock file is           *)
(*    identified with the process that created it.                         *)
(*  - The deadline of a command passes at some moment; how late that is    *)
(*    does not matter to the lock.                                         *)
(***************************************************************************)
EXTENDS Integers

CONSTANTS
    Proc,       \* processes, and their pids
    NoLock      \* no file at LOCK_FILE, or no pid read from it

ASSUME ExecAssumption == NoLock \notin Proc

VARIABLES
    lock,       \* whose lock file is at LOCK_FILE, or NoLock
    named,      \* has its pid been written to it?
    pc,         \* where each process is
    holder,     \* what readLockHolder gave it in this round
    late,       \* processes whose deadline has passed
    reused,     \* pids of dead processes that belong to a stranger now
    misfired    \* history: a reclaim unlinked another lock than it judged

vars == <<lock, named, pc, holder, late, reused, misfired>>

Acquiring(p) == pc[p] \in {"open", "write", "read", "probe", "reclaim", "check"}
Holding(p) == pc[p] = "hold"
Alive(p) == pc[p] \notin {"dead", "gone"}
Place == {"idle", "open", "write", "read", "probe", "reclaim", "check", "hold",
          "dead", "gone"}

Init ==
    /\ lock = NoLock
    /\ named = FALSE
    /\ pc = [p \in Proc |-> "idle"]
    /\ holder = [p \in Proc |-> NoLock]
    /\ late = {}
    /\ reused = {}
    /\ misfired = FALSE

-----------------------------------------------------------------------------
Goto(p, place) == pc' = [pc EXCEPT ![p] = place]

(* A command begins: execWrite or execMeta calls acquireLock. *)
Call(p) ==
    /\ pc[p] = "idle"
    /\ Goto(p, "open")
    /\ late' = late \ {p}
    /\ UNCHANGED <<lock, named, holder, reused, misfired>>

(* Mutant: openSync with flag "w". *)
OpenOver(p) ==
    /\ pc[p] = "open"
    /\ lock' = p /\ named' = FALSE
    /\ Goto(p, "write")
    /\ UNCHANGED <<holder, late, reused, misfired>>

(* openSync(LOCK_FILE, "wx"): creates the file, still empty, or EEXIST. *)
Open(p) ==
    /\ pc[p] = "open"
    /\ \/ /\ lock = NoLock
          /\ lock' = p /\ named' = FALSE
          /\ Goto(p, "write")
       \/ /\ lock # NoLock
          /\ Goto(p, "read")
          /\ UNCHANGED <<lock, named>>
    /\ UNCHANGED <<holder, late, reused, misfired>>

(* writeSync through the descriptor, which may be that of a file that is   *)
(* no longer at the path; or it fails, and the error leaves acquireLock.   *)
Write(p) ==
    /\ pc[p] = "write"
    /\ named' = (named \/ lock = p)
    /\ Goto(p, "hold")
    /\ UNCHANGED <<lock, holder, late, reused, misfired>>

WriteFails(p) ==
    /\ pc[p] = "write"
    /\ Goto(p, "idle")
    /\ UNCHANGED <<lock, named, holder, late, reused, misfired>>

(* readLockHolder: null for a file that is gone or still empty. *)
Read(p) ==
    /\ pc[p] = "read"
    /\ IF lock # NoLock /\ named
       THEN holder' = [holder EXCEPT ![p] = lock] /\ Goto(p, "probe")
       ELSE Goto(p, "check") /\ UNCHANGED holder
    /\ UNCHANGED <<lock, named, late, reused, misfired>>

(* Mutant: EPERM is taken for a dead process, and all belong to others. *)
PidAliveOwnOnly(q) == FALSE

(* isPidAlive: also of a stranger that got the pid. *)
PidAlive(q) == Alive(q) \/ q \in reused

Probe(p) ==
    /\ pc[p] = "probe"
    /\ IF PidAlive(holder[p])
       THEN Goto(p, "check") /\ holder' = [holder EXCEPT ![p] = NoLock]
       ELSE Goto(p, "reclaim") /\ UNCHANGED holder
    /\ UNCHANGED <<lock, named, late, reused, misfired>>

(* Mutant: the loop goes round without the unlink. *)
ReclaimNot(p) ==
    /\ pc[p] = "reclaim"
    /\ holder' = [holder EXCEPT ![p] = NoLock]
    /\ Goto(p, "open")
    /\ UNCHANGED <<lock, named, late, reused, misfired>>

(* Mutant: holder is declared outside the loop. *)
ReclaimKeepsHolder(p) ==
    /\ pc[p] = "reclaim"
    /\ lock' = NoLock /\ named' = FALSE
    /\ misfired' = (misfired \/ lock \notin {holder[p], NoLock})
    /\ Goto(p, "open")
    /\ UNCHANGED <<holder, late, reused>>

(* unlinkSync of whatever is at the path by now, and round the loop. *)
Reclaim(p) ==
    /\ pc[p] = "reclaim"
    /\ lock' = NoLock /\ named' = FALSE
    /\ misfired' = (misfired \/ lock \notin {holder[p], NoLock})
    /\ holder' = [holder EXCEPT ![p] = NoLock]
    /\ Goto(p, "open")
    /\ UNCHANGED <<late, reused>>

(* Mutant: only a lock with a pid in it is given up on. *)
CheckNamed(p) ==
    /\ pc[p] = "check"
    /\ Goto(p, IF p \in late /\ named THEN "idle" ELSE "open")
    /\ UNCHANGED <<lock, named, holder, late, reused, misfired>>

(* STEP_TIMEOUT after the deadline, or sleep and try again. *)
Check(p) ==
    /\ pc[p] = "check"
    /\ Goto(p, IF p \in late THEN "idle" ELSE "open")
    /\ UNCHANGED <<lock, named, holder, late, reused, misfired>>

(* Mutant: a return that skips the finally. *)
ReleaseNot(p) ==
    /\ Holding(p)
    /\ Goto(p, "idle")
    /\ UNCHANGED <<lock, named, holder, late, reused, misfired>>

(* finally { release() }: unlinks the path, whoever owns it. *)
Release(p) ==
    /\ Holding(p)
    /\ lock' = NoLock /\ named' = FALSE
    /\ Goto(p, "idle")
    /\ UNCHANGED <<holder, late, reused, misfired>>

-----------------------------------------------------------------------------
(* The environment: processes exit or are killed, time passes, and the     *)
(* operating system gives a pid to someone else.                           *)

Exit(p) ==
    /\ pc[p] = "idle"
    /\ Goto(p, "gone")
    /\ UNCHANGED <<lock, named, holder, late, reused, misfired>>

Crash(p) ==
    /\ Acquiring(p) \/ Holding(p)
    /\ Goto(p, "dead")
    /\ holder' = [holder EXCEPT ![p] = NoLock]
    /\ UNCHANGED <<lock, named, late, reused, misfired>>

Expire(p) ==
    /\ Acquiring(p)
    /\ p \notin late
    /\ late' = late \cup {p}
    /\ UNCHANGED <<lock, named, pc, holder, reused, misfired>>

Reuse(p) ==
    /\ ~Alive(p)
    /\ p \notin reused
    /\ reused' = reused \cup {p}
    /\ UNCHANGED <<lock, named, pc, holder, late, misfired>>

Advance(p) == \/ Open(p) \/ Write(p) \/ WriteFails(p) \/ Read(p) \/ Probe(p)
              \/ Reclaim(p) \/ Check(p) \/ Release(p)

Next == \E p \in Proc : \/ Call(p) \/ Advance(p)
                        \/ Exit(p) \/ Crash(p) \/ Expire(p) \/ Reuse(p)

(* A running process takes its next step unless it is killed, and deadlines *)
(* pass; nothing else is bound to happen.                                   *)
Fairness == \A p \in Proc : WF_vars(Advance(p)) /\ WF_vars(Expire(p))

Spec == Init /\ [][Next]_vars
FairSpec == Spec /\ Fairness

-----------------------------------------------------------------------------
(* A file without a writer has no pid in it, and holder is the reading of  *)
(* the current round of the loop.                                          *)
TypeOK ==
    /\ lock \in Proc \cup {NoLock}
    /\ named \in BOOLEAN
    /\ lock = NoLock => ~named
    /\ pc \in [Proc -> Place]
    /\ holder \in [Proc -> Proc \cup {NoLock}]
    /\ \A p \in Proc : holder[p] # NoLock <=> pc[p] \in {"probe", "reclaim"}
    /\ late \subseteq Proc
    /\ reused \subseteq {p \in Proc : ~Alive(p)}
    /\ misfired \in BOOLEAN

(* Until a reclaim hits a newer lock than the one it judged, the file at   *)
(* the path is the holder's own, so that release() removes no other one,   *)
(* crashes and rightful reclaims included.                                 *)
HolderOwnsLock ==
    ~misfired => \A p \in Proc : pc[p] \in {"write", "hold"} => lock = p

(* A lock outlives its command only if the process was killed or its pid   *)
(* could not be written: no path through the code leaves another one.      *)
NoOrphanLock == (lock # NoLock /\ named) => pc[lock] \in {"hold", "dead"}

(* Every acquireLock returns or throws before long, whoever crashed with   *)
(* the lock and whatever is in it.                                         *)
AcquireReturns == \A p \in Proc : Acquiring(p) ~> ~Acquiring(p)

(* "A stale lock whose holder PID is dead is reclaimed": by whoever comes  *)
(* next, if the pid was written and is not in use again.                   *)
DeadHolderIsReclaimed ==
    \A p, q \in Proc :
        (pc[p] = "open" /\ lock = q /\ named /\ pc[q] = "dead")
            ~> (lock # q \/ q \in reused \/ pc[p] = "dead")

(* Seen from outside, the holders are a mutual exclusion until the first   *)
(* misdirected reclaim.                                                    *)
Running == IF misfired THEN {} ELSE {p \in Proc : Holding(p)}
Mutex == INSTANCE PassMutex WITH running <- Running
ImplementsMutex == Mutex!Spec

(* "A single exclusive lockfile serializes WRITE commands and holds META   *)
(* exclusively": no two commands hold it.  Reclaims break it.              *)
Serialized == \A p, q \in Proc : Holding(p) /\ Holding(q) => p = q
=============================================================================
