------------------------- MODULE ConvergeLockProofs -------------------------
(***************************************************************************)
(* Theorems about the convergence lock for any set of processes, any       *)
(* stale window and any length of pass.  The first two hold however the    *)
(* callers interleave; mutual exclusion is proved up to the first caller   *)
(* that forces or overlaps another in acquireLock, which is when it fails. *)
(***************************************************************************)
EXTENDS ConvergeLock, TLAPS

USE LockAssumption

-----------------------------------------------------------------------------
(* Type correctness: every process's attempt counter, verdict and place in *)
(* acquireLock stay in their ranges; who still decides has an attempt left *)
(* because every process starts with none used.                            *)

CountOK == \A p \in Proc : pc[p] = "idle" => attempt[p] = 0

LEMMA TypeInit == Init => TypeOK /\ CountOK
  <1>1. Init => disturbed \in BOOLEAN
    BY Zenon DEF Init
  <1> QED
    BY <1>1 DEF Init, TypeOK, CountOK, Step, Acquiring, Deciding, Attempts

LEMMA TypeStep == TypeOK /\ CountOK /\ [Next]_vars => TypeOK' /\ CountOK'
  <1> SUFFICES ASSUME TypeOK, CountOK, [Next]_vars
               PROVE  TypeOK' /\ CountOK'
    OBVIOUS
  <1> USE DEF TypeOK, CountOK, Step, Acquiring, Deciding, Attempts
  <1>1. CASE Tick
    BY <1>1 DEF Tick
  <1>2. ASSUME NEW p \in Proc, Start(p)
        PROVE  TypeOK' /\ CountOK'
    BY <1>2 DEF Start
  <1>3. ASSUME NEW p \in Proc, Link(p)
        PROVE  TypeOK' /\ CountOK'
    BY <1>3 DEF Link
  <1>4. ASSUME NEW p \in Proc, Inspect(p)
        PROVE  TypeOK' /\ CountOK'
    BY <1>4 DEF Inspect
  <1>5. ASSUME NEW p \in Proc, Clear(p)
        PROVE  TypeOK' /\ CountOK'
    BY <1>5 DEF Clear
  <1>6. ASSUME NEW p \in Proc, Release(p)
        PROVE  TypeOK' /\ CountOK'
    BY <1>6 DEF Release, Passing
  <1>7. ASSUME NEW p \in Proc, Crash(p)
        PROVE  TypeOK' /\ CountOK'
    BY <1>7 DEF Crash
  <1>8. CASE UNCHANGED vars
    BY <1>8 DEF vars
  <1> QED
    BY <1>1, <1>2, <1>3, <1>4, <1>5, <1>6, <1>7, <1>8 DEF Next, Advance

(* Every reachable state of acquireLock is well typed, for any number of   *)
(* callers in any interleaving.                                            *)
THEOREM TypeCorrect == Spec => []TypeOK
  <1>1. Spec => [](TypeOK /\ CountOK)
    BY TypeInit, TypeStep, PTL DEF Spec
  <1> QED
    BY <1>1, PTL

-----------------------------------------------------------------------------
(* No path through acquireLock or releaseLock leaves a lock file behind a  *)
(* process that finished: only a killed process leaves one.                *)

LEMMA OrphanStep == TypeOK /\ NoOrphanLock /\ [Next]_vars => NoOrphanLock'
  <1> SUFFICES ASSUME TypeOK, NoOrphanLock, [Next]_vars
               PROVE  NoOrphanLock'
    OBVIOUS
  <1> USE DEF TypeOK, NoOrphanLock
  <1>1. CASE Tick
    BY <1>1 DEF Tick
  <1>2. ASSUME NEW p \in Proc, Start(p)
        PROVE  NoOrphanLock'
    BY <1>2 DEF Start
  <1>3. ASSUME NEW p \in Proc, Link(p)
        PROVE  NoOrphanLock'
    BY <1>3 DEF Link
  <1>4. ASSUME NEW p \in Proc, Inspect(p)
        PROVE  NoOrphanLock'
    BY <1>4 DEF Inspect
  <1>5. ASSUME NEW p \in Proc, Clear(p)
        PROVE  NoOrphanLock'
    BY <1>5 DEF Clear
  <1>6. ASSUME NEW p \in Proc, Release(p)
        PROVE  NoOrphanLock'
    BY <1>6 DEF Release
  <1>7. ASSUME NEW p \in Proc, Crash(p)
        PROVE  NoOrphanLock'
    BY <1>7 DEF Crash
  <1>8. CASE UNCHANGED vars
    BY <1>8 DEF vars
  <1> QED
    BY <1>1, <1>2, <1>3, <1>4, <1>5, <1>6, <1>7, <1>8 DEF Next, Advance

(* The lock path never names a process that returned from its pass or was  *)
(* refused, whatever --force, clears and overlaps happen.                  *)
THEOREM OrphanFree == Spec => []NoOrphanLock
  <1>1. Init => NoOrphanLock
    BY DEF Init, NoOrphanLock
  <1> QED
    BY <1>1, OrphanStep, TypeCorrect, PTL DEF Spec

-----------------------------------------------------------------------------
(* The judgement "stale" is sound for any interleaving as long as no pass  *)
(* outlives the window.  Inductively: start times lie in the past, a live  *)
(* process is at most MaxPass old, and whoever is about to be cleared as   *)
(* stale started more than StaleAfter before its judge.                    *)

Young == \A p \in Proc : Alive(p) => clock - startedAt[p] <= MaxPass

InThePast == \A p \in Proc : startedAt[p] <= clock

Judged == \A p \in Proc :
    (pc[p] = "clear" /\ ~force[p] /\ seen[p] # NoLock) =>
        /\ startedAt[p] - startedAt[seen[p]] > StaleAfter
        /\ pc[seen[p]] # "idle"

JudgeInv == Young /\ InThePast /\ Judged

LEMMA JudgeInit == Init => JudgeInv
  BY DEF Init, JudgeInv, Young, InThePast, Judged, Alive, Acquiring, Passing,
         Deciding

LEMMA JudgeStep ==
    TypeOK /\ NoOrphanLock /\ JudgeInv /\ [Next]_vars => JudgeInv'
  <1> SUFFICES ASSUME TypeOK, NoOrphanLock, JudgeInv, [Next]_vars
               PROVE  JudgeInv'
    OBVIOUS
  <1> USE DEF TypeOK, JudgeInv, Young, InThePast, Judged, Alive, Acquiring,
              Passing, Deciding
  <1>1. CASE Tick
    BY <1>1 DEF Tick
  <1>2. ASSUME NEW p \in Proc, Start(p)
        PROVE  JudgeInv'
    BY <1>2 DEF Start
  <1>3. ASSUME NEW p \in Proc, Link(p)
        PROVE  JudgeInv'
    BY <1>3 DEF Link
  <1>4. ASSUME NEW p \in Proc, Inspect(p)
        PROVE  JudgeInv'
    <2>1. (Young /\ InThePast)'
      BY <1>4 DEF Inspect
    <2>2. Judged'
      BY <1>4 DEF Inspect, TooOld, NoOrphanLock
    <2> QED
      BY <2>1, <2>2
  <1>5. ASSUME NEW p \in Proc, Clear(p)
        PROVE  JudgeInv'
    BY <1>5 DEF Clear
  <1>6. ASSUME NEW p \in Proc, Release(p)
        PROVE  JudgeInv'
    BY <1>6 DEF Release
  <1>7. ASSUME NEW p \in Proc, Crash(p)
        PROVE  JudgeInv'
    BY <1>7 DEF Crash
  <1>8. CASE UNCHANGED vars
    BY <1>8 DEF vars
  <1> QED
    BY <1>1, <1>2, <1>3, <1>4, <1>5, <1>6, <1>7, <1>8 DEF Next, Advance

LEMMA JudgeImpliesOver ==
    ASSUME MaxPass <= StaleAfter
    PROVE  TypeOK /\ JudgeInv => StaleMeansOver
  BY DEF TypeOK, JudgeInv, Young, InThePast, Judged, StaleMeansOver

LEMMA JudgeInvariant == Spec => [](TypeOK /\ NoOrphanLock /\ JudgeInv)
  BY JudgeInit, JudgeStep, TypeCorrect, OrphanFree, PTL DEF Spec

(* Passes no longer than STALE_AFTER_MS are never judged stale while they  *)
(* run, even though the judge uses a clock frozen at its own start.        *)
THEOREM StaleSound ==
    ASSUME MaxPass <= StaleAfter
    PROVE  Spec => []StaleMeansOver
  BY JudgeInvariant, JudgeImpliesOver, PTL

-----------------------------------------------------------------------------
(* Mutual exclusion.  Until a caller forces or comes while another is      *)
(* acquiring, the lock file is the running pass's own.                     *)

(* At most one process is deciding, and nobody forced; so between its read *)
(* and its rename the path can only become free, and after its rename it   *)
(* stays free for its second attempt.                                      *)
OneDecider == \A p, q \in Proc : Acquiring(p) /\ Acquiring(q) => p = q

NoForce == \A p \in Proc : ~force[p]

SameFile == \A p \in Proc : pc[p] = "clear" => lock \in {seen[p], NoLock}

FreshAttempt == \A p \in Proc :
    /\ pc[p] \in {"idle", "inspect", "clear"} => attempt[p] = 0
    /\ pc[p] = "link" /\ attempt[p] # 0 => lock = NoLock

OwnLock == \A p \in Proc : Passing(p) => lock = p

FewAttempts == \A p \in Proc : attempt[p] < Attempts

SerialInv ==
    ~disturbed =>
        OwnLock /\ OneDecider /\ NoForce /\ SameFile /\ FreshAttempt /\ FewAttempts

LEMMA SerialInit == Init => SerialInv
  BY DEF Init, SerialInv, OwnLock, OneDecider, NoForce, SameFile, FreshAttempt,
         FewAttempts, Attempts, Acquiring, Passing, Deciding

LEMMA SerialStep ==
    TypeOK /\ NoOrphanLock /\ StaleMeansOver /\ SerialInv /\ [Next]_vars
        => SerialInv'
  <1> SUFFICES ASSUME TypeOK, NoOrphanLock, StaleMeansOver, SerialInv, [Next]_vars
               PROVE  SerialInv'
    OBVIOUS
  <1> USE DEF TypeOK, SerialInv, Acquiring, Passing, Alive, Deciding, Attempts
  <1> USE DEF OwnLock, OneDecider, NoForce, SameFile, FreshAttempt, FewAttempts
  <1>1. CASE Tick
    BY <1>1 DEF Tick
  <1>2. ASSUME NEW p \in Proc, Start(p)
        PROVE  SerialInv'
    BY <1>2 DEF Start
  <1>3. ASSUME NEW p \in Proc, Link(p)
        PROVE  SerialInv'
    BY <1>3 DEF Link
  <1>4. ASSUME NEW p \in Proc, Inspect(p)
        PROVE  SerialInv'
    BY <1>4 DEF Inspect, TooOld
  <1>5. ASSUME NEW p \in Proc, Clear(p), ~disturbed
        PROVE  SerialInv'
    <2>1. \A q \in Proc : ~Passing(q)
      BY <1>5 DEF Clear, StaleMeansOver
    <2>2. attempt'[p] = 1 /\ pc'[p] = "link"
      BY <1>5 DEF Clear, Step
    <2> QED
      BY <1>5, <2>1, <2>2 DEF Clear
  <1>6. ASSUME NEW p \in Proc, Release(p)
        PROVE  SerialInv'
    BY <1>6 DEF Release
  <1>7. ASSUME NEW p \in Proc, Crash(p)
        PROVE  SerialInv'
    BY <1>7 DEF Crash
  <1>8. CASE UNCHANGED vars
    BY <1>8 DEF vars
  <1>9. ASSUME NEW p \in Proc, Clear(p), disturbed
        PROVE  SerialInv'
    BY <1>9 DEF Clear
  <1> QED
    BY <1>1, <1>2, <1>3, <1>4, <1>5, <1>6, <1>7, <1>8, <1>9 DEF Next, Advance

LEMMA SerialInvariant ==
    ASSUME MaxPass <= StaleAfter
    PROVE  Spec => [](TypeOK /\ SerialInv)
  <1>1. Spec => []StaleMeansOver
    BY StaleSound
  <1> QED
    BY <1>1, SerialInit, SerialStep, TypeCorrect, OrphanFree, PTL DEF Spec

(* For any number of processes, undisturbed, the unlink in releaseLock     *)
(* removes the releasing pass's own file; hence one pass runs at a time.   *)
THEOREM Ownership ==
    ASSUME MaxPass <= StaleAfter
    PROVE  Spec => []PassOwnsLock
  <1>1. TypeOK /\ SerialInv => PassOwnsLock
    BY DEF SerialInv, OwnLock, PassOwnsLock
  <1> QED
    BY <1>1, SerialInvariant, PTL

(* The statement after acquireLock's loop is not reached by callers that   *)
(* neither force nor overlap.                                              *)
THEOREM LoopReturns ==
    ASSUME MaxPass <= StaleAfter
    PROVE  Spec => []AttemptsSuffice
  <1>1. TypeOK /\ SerialInv => AttemptsSuffice
    BY DEF SerialInv, FewAttempts, AttemptsSuffice
  <1> QED
    BY <1>1, SerialInvariant, PTL

-----------------------------------------------------------------------------
(* The lock file implements the abstract mutex until the first             *)
(* disturbance: linking enters; releasing, dying in a pass, or the         *)
(* disturbance leaves; all else is a stutter.                              *)

LEMMA MutexStep ==
    TypeOK /\ PassOwnsLock /\ [Next]_vars => [Mutex!Next]_Running
  <1> SUFFICES ASSUME TypeOK, PassOwnsLock, [Next]_vars
               PROVE  Mutex!Next \/ Running' = Running
    OBVIOUS
  <1> USE DEF TypeOK, Running, Passing, Step, Deciding
  <1>1. CASE Tick
    BY <1>1 DEF Tick
  <1>2. ASSUME NEW p \in Proc, Start(p)
        PROVE  Mutex!Next \/ Running' = Running
    <2>1. CASE disturbed' = disturbed
      BY <1>2, <2>1 DEF Start
    <2>2. CASE disturbed' # disturbed /\ Running = {}
      BY <1>2, <2>2 DEF Start
    <2>3. CASE disturbed' # disturbed /\ Running # {}
      <3>1. ~disturbed /\ disturbed'
        BY <1>2, <2>3 DEF Start
      <3>2. PICK q \in Proc : q \in Running
        BY <2>3
      <3>3. Running = {q}
        BY <3>1, <3>2 DEF PassOwnsLock
      <3>4. Running' = {}
        BY <3>1
      <3> QED
        BY <3>2, <3>3, <3>4 DEF Mutex!Next, Mutex!Leave
    <2> QED
      BY <2>1, <2>2, <2>3
  <1>3. ASSUME NEW p \in Proc, Link(p)
        PROVE  Mutex!Next \/ Running' = Running
    <2>1. CASE lock = NoLock /\ ~disturbed
      <3>1. Running = {}
        BY <2>1 DEF PassOwnsLock
      <3>2. Running' = {p}
        BY <1>3, <2>1, <3>1 DEF Link
      <3> QED
        BY <3>1, <3>2 DEF Mutex!Next, Mutex!Enter
    <2>2. CASE disturbed
      BY <1>3, <2>2 DEF Link
    <2>3. CASE lock # NoLock
      <3>1. disturbed' = disturbed
        BY <1>3 DEF Link
      <3>2. \A q \in Proc : pc'[q] = "pass" <=> pc[q] = "pass"
        BY <1>3, <2>3 DEF Link
      <3> QED
        BY <3>1, <3>2
    <2> QED
      BY <2>1, <2>2, <2>3
  <1>4. ASSUME NEW p \in Proc, Inspect(p)
        PROVE  Running' = Running
    BY <1>4 DEF Inspect
  <1>5. ASSUME NEW p \in Proc, Clear(p)
        PROVE  Running' = Running
    BY <1>5 DEF Clear
  <1>6. ASSUME NEW p \in Proc, Release(p)
        PROVE  Mutex!Next \/ Running' = Running
    <2>1. disturbed' = disturbed
      BY <1>6 DEF Release
    <2>2. Running' = Running \ {p}
      BY <1>6 DEF Release
    <2> QED
      BY <2>2 DEF Mutex!Next, Mutex!Leave
  <1>7. ASSUME NEW p \in Proc, Crash(p)
        PROVE  Mutex!Next \/ Running' = Running
    <2>1. Running' = Running \ {p}
      BY <1>7 DEF Crash
    <2> QED
      BY <2>1 DEF Mutex!Next, Mutex!Leave
  <1>8. CASE UNCHANGED vars
    BY <1>8 DEF vars
  <1> QED
    BY <1>1, <1>2, <1>3, <1>4, <1>5, <1>6, <1>7, <1>8 DEF Next, Advance

(* lock.ts implements PassMutex for any number of undisturbed callers.     *)
THEOREM LockImplementsMutex ==
    ASSUME MaxPass <= StaleAfter
    PROVE  Spec => ImplementsMutex
  <1>1. Init => Mutex!Init
    BY DEF Init, Mutex!Init, Running, Passing
  <1> QED
    BY <1>1, MutexStep, TypeCorrect, Ownership, PTL
       DEF Spec, ImplementsMutex, Mutex!Spec
=============================================================================
