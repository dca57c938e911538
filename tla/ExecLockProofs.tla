---------------------------- MODULE ExecLockProofs ----------------------------
(***************************************************************************)
(* Theorems about loom-browser's lock for any set of processes.  What a    *)
(* lock file on disk says of its owner holds always; mutual exclusion is   *)
(* proved up to the first reclaim that removes another lock than the one   *)
(* it judged stale, which is how it fails.                                 *)
(***************************************************************************)
EXTENDS ExecLock, TLAPS

USE ExecAssumption

-----------------------------------------------------------------------------
LEMMA TypeInit == Init => TypeOK
  <1>1. Init => named \in BOOLEAN /\ misfired \in BOOLEAN
    BY Zenon DEF Init
  <1> QED
    BY <1>1 DEF Init, TypeOK, Place, Alive

LEMMA TypeStep == TypeOK /\ [Next]_vars => TypeOK'
  <1> SUFFICES ASSUME TypeOK, [Next]_vars
               PROVE  TypeOK'
    OBVIOUS
  <1> USE DEF TypeOK, Place, Alive, Goto
  <1>1. ASSUME NEW p \in Proc, Call(p)
        PROVE  TypeOK'
    BY <1>1 DEF Call
  <1>2. ASSUME NEW p \in Proc, Open(p)
        PROVE  TypeOK'
    BY <1>2 DEF Open
  <1>3. ASSUME NEW p \in Proc, Write(p)
        PROVE  TypeOK'
    BY <1>3 DEF Write
  <1>4. ASSUME NEW p \in Proc, WriteFails(p)
        PROVE  TypeOK'
    BY <1>4 DEF WriteFails
  <1>5. ASSUME NEW p \in Proc, Read(p)
        PROVE  TypeOK'
    BY <1>5 DEF Read
  <1>6. ASSUME NEW p \in Proc, Probe(p)
        PROVE  TypeOK'
    BY <1>6 DEF Probe
  <1>7. ASSUME NEW p \in Proc, Reclaim(p)
        PROVE  TypeOK'
    BY <1>7 DEF Reclaim
  <1>8. ASSUME NEW p \in Proc, Check(p)
        PROVE  TypeOK'
    BY <1>8 DEF Check
  <1>9. ASSUME NEW p \in Proc, Release(p)
        PROVE  TypeOK'
    BY <1>9 DEF Release, Holding
  <1>10. ASSUME NEW p \in Proc, Exit(p)
         PROVE  TypeOK'
    BY <1>10 DEF Exit
  <1>11. ASSUME NEW p \in Proc, Crash(p)
         PROVE  TypeOK'
    BY <1>11 DEF Crash, Acquiring, Holding
  <1>12. ASSUME NEW p \in Proc, Expire(p)
         PROVE  TypeOK'
    BY <1>12 DEF Expire
  <1>13. ASSUME NEW p \in Proc, Reuse(p)
         PROVE  TypeOK'
    BY <1>13 DEF Reuse
  <1>14. CASE UNCHANGED vars
    BY <1>14 DEF vars
  <1> QED
    BY <1>1, <1>2, <1>3, <1>4, <1>5, <1>6, <1>7, <1>8, <1>9, <1>10, <1>11,
       <1>12, <1>13, <1>14 DEF Next, Advance

(* Every reachable state of acquireLock and its release is well typed, for *)
(* any number of processes.                                                *)
THEOREM TypeCorrect == Spec => []TypeOK
  BY TypeInit, TypeStep, PTL DEF Spec

-----------------------------------------------------------------------------
(* Of a lock file with a pid in it: its process holds it or was killed.    *)

LEMMA OrphanStep == TypeOK /\ NoOrphanLock /\ [Next]_vars => NoOrphanLock'
  <1> SUFFICES ASSUME TypeOK, NoOrphanLock, [Next]_vars
               PROVE  NoOrphanLock'
    OBVIOUS
  <1> USE DEF TypeOK, NoOrphanLock, Goto
  <1>1. ASSUME NEW p \in Proc, Call(p)
        PROVE  NoOrphanLock'
    BY <1>1 DEF Call
  <1>2. ASSUME NEW p \in Proc, Open(p)
        PROVE  NoOrphanLock'
    BY <1>2 DEF Open
  <1>3. ASSUME NEW p \in Proc, Write(p)
        PROVE  NoOrphanLock'
    BY <1>3 DEF Write
  <1>4. ASSUME NEW p \in Proc, WriteFails(p)
        PROVE  NoOrphanLock'
    BY <1>4 DEF WriteFails
  <1>5. ASSUME NEW p \in Proc, Read(p) \/ Probe(p)
        PROVE  NoOrphanLock'
    <2>1. UNCHANGED <<lock, named>> /\ pc[p] \in {"read", "probe"}
      BY <1>5 DEF Read, Probe
    <2>2. \A q \in Proc \ {p} : pc'[q] = pc[q]
      BY <1>5 DEF Read, Probe
    <2> QED
      BY <2>1, <2>2
  <1>6. ASSUME NEW p \in Proc, Reclaim(p) \/ Release(p)
        PROVE  NoOrphanLock'
    BY <1>6 DEF Reclaim, Release
  <1>7. ASSUME NEW p \in Proc, Check(p) \/ Exit(p)
        PROVE  NoOrphanLock'
    BY <1>7 DEF Check, Exit
  <1>8. ASSUME NEW p \in Proc, Crash(p)
        PROVE  NoOrphanLock'
    BY <1>8 DEF Crash
  <1>9. ASSUME NEW p \in Proc, Expire(p) \/ Reuse(p)
        PROVE  NoOrphanLock'
    BY <1>9 DEF Expire, Reuse
  <1>10. CASE UNCHANGED vars
    BY <1>10 DEF vars
  <1> QED
    BY <1>1, <1>2, <1>3, <1>4, <1>5, <1>6, <1>7, <1>8, <1>9, <1>10
       DEF Next, Advance

(* No path through acquireLock, release or a failing write leaves a lock   *)
(* with the pid of a process that has moved on, misdirected reclaims       *)
(* included.                                                               *)
THEOREM OrphanFree == Spec => []NoOrphanLock
  <1>1. Init => NoOrphanLock
    BY DEF Init, NoOrphanLock
  <1> QED
    BY <1>1, OrphanStep, TypeCorrect, PTL DEF Spec

-----------------------------------------------------------------------------
(* Ownership needs that whoever is about to be reclaimed no longer runs:   *)
(* then an unlink of the very lock that was judged takes it from nobody.   *)

JudgedIsDead == \A p \in Proc : pc[p] = "reclaim" => ~Alive(holder[p])

OwnInv == HolderOwnsLock /\ JudgedIsDead

LEMMA OwnInit == Init => OwnInv
  BY DEF Init, OwnInv, HolderOwnsLock, JudgedIsDead

LEMMA OwnStep == TypeOK /\ OwnInv /\ [Next]_vars => OwnInv'
  <1> SUFFICES ASSUME TypeOK, OwnInv, [Next]_vars
               PROVE  OwnInv'
    OBVIOUS
  <1> USE DEF TypeOK, OwnInv, HolderOwnsLock, JudgedIsDead, Alive, Goto
  <1>1. ASSUME NEW p \in Proc, Call(p)
        PROVE  OwnInv'
    BY <1>1 DEF Call
  <1>2. ASSUME NEW p \in Proc, Open(p)
        PROVE  OwnInv'
    BY <1>2 DEF Open
  <1>3. ASSUME NEW p \in Proc, Write(p) \/ WriteFails(p)
        PROVE  OwnInv'
    BY <1>3 DEF Write, WriteFails
  <1>4. ASSUME NEW p \in Proc, Read(p)
        PROVE  OwnInv'
    BY <1>4 DEF Read
  <1>5. ASSUME NEW p \in Proc, Probe(p)
        PROVE  OwnInv'
    BY <1>5 DEF Probe, PidAlive
  <1>6. ASSUME NEW p \in Proc, Reclaim(p)
        PROVE  OwnInv'
    <2>1. JudgedIsDead'
      BY <1>6 DEF Reclaim
    <2>2. ASSUME ~misfired', NEW q \in Proc, pc'[q] \in {"write", "hold"}
          PROVE  lock' = q
      <3>1. ~misfired /\ lock \in {holder[p], NoLock}
        BY <1>6, <2>2 DEF Reclaim
      <3>2. q # p /\ pc[q] \in {"write", "hold"}
        BY <1>6, <2>2 DEF Reclaim
      <3>3. lock = q /\ lock = holder[p]
        BY <3>1, <3>2
      <3>4. ~Alive(q)
        BY <1>6, <3>3 DEF Reclaim
      <3> QED
        BY <3>2, <3>4
    <2> QED
      BY <2>1, <2>2
  <1>7. ASSUME NEW p \in Proc, Check(p) \/ Exit(p)
        PROVE  OwnInv'
    BY <1>7 DEF Check, Exit
  <1>8. ASSUME NEW p \in Proc, Release(p)
        PROVE  OwnInv'
    BY <1>8 DEF Release, Holding
  <1>9. ASSUME NEW p \in Proc, Crash(p)
        PROVE  OwnInv'
    BY <1>9 DEF Crash
  <1>10. ASSUME NEW p \in Proc, Expire(p) \/ Reuse(p)
         PROVE  OwnInv'
    BY <1>10 DEF Expire, Reuse
  <1>11. CASE UNCHANGED vars
    BY <1>11 DEF vars
  <1> QED
    BY <1>1, <1>2, <1>3, <1>4, <1>5, <1>6, <1>7, <1>8, <1>9, <1>10, <1>11
       DEF Next, Advance

(* Crashes and any number of rightful reclaims do not take the lock from a *)
(* command that holds it; only a misdirected unlink does.                  *)
THEOREM Ownership == Spec => []HolderOwnsLock
  <1>1. OwnInv => HolderOwnsLock
    BY DEF OwnInv
  <1> QED
    BY <1>1, OwnInit, OwnStep, TypeCorrect, PTL DEF Spec

-----------------------------------------------------------------------------
(* Writing the pid enters the mutex; release, death or the first           *)
(* misdirected reclaim leaves it; all else is a stutter.                   *)

LEMMA MutexStep ==
    TypeOK /\ HolderOwnsLock /\ [Next]_vars => [Mutex!Next]_Running
  <1> SUFFICES ASSUME TypeOK, HolderOwnsLock, [Next]_vars
               PROVE  Mutex!Next \/ Running' = Running
    OBVIOUS
  <1> USE DEF TypeOK, Running, Holding, Goto
  <1>1. ASSUME NEW p \in Proc, Call(p) \/ Open(p) \/ WriteFails(p)
        PROVE  Running' = Running
    BY <1>1 DEF Call, Open, WriteFails
  <1>2. ASSUME NEW p \in Proc, Read(p) \/ Probe(p) \/ Check(p)
        PROVE  Running' = Running
    BY <1>2 DEF Read, Probe, Check
  <1>3. ASSUME NEW p \in Proc, Exit(p) \/ Expire(p) \/ Reuse(p)
        PROVE  Running' = Running
    BY <1>3 DEF Exit, Expire, Reuse
  <1>4. ASSUME NEW p \in Proc, Write(p)
        PROVE  Mutex!Next \/ Running' = Running
    <2>1. CASE misfired
      BY <1>4, <2>1 DEF Write
    <2>2. CASE ~misfired
      <3>1. lock = p
        BY <1>4, <2>2 DEF HolderOwnsLock, Write
      <3>2. Running = {}
        BY <1>4, <3>1 DEF HolderOwnsLock, Write
      <3>3. Running' = {p}
        BY <1>4, <2>2, <3>2 DEF Write
      <3> QED
        BY <3>2, <3>3 DEF Mutex!Next, Mutex!Enter
    <2> QED
      BY <2>1, <2>2
  <1>5. ASSUME NEW p \in Proc, Reclaim(p)
        PROVE  Mutex!Next \/ Running' = Running
    <2>1. \A q \in Proc : Holding(q)' <=> Holding(q)
      BY <1>5 DEF Reclaim
    <2>2. CASE misfired' = misfired \/ Running = {}
      BY <1>5, <2>1, <2>2 DEF Reclaim
    <2>3. CASE misfired' # misfired /\ Running # {}
      <3>1. ~misfired /\ misfired'
        BY <1>5, <2>3 DEF Reclaim
      <3>2. PICK q \in Proc : q \in Running
        BY <2>3
      <3>3. Running = {q}
        BY <3>1, <3>2 DEF HolderOwnsLock
      <3>4. Running' = {}
        BY <3>1
      <3> QED
        BY <3>2, <3>3, <3>4 DEF Mutex!Next, Mutex!Leave
    <2> QED
      BY <2>2, <2>3
  <1>6. ASSUME NEW p \in Proc, Release(p) \/ Crash(p)
        PROVE  Mutex!Next \/ Running' = Running
    <2>1. Running' = Running \ {p}
      BY <1>6 DEF Release, Crash
    <2> QED
      BY <2>1 DEF Mutex!Next, Mutex!Leave
  <1>7. CASE UNCHANGED vars
    BY <1>7 DEF vars
  <1> QED
    BY <1>1, <1>2, <1>3, <1>4, <1>5, <1>6, <1>7 DEF Next, Advance

(* acquireLock implements PassMutex for any number of processes, whoever   *)
(* dies, until the first misdirected reclaim.                              *)
THEOREM ExecImplementsMutex == Spec => ImplementsMutex
  <1>1. Init => Mutex!Init
    BY DEF Init, Mutex!Init, Running, Holding
  <1> QED
    BY <1>1, MutexStep, TypeCorrect, Ownership, PTL
       DEF Spec, ImplementsMutex, Mutex!Spec
=============================================================================
