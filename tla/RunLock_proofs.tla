--------------------------- MODULE RunLock_proofs ---------------------------
(***************************************************************************)
(* Proofs about RunLock, for any set of runs and processes, any timeout and *)
(* any choice of which processes may die.                                   *)
(***************************************************************************)
EXTENDS RunLock, TLAPS

USE RunLockAssumption DEF RunLockAssumption

-----------------------------------------------------------------------------
\* Every variable keeps its type: the typing the other proofs rest on, for every step
\* of acquire, of Drop and of the environment.
THEOREM TypeCorrect == Spec => []TypeOK
<1>1. Init => TypeOK
  <2> SUFFICES ASSUME Init PROVE TypeOK
    OBVIOUS
  <2>1. alive \in [Procs -> BOOLEAN] /\ clobbered \in BOOLEAN
    BY Zenon DEF Init
  <2>2. 0 \in Ages
    BY DEF Ages
  <2> QED
    BY <2>1, <2>2 DEF Init, TypeOK, Locations
<1>2. TypeOK /\ [Next]_vars => TypeOK'
  <2> SUFFICES ASSUME TypeOK, [Next]_vars
               PROVE  TypeOK'
    OBVIOUS
  <2> USE DEF TypeOK, Ages, Locations, Goto, fsVars, MakeDir
  <2>1. ASSUME NEW r \in Runs, Mkdir(r)
        PROVE  TypeOK'
    BY <2>1 DEF Mkdir
  <2>2. ASSUME NEW r \in Runs, ReadMeta(r)
        PROVE  TypeOK'
    BY <2>2 DEF ReadMeta
  <2>3. ASSUME NEW r \in Runs, Probe(r)
        PROVE  TypeOK'
    BY <2>3 DEF Probe
  <2>4. ASSUME NEW r \in Runs, CheckAge(r)
        PROVE  TypeOK'
    BY <2>4 DEF CheckAge
  <2>5. ASSUME NEW r \in Runs, Steal(r)
        PROVE  TypeOK'
    BY <2>5 DEF Steal, RemoveDir
  <2>6. ASSUME NEW r \in Runs, Recreate(r)
        PROVE  TypeOK'
    BY <2>6 DEF Recreate
  <2>7. ASSUME NEW r \in Runs, Stamp(r)
        PROVE  TypeOK'
    BY <2>7 DEF Stamp
  <2>8. ASSUME NEW r \in Runs, Drop(r)
        PROVE  TypeOK'
    BY <2>8 DEF Drop, RemoveDir
  <2>9. ASSUME NEW p \in Procs, Crash(p)
        PROVE  TypeOK'
    BY <2>9 DEF Crash
  <2>10. CASE Tick
    BY <2>10 DEF Tick, Older
  <2>11. CASE UNCHANGED vars
    BY <2>11 DEF vars
  <2> QED
    BY <2>1, <2>2, <2>3, <2>4, <2>5, <2>6, <2>7, <2>8, <2>9, <2>10, <2>11
       DEF Next, Acquire
<1> QED
  BY <1>1, <1>2, PTL DEF Spec

-----------------------------------------------------------------------------
\* No path out of acquire or of a run leaves its directory behind: whoever made the
\* directory that is there owns a guard or died (lock.rs builds the guard before it
\* writes the pid file).
THEOREM NoOrphan == Spec => []NoOrphanedLock
<1>1. Init => NoOrphanedLock
  BY DEF Init, NoOrphanedLock
<1>2. TypeOK /\ NoOrphanedLock /\ [Next]_vars => NoOrphanedLock'
  <2> SUFFICES ASSUME TypeOK, NoOrphanedLock, [Next]_vars
               PROVE  NoOrphanedLock'
    OBVIOUS
  <2> USE DEF TypeOK, NoOrphanedLock, Guarded, Goto, fsVars, MakeDir
  <2>1. ASSUME NEW r \in Runs, Mkdir(r)
        PROVE  NoOrphanedLock'
    BY <2>1 DEF Mkdir
  <2>2. ASSUME NEW r \in Runs, ReadMeta(r)
        PROVE  NoOrphanedLock'
    BY <2>2 DEF ReadMeta
  <2>3. ASSUME NEW r \in Runs, Probe(r)
        PROVE  NoOrphanedLock'
    BY <2>3 DEF Probe
  <2>4. ASSUME NEW r \in Runs, CheckAge(r)
        PROVE  NoOrphanedLock'
    BY <2>4 DEF CheckAge
  <2>5. ASSUME NEW r \in Runs, Steal(r)
        PROVE  NoOrphanedLock'
    BY <2>5 DEF Steal, RemoveDir
  <2>6. ASSUME NEW r \in Runs, Recreate(r)
        PROVE  NoOrphanedLock'
    BY <2>6 DEF Recreate
  <2>7. ASSUME NEW r \in Runs, Stamp(r)
        PROVE  NoOrphanedLock'
    BY <2>7 DEF Stamp
  <2>8. ASSUME NEW r \in Runs, Drop(r)
        PROVE  NoOrphanedLock'
    BY <2>8 DEF Drop, RemoveDir
  <2>9. ASSUME NEW p \in Procs, Crash(p)
        PROVE  NoOrphanedLock'
    BY <2>9 DEF Crash
  <2>10. CASE Tick
    BY <2>10 DEF Tick
  <2>11. CASE UNCHANGED vars
    BY <2>11 DEF vars
  <2> QED
    BY <2>1, <2>2, <2>3, <2>4, <2>5, <2>6, <2>7, <2>8, <2>9, <2>10, <2>11
       DEF Next, Acquire
<1> QED
  BY <1>1, <1>2, TypeCorrect, PTL DEF Spec

-----------------------------------------------------------------------------
\* As long as no directory is removed under a run that still uses it, every run that
\* owns a guard owns the directory.  The invariant is inductive given TypeOK: a mkdir
\* succeeds only when no directory exists, and then no run owns a guard.
THEOREM OverlapOnlyByClobber == Spec => []OverlapNeedsClobber
<1>1. Init => OverlapNeedsClobber
  BY DEF Init, OverlapNeedsClobber, Guarded
<1>2. TypeOK /\ OverlapNeedsClobber /\ [Next]_vars => OverlapNeedsClobber'
  <2> SUFFICES ASSUME TypeOK, OverlapNeedsClobber, [Next]_vars
               PROVE  OverlapNeedsClobber'
    OBVIOUS
  <2> USE DEF TypeOK, OverlapNeedsClobber, Guarded, Goto, fsVars, MakeDir
  <2>1. ASSUME NEW r \in Runs, Mkdir(r)
        PROVE  OverlapNeedsClobber'
    BY <2>1 DEF Mkdir
  <2>2. ASSUME NEW r \in Runs, ReadMeta(r)
        PROVE  OverlapNeedsClobber'
    BY <2>2 DEF ReadMeta
  <2>3. ASSUME NEW r \in Runs, Probe(r)
        PROVE  OverlapNeedsClobber'
    BY <2>3 DEF Probe
  <2>4. ASSUME NEW r \in Runs, CheckAge(r)
        PROVE  OverlapNeedsClobber'
    BY <2>4 DEF CheckAge
  <2>5. ASSUME NEW r \in Runs, Steal(r)
        PROVE  OverlapNeedsClobber'
    BY <2>5 DEF Steal, RemoveDir
  <2>6. ASSUME NEW r \in Runs, Recreate(r)
        PROVE  OverlapNeedsClobber'
    BY <2>6 DEF Recreate
  <2>7. ASSUME NEW r \in Runs, Stamp(r)
        PROVE  OverlapNeedsClobber'
    BY <2>7 DEF Stamp
  <2>8. ASSUME NEW r \in Runs, Drop(r)
        PROVE  OverlapNeedsClobber'
    BY <2>8 DEF Drop, RemoveDir
  <2>9. ASSUME NEW p \in Procs, Crash(p)
        PROVE  OverlapNeedsClobber'
    BY <2>9 DEF Crash
  <2>10. CASE Tick
    BY <2>10 DEF Tick
  <2>11. CASE UNCHANGED vars
    BY <2>11 DEF vars
  <2> QED
    BY <2>1, <2>2, <2>3, <2>4, <2>5, <2>6, <2>7, <2>8, <2>9, <2>10, <2>11
       DEF Next, Acquire
<1> QED
  BY <1>1, <1>2, TypeCorrect, PTL DEF Spec

\* The reading that matters: two compiles run at once only after a steal or a drop has
\* removed the lock directory of a live run.
COROLLARY ExclusionUntilClobber == Spec => [](~clobbered => MutualExclusion)
<1>1. OverlapNeedsClobber => (~clobbered => MutualExclusion)
  BY DEF OverlapNeedsClobber, MutualExclusion, Holds, Guarded
<1> QED
  BY <1>1, OverlapOnlyByClobber, PTL
=============================================================================
