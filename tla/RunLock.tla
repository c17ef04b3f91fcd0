------------------------------ MODULE RunLock ------------------------------
(***************************************************************************)
(* The single-run lock of autostand-scheduler (lock.rs): a directory made  *)
(* with mkdir, a pid file inside it, and a staleness rule under which a     *)
(* later run may remove the directory and make its own.                     *)
(*                                                                         *)
(* Every file-system call of acquire, release and LockGuard::drop is an     *)
(* action of its own, because that is the grain at which two processes      *)
(* interleave.  A run is one caller of acquire; several runs may live in    *)
(* one process (the GUI's button and its scheduler) and share its pid.      *)
(***************************************************************************)
EXTENDS Naturals

CONSTANTS Runs,        \* callers of acquire
          Procs,       \* operating-system processes
          ProcOf,      \* the process each run lives in
          Crashable,   \* the processes that may die without running Drop
          StaleAfter,  \* STALE_TIMEOUT, in ticks of the abstract clock
          None         \* no directory, no pid file, no metadata

ASSUME RunLockAssumption ==
    /\ ProcOf \in [Runs -> Procs]
    /\ Crashable \subseteq Procs
    /\ StaleAfter \in Nat
    /\ None \notin Runs
    /\ None \notin Procs

VARIABLES owner,     \* the run that made the lock directory, None when it is absent
          pidFile,   \* the pid recorded in the directory, None when unreadable
          age,       \* how long ago the directory was made or stamped
          pc,        \* where each run stands inside acquire or its run
          seenPid,   \* the pid each run read from the pid file
          seenAge,   \* the age of the stamp it read
          alive,     \* which processes are running
          clobbered  \* history: a live run's directory was removed by another run

fsVars == <<owner, pidFile, age>>
vars == <<owner, pidFile, age, pc, seenPid, seenAge, alive, clobbered>>

\* Ages saturate one tick past the timeout: nothing tells older ones apart.
Ages == 0 .. StaleAfter + 1
Older(a) == IF a <= StaleAfter THEN a + 1 ELSE a

Locations == {"idle", "assessing", "probing", "aging", "stealing",
              "recreating", "stamping", "holding", "dropping", "dead"}

\* A run in one of these owns a LockGuard, so its Drop will run unless it dies.
Guarded == {"stamping", "holding", "dropping"}

TypeOK ==
    /\ owner \in Runs \cup {None}
    /\ pidFile \in Procs \cup {None}
    /\ age \in Ages
    /\ pc \in [Runs -> Locations]
    /\ seenPid \in [Runs -> Procs \cup {None}]
    /\ seenAge \in [Runs -> Ages]
    /\ alive \in [Procs -> BOOLEAN]
    /\ clobbered \in BOOLEAN
    /\ \A r \in Runs : pc[r] = "probing" => seenPid[r] # None  \* kill -0 is given a pid

Init ==
    /\ owner = None
    /\ pidFile = None
    /\ age = 0
    /\ pc = [r \in Runs |-> "idle"]
    /\ seenPid = [r \in Runs |-> None]
    /\ seenAge = [r \in Runs |-> 0]
    /\ alive = [p \in Procs |-> TRUE]
    /\ clobbered = FALSE

Goto(r, l) == pc' = [pc EXCEPT ![r] = l]

(***************************************************************************)
(* The two file-system effects.                                            *)
(***************************************************************************)

\* create_dir succeeded: the directory is r's and holds no pid file yet.
MakeDir(r) ==
    /\ owner' = r
    /\ pidFile' = None
    /\ age' = 0

\* remove_dir_all: by path, whoever made the directory; nothing to do when it is gone.
RemoveDir(r) ==
    /\ owner' = None
    /\ pidFile' = None
    /\ age' = 0
    /\ clobbered' = (clobbered \/ /\ owner \in Runs \ {r}
                                  /\ pc[owner] \in Guarded)

(***************************************************************************)
(* acquire                                                                 *)
(***************************************************************************)

\* Mutant: create_dir_all in place of create_dir, which succeeds on an existing directory.
MkdirAll(r) ==
    /\ pc[r] = "idle"
    /\ IF owner = None THEN MakeDir(r) ELSE UNCHANGED fsVars
    /\ Goto(r, "stamping")
    /\ UNCHANGED <<seenPid, seenAge, alive, clobbered>>

\* The first create_dir.  AlreadyExists sends the run on to the staleness test.
Mkdir(r) ==
    /\ pc[r] = "idle"
    /\ \/ /\ owner = None
          /\ MakeDir(r)
          /\ Goto(r, "stamping")
       \/ /\ owner # None
          /\ Goto(r, "assessing")
          /\ UNCHANGED fsVars
    /\ UNCHANGED <<seenPid, seenAge, alive, clobbered>>

\* Mutant: a pid that is missing is asked about like any other.
ReadMetaProbesAlways(r) ==
    /\ pc[r] = "assessing"
    /\ seenPid' = [seenPid EXCEPT ![r] = pidFile]
    /\ seenAge' = [seenAge EXCEPT ![r] = IF pidFile = None THEN 0 ELSE age]
    /\ Goto(r, "probing")
    /\ UNCHANGED <<owner, pidFile, age, alive, clobbered>>

\* read_meta: an absent or empty pid file gives the default, with no pid and no stamp.
ReadMeta(r) ==
    /\ pc[r] = "assessing"
    /\ seenPid' = [seenPid EXCEPT ![r] = pidFile]
    /\ seenAge' = [seenAge EXCEPT ![r] = IF pidFile = None THEN 0 ELSE age]
    /\ Goto(r, IF pidFile = None THEN "aging" ELSE "probing")
    /\ UNCHANGED <<owner, pidFile, age, alive, clobbered>>

\* What kill -0 may say of a pid: a recycled pid answers for a dead process, and
\* a probe that cannot be spawned or times out says nothing at all.
ProbeAnswers(p) == IF alive[p] THEN {"running", "unknown"}
                               ELSE {"running", "unknown", "gone"}

\* pid_is_running, awaited: only a definite "not running" makes the lock stale here.
Probe(r) ==
    /\ pc[r] = "probing"
    /\ \E answer \in ProbeAnswers(seenPid[r]) :
          Goto(r, IF answer = "gone" THEN "stealing" ELSE "aging")
    /\ UNCHANGED <<owner, pidFile, age, seenPid, seenAge, alive, clobbered>>

\* Mutant: no fallback to the directory's mtime when there is no stamp.
TimeRuleWithoutMtime(r) == seenPid[r] # None /\ seenAge[r] > StaleAfter

\* age() and the time rule: the stamp that was read, else the mtime of whatever
\* directory is there now, else "unknown-age", which counts as stale.
TimeRuleSteals(r) ==
    IF seenPid[r] # None THEN seenAge[r] > StaleAfter
                         ELSE owner = None \/ age > StaleAfter

CheckAge(r) ==
    /\ pc[r] = "aging"
    /\ Goto(r, IF TimeRuleSteals(r) THEN "stealing" ELSE "idle")
    /\ seenPid' = [seenPid EXCEPT ![r] = None]
    /\ seenAge' = [seenAge EXCEPT ![r] = 0]
    /\ UNCHANGED <<owner, pidFile, age, alive, clobbered>>

\* release() on the steal path.
Steal(r) ==
    /\ pc[r] = "stealing"
    /\ RemoveDir(r)
    /\ Goto(r, "recreating")
    /\ UNCHANGED <<seenPid, seenAge, alive>>

\* The second create_dir, which fails closed with AlreadyExists.
Recreate(r) ==
    /\ pc[r] = "recreating"
    /\ \/ /\ owner = None
          /\ MakeDir(r)
          /\ Goto(r, "stamping")
       \/ /\ owner # None
          /\ Goto(r, "idle")
          /\ UNCHANGED fsVars
    /\ UNCHANGED <<seenPid, seenAge, alive, clobbered>>

\* Mutant: the guard is built after the write, so a failed write leaves the directory.
StampBeforeGuard(r) ==
    /\ pc[r] = "stamping"
    /\ \/ /\ owner # None
          /\ pidFile' = ProcOf[r]
          /\ age' = 0
          /\ Goto(r, "holding")
          /\ UNCHANGED owner
       \/ /\ Goto(r, "idle")
          /\ UNCHANGED fsVars
    /\ UNCHANGED <<seenPid, seenAge, alive, clobbered>>

\* finish_acquire: the guard exists before the pid file is written.  The write goes
\* by path, so it lands in whatever directory is there; it fails when none is, and
\* may fail for lack of space.  A failed write drops the guard.
Stamp(r) ==
    /\ pc[r] = "stamping"
    /\ \/ /\ owner # None
          /\ pidFile' = ProcOf[r]
          /\ age' = 0
          /\ Goto(r, "holding")
          /\ UNCHANGED owner
       \/ /\ Goto(r, "dropping")
          /\ UNCHANGED fsVars
    /\ UNCHANGED <<seenPid, seenAge, alive, clobbered>>

\* LockGuard::drop, on the normal end of a run and on every early exit.
Drop(r) ==
    /\ pc[r] \in {"holding", "dropping"}
    /\ RemoveDir(r)
    /\ Goto(r, "idle")
    /\ UNCHANGED <<seenPid, seenAge, alive>>

(***************************************************************************)
(* The environment: processes die without unwinding, and time passes.      *)
(***************************************************************************)

Crash(p) ==
    /\ p \in Crashable
    /\ alive[p]
    /\ alive' = [alive EXCEPT ![p] = FALSE]
    /\ pc' = [r \in Runs |-> IF ProcOf[r] = p THEN "dead" ELSE pc[r]]
    /\ seenPid' = [r \in Runs |-> IF ProcOf[r] = p THEN None ELSE seenPid[r]]
    /\ seenAge' = [r \in Runs |-> IF ProcOf[r] = p THEN 0 ELSE seenAge[r]]
    /\ UNCHANGED <<owner, pidFile, age, clobbered>>

Tick ==
    /\ age' = IF owner = None THEN age ELSE Older(age)
    /\ seenAge' = [r \in Runs |-> IF seenPid[r] = None THEN seenAge[r]
                                                     ELSE Older(seenAge[r])]
    /\ UNCHANGED <<owner, pidFile, pc, seenPid, alive, clobbered>>

\* One run's next step, until its guard is dropped.
Acquire(r) ==
    \/ Mkdir(r) \/ ReadMeta(r) \/ Probe(r) \/ CheckAge(r)
    \/ Steal(r) \/ Recreate(r) \/ Stamp(r)

Next ==
    \/ \E r \in Runs : Acquire(r) \/ Drop(r)
    \/ \E p \in Procs : Crash(p)
    \/ Tick

Spec == Init /\ [][Next]_vars

\* No run outlives the timeout: the staleness rules that remain are a dead pid and a
\* directory whose age cannot be read.
PromptSpec == Init /\ [][\E r \in Runs : Acquire(r) \/ Drop(r)]_vars

\* A live run is scheduled, every await inside it has a timeout, a refused trigger
\* is fired again by the next cron boundary, and time passes.
Fairness ==
    /\ \A r \in Runs : WF_vars(Acquire(r) \/ Drop(r))
    /\ WF_vars(Tick)

FairSpec == Spec /\ Fairness

(***************************************************************************)
(* Properties                                                              *)
(***************************************************************************)

\* The run is between a successful acquire and its guard's drop.
Holds(r) == pc[r] = "holding"

\* lock.rs:5, "two compiles must never race on the same machine".
MutualExclusion == \A r, s \in Runs : Holds(r) /\ Holds(s) => r = s

\* What mkdir does guarantee: as long as nobody has removed the directory of a run
\* that is still using it, every run that owns a guard owns the directory, so no two
\* runs overlap.  All the ways to lose mutual exclusion go through such a removal.
OverlapNeedsClobber ==
    ~clobbered => \A r \in Runs : pc[r] \in Guarded => owner = r

\* No exit from acquire or from a run leaves its directory behind, clobbered or not:
\* a directory's maker still owns a guard, or died without unwinding (the guard is
\* built before the pid file is written for exactly this).
NoOrphanedLock ==
    owner # None => pc[owner] \in Guarded \cup {"dead"}

\* A directory whose maker died is removed in the end, even if its pid is recycled
\* or was never written: a crash never blocks the later runs for good.
DeadOwner == /\ owner # None
             /\ pc[owner] = "dead"
StaleLockReclaimed == DeadOwner ~> ~DeadOwner

=============================================================================
