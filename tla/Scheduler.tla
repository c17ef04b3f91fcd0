----------------------------- MODULE Scheduler -----------------------------
(***************************************************************************)
(* When a standup is compiled without anyone asking (scheduler_runtime.rs,  *)
(* install.rs and the lock of pipeline_runner.rs run): the cron tick of the *)
(* open application, the unit the operating system fires, the commands that *)
(* save a schedule and reconcile that unit, and the durable record of the   *)
(* last run, by which the tick decides what is due.                         *)
(*                                                                         *)
(* The application and the unit's process share two files, the run lock and *)
(* the record.  The lock is taken here for what RunLock shows of it when no *)
(* live run is robbed: one holder at a time, and a dead holder is replaced. *)
(***************************************************************************)
EXTENDS Cron

CONSTANTS Crons,       \* expressions the user may save
          Parse,       \* cron::parse: the fields of each
          Platforms,   \* of "launchd", "systemd", "task-scheduler"
          Offset,      \* local time is Offset minutes ahead of UTC
          Start, End,  \* the instants the model lives through
          Leap,        \* the longest the machine sleeps
          Lossy,       \* writing the record may fail
          None

ASSUME SchedulerAssumption ==
    /\ Parse \in [Crons -> CronSpec]
    /\ Platforms \subseteq {"launchd", "systemd", "task-scheduler"}
    /\ Offset \in Int /\ Leap \in Nat /\ Lossy \in BOOLEAN
    /\ Start \in Nat \ {0} /\ End \in Nat /\ Start <= End
    /\ None \notin Int /\ None \notin Crons

VARIABLES platform,
          cron,        \* config.scheduler.cron
          enabled,     \* config.scheduler.enabled
          unitFile,    \* the expression of the plist or timer on disk
          armed,       \* the expression the operating system fires on
          polled,      \* the instant up to which it has fired
          command,     \* where each IPC command stands in sync_system_unit
          clean,       \* history: the last reconciliation ran alone and without error
          now,
          open,        \* the application is running
          record,      \* scheduler-last-run.json, None when absent or unreadable
          lock,        \* the run that holds the lock; "dead" when its process died
          tick,        \* where the in-process tick stands
          tickAt,      \* the instant it began
          manual,      \* a manual run of the application is under way
          headless,    \* where the unit's process stands
          attempted,   \* history: the last instant a run ended, well or not
          answered,    \* history: the last tick that ended other than refused
          lost         \* history: a record could not be written

unit == <<unitFile, armed, polled>>
settings == <<platform, cron, enabled>>
runs == <<lock, tick, tickAt, manual, headless>>
history == <<attempted, answered, lost>>
vars == <<platform, cron, enabled, unitFile, armed, polled, command, clean, now,
          open, record, lock, tick, tickAt, manual, headless, attempted, answered, lost>>

Instants == Start .. End
Commands == {"set_cron", "set_enabled"}
CommandPCs == {"idle", "unload", "write", "load", "bootout", "remove", "create", "delete"}
Idle == [pc |-> "idle", cron |-> None]

TypeOK ==
    /\ platform \in Platforms
    /\ cron \in Crons /\ enabled \in BOOLEAN
    /\ {unitFile, armed} \subseteq Crons \cup {None}
    /\ polled \in Instants
    /\ command \in [Commands -> [pc : CommandPCs, cron : Crons \cup {None}]]
    /\ clean \in BOOLEAN
    /\ now \in Instants
    /\ open \in BOOLEAN
    /\ record \in Instants \cup {None}
    /\ lock \in {None, "tick", "manual", "headless", "dead"}
    /\ tick \in {"idle", "due", "running", "notifying"}
    /\ tickAt \in Instants \cup {None}
    /\ manual \in BOOLEAN
    /\ headless \in {"idle", "starting", "running"}
    /\ attempted \in Instants \cup {Start - 1}
    /\ answered \in Instants \cup {Start - 1}
    /\ lost \in BOOLEAN

Init ==
    /\ platform \in Platforms
    /\ cron \in Crons /\ enabled \in BOOLEAN
    /\ unitFile = None /\ armed = None /\ polled = Start
    /\ command = [c \in Commands |-> Idle] /\ clean = TRUE
    /\ now = Start /\ open = TRUE /\ record = None
    /\ lock = None /\ tick = "idle" /\ tickAt = None
    /\ manual = FALSE /\ headless = "idle"
    /\ attempted = Start - 1 /\ answered = Start - 1 /\ lost = FALSE

(***************************************************************************)
(* What the expressions say, as tables, so that a model checker looks it    *)
(* up.                                                                     *)
(***************************************************************************)

NextRuns == {<<x, t, NextRun(Parse[x], t)>> : x \in Crons, t \in Start - 2 .. End}
NextRunOf(x, t) == (CHOOSE r \in NextRuns : r[1] = x /\ r[2] = t)[3]

Units == {<<os, x, UnitTimes(os, Parse[x])>> : os \in Platforms, x \in Crons}
Unit(x) == (CHOOSE u \in Units : u[1] = platform /\ u[2] = x)[3]

\* The reference for both: the instants and the weekly times at which the fields match.
Boundaries == UNION {{<<x, t>> : t \in {u \in Instants : Matches(Parse[x], u)}} : x \in Crons}
OneWeek == WeekAnchor .. WeekAnchor + 7 * DayLength - 1
WeeklyMatches == {<<x, {WeekTime(t) : t \in {u \in OneWeek : Matches(Parse[x], u)}}>> : x \in Crons}

(***************************************************************************)
(* set_cron, set_enabled and sync_system_unit                              *)
(***************************************************************************)

\* Bounds: schedules change between runs, and a reconciliation ends before the next run
\* (the two share nothing but what is armed); of two commands that overlap, set_enabled
\* is the later.
BetweenRuns == tick = "idle" /\ ~manual /\ headless = "idle"

Settled == \A c \in Commands : command[c].pc = "idle"

FirstStep(on) ==
    CASE platform = "task-scheduler" -> IF on THEN "create" ELSE "delete"
      [] platform = "launchd" -> IF on THEN "unload" ELSE "bootout"
      [] platform = "systemd" -> IF on THEN "write" ELSE "bootout"

\* The first step of install or uninstall.  An expression the platform's unit cannot
\* carry is refused before anything is touched: an older unit stays as it is.
SyncSystemUnit(x, on) ==
    IF on /\ Unit(x) = Never THEN "idle" ELSE FirstStep(on)

Reconcile(c, x, on) ==
    LET pc == SyncSystemUnit(x, on)
    IN  /\ command' = [command EXCEPT ![c] = IF pc = "idle" THEN Idle
                                             ELSE [pc |-> pc, cron |-> x]]
        /\ clean' = (Settled /\ pc # "idle")

\* validate_cron, then the configuration is saved, then the unit follows.
SetCron(x) ==
    /\ open /\ BetweenRuns /\ Settled
    /\ NextRunOf(x, now) # Never
    /\ cron' = x
    /\ Reconcile("set_cron", x, enabled)
    /\ UNCHANGED <<platform, enabled, unit, now, open, record, runs, history>>

\* Mutant: the unit follows the switch as it was.
SetEnabledStale(on) ==
    /\ open /\ BetweenRuns /\ command["set_enabled"].pc = "idle"
    /\ NextRunOf(cron, now) # Never
    /\ enabled' = on
    /\ Reconcile("set_enabled", cron, enabled)
    /\ UNCHANGED <<platform, cron, unit, now, open, record, runs, history>>

SetEnabled(on) ==
    /\ open /\ BetweenRuns /\ command["set_enabled"].pc = "idle"
    /\ NextRunOf(cron, now) # Never
    /\ enabled' = on
    /\ Reconcile("set_enabled", cron, on)
    /\ UNCHANGED <<platform, cron, unit, now, open, record, runs, history>>

\* One awaited call or file operation of command c, which leads to `next` or fails.
At(c, pc) == command[c].pc = pc
Then(c, next) ==
    /\ command' = [command EXCEPT ![c] = IF next = "idle" THEN Idle ELSE [@ EXCEPT !.pc = next]]
    /\ UNCHANGED <<settings, now, open, record, runs, history>>
Arm(x) == armed' = x /\ polled' = now

\* run_best_effort: bootout before a bootstrap, or bootout / disable --now before the
\* files go; what fails here is only logged.
Unload(c) ==
    \E pc \in {"unload", "bootout"} :
        /\ At(c, pc)
        /\ Then(c, IF pc = "unload" THEN "write" ELSE "remove")
        /\ \/ Arm(None) /\ UNCHANGED clean
           \/ armed # None /\ clean' = FALSE /\ UNCHANGED <<armed, polled>>
        /\ UNCHANGED unitFile

\* write_unit
WriteUnit(c) ==
    /\ At(c, "write")
    /\ \/ unitFile' = command[c].cron /\ Then(c, "load") /\ UNCHANGED clean
       \/ UNCHANGED unitFile /\ Then(c, "idle") /\ clean' = FALSE
    /\ UNCHANGED <<armed, polled>>

\* bootstrap refuses a label that is loaded, and has nothing to load without a file;
\* daemon-reload and enable --now arm the timer with whatever is on disk.
Load(c) ==
    /\ At(c, "load")
    /\ Then(c, "idle")
    /\ \/ /\ unitFile # None
          /\ platform = "launchd" => armed = None
          /\ Arm(unitFile) /\ UNCHANGED clean
       \/ clean' = FALSE /\ UNCHANGED <<armed, polled>>
    /\ UNCHANGED unitFile

\* remove_unit
RemoveUnit(c) ==
    /\ At(c, "remove")
    /\ Then(c, "idle")
    /\ \/ unitFile' = None /\ UNCHANGED clean
       \/ unitFile # None /\ clean' = FALSE /\ UNCHANGED unitFile
    /\ UNCHANGED <<armed, polled>>

\* schtasks /Create /F and /Delete /F, each of which is one call.
Schtasks(c) ==
    /\ At(c, "create") \/ At(c, "delete")
    /\ Then(c, "idle")
    /\ \/ Arm(IF At(c, "create") THEN command[c].cron ELSE None) /\ UNCHANGED clean
       \/ (At(c, "create") \/ armed # None) /\ clean' = FALSE /\ UNCHANGED <<armed, polled>>
    /\ UNCHANGED unitFile

SyncStep(c) == Unload(c) \/ WriteUnit(c) \/ Load(c) \/ RemoveUnit(c) \/ Schtasks(c)

(***************************************************************************)
(* The run lock, taken for what RunLock promises.                          *)
(***************************************************************************)

Free == lock \in {None, "dead"}

\* Mutant: the record is stamped with the local clock.
WriteRecordLocal(at) == record' = at + Offset /\ UNCHANGED lost

\* write_run_record: best effort, and a plain write.  What is left of the old record when
\* it fails is the old record, or nothing that can be read.
WriteRecord(at) ==
    \E r \in IF Lossy THEN {at, record, None} ELSE {at} :
        /\ record' = r
        /\ lost' = (lost \/ r # at)

(***************************************************************************)
(* The in-process tick                                                     *)
(***************************************************************************)

\* is_due: the first boundary after the last run has passed.  Without a record only the
\* last minute is looked at.
IsDue(at) ==
    LET next == NextRunOf(cron, IF record = None THEN at - 1 ELSE record)
    IN  next # Never /\ next <= at

\* tick: enabled, and due.  The other ticks change nothing.
TickDue ==
    /\ Settled /\ open /\ tick = "idle"
    /\ enabled /\ IsDue(now)
    /\ tick' = "due" /\ tickAt' = now
    /\ UNCHANGED <<settings, unit, command, clean, now, open, record, lock, manual, headless, history>>

\* Mutant: a refused run is recorded like one that failed.
RefusedIsRecorded ==
    /\ tick = "due" /\ ~Free
    /\ tick' = "idle" /\ tickAt' = None
    /\ record' = tickAt
    /\ UNCHANGED <<settings, unit, command, clean, now, open, lock, manual, headless, history>>

\* run_due with the lock taken: nothing is recorded, so the next tick looks again.
TickRefused ==
    /\ tick = "due" /\ ~Free
    /\ tick' = "idle" /\ tickAt' = None
    /\ UNCHANGED <<settings, unit, command, clean, now, open, record, lock, manual, headless, history>>

TickStarts ==
    /\ tick = "due" /\ Free
    /\ tick' = "running" /\ lock' = "tick"
    /\ UNCHANGED <<settings, unit, command, clean, now, open, record, tickAt, manual, headless, history>>

\* Mutant: a failed run is not recorded either.
FailedIsNotRecorded ==
    /\ tick = "due"
    /\ tick' = "idle" /\ tickAt' = None
    /\ attempted' = now /\ answered' = tickAt
    /\ UNCHANGED <<settings, unit, command, clean, now, open, record, lock, manual, headless, lost>>

\* RunEnv::load fails before the lock: the failure is recorded, for the next boundary.
TickFails ==
    /\ tick = "due"
    /\ tick' = "idle" /\ tickAt' = None
    /\ WriteRecord(tickAt)
    /\ attempted' = now /\ answered' = tickAt
    /\ UNCHANGED <<settings, unit, command, clean, now, open, lock, manual, headless>>

\* The end of pipeline_runner::run: record_run with the time it is now, then the guard.
TickRunEnds ==
    /\ tick = "running"
    /\ tick' = "notifying" /\ lock' = None
    /\ WriteRecord(now)
    /\ attempted' = now
    /\ UNCHANGED <<settings, unit, command, clean, now, open, tickAt, manual, headless, answered>>

\* A panic inside the run unwinds into the tick's own task, and through the guard.
TickPanics ==
    /\ tick = "running"
    /\ tick' = "idle" /\ tickAt' = None /\ lock' = None
    /\ UNCHANGED <<settings, unit, command, clean, now, open, record, manual, headless, history>>

\* run_due, after the notifications were awaited: the time the tick began.
TickRecords ==
    /\ tick = "notifying"
    /\ tick' = "idle" /\ tickAt' = None
    /\ WriteRecord(tickAt)
    /\ answered' = tickAt
    /\ UNCHANGED <<settings, unit, command, clean, now, open, lock, manual, headless, attempted>>

(***************************************************************************)
(* The other runs: a manual one of the application, and the unit's.        *)
(***************************************************************************)

ManualStarts ==
    /\ Settled /\ open /\ ~manual /\ Free
    /\ manual' = TRUE /\ lock' = "manual"
    /\ UNCHANGED <<settings, unit, command, clean, now, open, record, tick, tickAt, headless, history>>

ManualEnds ==
    /\ manual
    /\ manual' = FALSE /\ lock' = None
    /\ WriteRecord(now)
    /\ attempted' = now
    /\ UNCHANGED <<settings, unit, command, clean, now, open, tick, tickAt, headless, answered>>

\* The operating system reads a unit's times on the local clock.  Instants slept over are made
\* up for by one start, and a unit that still runs is not started again.
UnitFires ==
    /\ Settled /\ armed # None /\ headless = "idle"
    /\ \E t \in polled + 1 .. now : WeekTime(t + Offset) \in Unit(armed)
    /\ headless' = "starting" /\ polled' = now
    /\ UNCHANGED <<settings, unitFile, armed, command, clean, now, open, record, lock, tick, tickAt,
                   manual, history>>

\* main.rs compile asks nobody whether a run is due; refused, it exits.
HeadlessStarts ==
    /\ headless = "starting"
    /\ \/ Free /\ headless' = "running" /\ lock' = "headless"
       \/ ~Free /\ headless' = "idle" /\ UNCHANGED lock
    /\ UNCHANGED <<settings, unit, command, clean, now, open, record, tick, tickAt, manual, history>>

HeadlessEnds ==
    /\ headless = "running"
    /\ headless' = "idle" /\ lock' = None
    /\ WriteRecord(now)
    /\ attempted' = now
    /\ UNCHANGED <<settings, unit, command, clean, now, open, tick, tickAt, manual, answered>>

(***************************************************************************)
(* The environment                                                         *)
(***************************************************************************)

\* The application quits or dies; a reconciliation it was in the middle of stops there.
Quit ==
    /\ open
    /\ open' = FALSE
    /\ tick' = "idle" /\ tickAt' = None /\ manual' = FALSE
    /\ lock' = IF lock \in {"tick", "manual"} THEN "dead" ELSE lock
    /\ command' = [c \in Commands |-> Idle]
    /\ clean' = (clean /\ Settled)
    /\ UNCHANGED <<settings, unit, now, record, headless, history>>

Launch ==
    /\ ~open
    /\ open' = TRUE
    /\ UNCHANGED <<settings, unit, command, clean, now, record, runs, history>>

HeadlessDies ==
    /\ headless = "running"
    /\ headless' = "idle" /\ lock' = "dead"
    /\ UNCHANGED <<settings, unit, command, clean, now, open, record, tick, tickAt, manual, history>>

\* A login: launchd loads the plist that is there, systemd starts the enabled timer.
Login ==
    /\ ~open /\ headless = "idle"
    /\ \/ platform = "launchd" /\ Arm(unitFile)
       \/ platform = "systemd" /\ armed # None /\ Arm(unitFile)
    /\ UNCHANGED <<settings, unitFile, command, clean, now, open, record, runs, history>>

\* Time passes, or the machine sleeps.
Pass ==
    /\ Settled
    /\ \E t \in now + 1 .. now + Leap : t <= End /\ now' = t
    /\ UNCHANGED <<settings, unit, command, clean, open, record, runs, history>>

Tick == TickDue \/ TickRefused \/ TickStarts \/ TickFails \/ TickRunEnds \/ TickPanics \/ TickRecords

Next ==
    \/ \E x \in Crons : SetCron(x)
    \/ \E on \in BOOLEAN : SetEnabled(on)
    \/ \E c \in Commands : SyncStep(c)
    \/ Tick
    \/ ManualStarts \/ ManualEnds
    \/ UnitFires \/ HeadlessStarts \/ HeadlessEnds
    \/ Quit \/ Launch \/ HeadlessDies \/ Login \/ Pass

Spec == Init /\ [][Next]_vars

\* The interval timer wakes the tick, which no reconciliation holds back in the code; each
\* call of one has a timeout; a run ends, and not every one in a panic.
Fairness ==
    /\ SF_vars(TickDue) /\ SF_vars(TickStarts) /\ SF_vars(TickRunEnds)
    /\ WF_vars(TickRefused \/ TickStarts \/ TickFails) /\ WF_vars(TickRecords)
    /\ WF_vars(ManualEnds) /\ WF_vars(HeadlessEnds)
    /\ \A c \in Commands : WF_vars(SyncStep(c))

FairSpec == Spec /\ Fairness

(***************************************************************************)
(* Properties                                                              *)
(***************************************************************************)

\* install.rs:29, "Silently installing a unit that fires at the wrong time is far worse
\* than refusing": whatever is armed has exactly the weekly runs of its expression.
UnitIsFaithful == armed # None => <<armed, Unit(armed)>> \in WeeklyMatches

\* A reconciliation that ran alone and without error leaves nothing armed but the saved
\* schedule, and nothing at all when it is disabled, logins included.
UnitTracksConfig ==
    Settled /\ clean /\ armed # None => enabled /\ armed = cron

\* cron.rs skips whole days: what it finds is the first matching instant.
NextRunIsFirst ==
    LET next == NextRunOf(cron, now)
    IN  next # Never => /\ next > now /\ Matches(Parse[cron], next)
                        /\ \A t \in now + 1 .. next - 1 : ~Matches(Parse[cron], t)

\* Unless a record was lost, a tick finds a boundary that no earlier tick has answered,
\* whatever manual runs, the unit and the other order of the stamps did in between: a
\* failing pipeline is not run again every minute.
InProcessOnce ==
    [][tick = "idle" /\ tick' = "due" =>
          lost \/ \E b \in answered + 1 .. now : <<cron, b>> \in Boundaries]_vars

\* A boundary that passed since the last run leads to one, unless the application is
\* closed, the schedule disabled or changed, or a record lost: nothing swallows it.
Owed(b) ==
    /\ open /\ enabled /\ ~lost /\ record # None
    /\ <<cron, b>> \in Boundaries /\ b <= now /\ attempted < b
BoundaryServed == \A b \in Instants : Owed(b) ~> ~Owed(b)

=============================================================================
