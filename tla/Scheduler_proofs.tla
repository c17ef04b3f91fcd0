-------------------------- MODULE Scheduler_proofs --------------------------
(***************************************************************************)
(* What holds of the schedule, its record and the unit that is armed, for   *)
(* any expressions, any platform, any length of time and any failures.      *)
(***************************************************************************)
EXTENDS Scheduler, Induction, FiniteSetTheorems

-----------------------------------------------------------------------------
(* Types *)

\* A tick that has begun knows when.
TickInv == tick # "idle" => tickAt \in Instants
TInv == TypeOK /\ TickInv

CommandRec == [pc : CommandPCs, cron : Crons \cup {None}]

LEMMA IdleTyped == Idle \in CommandRec
BY DEF Idle, CommandRec, CommandPCs

LEMMA TypeInit == Init => TInv
<1> SUFFICES ASSUME Init PROVE TInv
  OBVIOUS
<1>1. Start \in Instants /\ Start \in Nat
  BY SchedulerAssumption DEF Instants
<1>2. command \in [Commands -> [pc : CommandPCs, cron : Crons \cup {None}]]
  BY IdleTyped DEF Init, CommandRec
<1> QED BY <1>1, <1>2 DEF Init, TInv, TickInv, TypeOK

LEMMA WriteRecordTyped ==
    ASSUME TInv, NEW at \in Instants, WriteRecord(at)
    PROVE  record' \in Instants \cup {None} /\ lost' \in BOOLEAN
BY DEF TInv, TypeOK, WriteRecord

LEMMA ReconcileTyped ==
    ASSUME TInv, NEW c \in Commands, NEW x \in Crons, NEW on \in BOOLEAN, Reconcile(c, x, on)
    PROVE  /\ command' \in [Commands -> [pc : CommandPCs, cron : Crons \cup {None}]]
           /\ clean' \in BOOLEAN
<1>1. platform \in {"launchd", "systemd", "task-scheduler"}
  BY SchedulerAssumption DEF TInv, TypeOK
<1>2. FirstStep(on) \in CommandPCs
  BY <1>1 DEF FirstStep, CommandPCs
<1>3. SyncSystemUnit(x, on) \in CommandPCs
  BY <1>2 DEF SyncSystemUnit, CommandPCs
<1>4. [pc |-> SyncSystemUnit(x, on), cron |-> x] \in CommandRec
  BY <1>3 DEF CommandRec
<1>5. command' = [command EXCEPT ![c] = IF SyncSystemUnit(x, on) = "idle" THEN Idle
                                       ELSE [pc |-> SyncSystemUnit(x, on), cron |-> x]]
  BY DEF Reconcile
<1> QED BY <1>4, <1>5, IdleTyped DEF Reconcile, TInv, TypeOK, CommandRec

LEMMA ThenTyped ==
    ASSUME TInv, NEW c \in Commands, NEW pc \in CommandPCs, Then(c, pc)
    PROVE  command' \in [Commands -> [pc : CommandPCs, cron : Crons \cup {None}]]
<1>1. command[c] \in CommandRec /\ command \in [Commands -> CommandRec]
  BY DEF TInv, TypeOK, CommandRec
<1>2. [command[c] EXCEPT !.pc = pc] \in CommandRec
  BY <1>1 DEF CommandRec
<1>3. command' = [command EXCEPT ![c] = IF pc = "idle" THEN Idle
                                       ELSE [command[c] EXCEPT !.pc = pc]]
  BY DEF Then
<1>4. command' \in [Commands -> CommandRec]
  BY <1>1, <1>2, <1>3, IdleTyped
<1> QED BY <1>4 DEF CommandRec

\* A step of a reconciliation: what is left to show of it.
LEMMA SyncStepTyped ==
    ASSUME TInv, NEW c \in Commands, NEW pc \in CommandPCs, Then(c, pc),
           unitFile' \in Crons \cup {None}, armed' \in Crons \cup {None}, polled' \in Instants,
           clean' \in BOOLEAN
    PROVE  TInv'
<1>1. command' \in [Commands -> [pc : CommandPCs, cron : Crons \cup {None}]]
  BY ThenTyped
<1> QED BY <1>1 DEF Then, settings, runs, history, TInv, TypeOK, TickInv

LEMMA TypeStep == TInv /\ [Next]_vars => TInv'
<1> SUFFICES ASSUME TInv, [Next]_vars PROVE TInv'
  OBVIOUS
<1>t. now \in Instants /\ (tick # "idle" => tickAt \in Instants)
  BY DEF TInv, TypeOK, TickInv
<1>u. /\ unitFile \in Crons \cup {None} /\ armed \in Crons \cup {None} /\ polled \in Instants
      /\ command \in [Commands -> CommandRec] /\ clean \in BOOLEAN
  BY DEF TInv, TypeOK, CommandRec
<1>1. ASSUME NEW x \in Crons, SetCron(x) PROVE TInv'
  <2>1. "set_cron" \in Commands /\ enabled \in BOOLEAN
    BY DEF Commands, TInv, TypeOK
  <2>2. Reconcile("set_cron", x, enabled)
    BY <1>1 DEF SetCron
  <2>3. /\ command' \in [Commands -> [pc : CommandPCs, cron : Crons \cup {None}]]
        /\ clean' \in BOOLEAN
    BY <2>1, <2>2, ReconcileTyped
  <2> QED BY <1>1, <2>3 DEF SetCron, unit, runs, history, TInv, TypeOK, TickInv
<1>2. ASSUME NEW on \in BOOLEAN, SetEnabled(on) PROVE TInv'
  <2>1. "set_enabled" \in Commands /\ cron \in Crons
    BY DEF Commands, TInv, TypeOK
  <2>2. Reconcile("set_enabled", cron, on)
    BY <1>2 DEF SetEnabled
  <2>3. /\ command' \in [Commands -> [pc : CommandPCs, cron : Crons \cup {None}]]
        /\ clean' \in BOOLEAN
    BY <2>1, <2>2, ReconcileTyped
  <2> QED BY <1>2, <2>3 DEF SetEnabled, unit, runs, history, TInv, TypeOK, TickInv
<1>3. ASSUME NEW c \in Commands, SyncStep(c) PROVE TInv'
  <2>1. ASSUME Unload(c) PROVE TInv'
    <3>1. PICK pc \in {"write", "remove"} : Then(c, pc)
      BY <2>1 DEF Unload
    <3>2. /\ unitFile' \in Crons \cup {None} /\ armed' \in Crons \cup {None}
          /\ polled' \in Instants /\ clean' \in BOOLEAN
      BY <2>1, <1>t, <1>u DEF Unload, Arm
    <3> QED BY <3>1, <3>2, SyncStepTyped DEF CommandPCs
  <2>2. ASSUME WriteUnit(c) PROVE TInv'
    <3>1. PICK pc \in {"load", "idle"} : Then(c, pc)
      BY <2>2 DEF WriteUnit
    <3>2. command[c].cron \in Crons \cup {None}
      BY <1>u DEF CommandRec
    <3>3. /\ unitFile' \in Crons \cup {None} /\ armed' \in Crons \cup {None}
          /\ polled' \in Instants /\ clean' \in BOOLEAN
      BY <2>2, <3>2, <1>u DEF WriteUnit
    <3> QED BY <3>1, <3>3, SyncStepTyped DEF CommandPCs
  <2>3. ASSUME Load(c) PROVE TInv'
    <3>1. /\ unitFile' \in Crons \cup {None} /\ armed' \in Crons \cup {None}
          /\ polled' \in Instants /\ clean' \in BOOLEAN
      BY <2>3, <1>t, <1>u DEF Load, Arm
    <3> QED BY <2>3, <3>1, SyncStepTyped DEF Load, CommandPCs
  <2>4. ASSUME RemoveUnit(c) PROVE TInv'
    <3>1. /\ unitFile' \in Crons \cup {None} /\ armed' \in Crons \cup {None}
          /\ polled' \in Instants /\ clean' \in BOOLEAN
      BY <2>4, <1>u DEF RemoveUnit
    <3> QED BY <2>4, <3>1, SyncStepTyped DEF RemoveUnit, CommandPCs
  <2>5. ASSUME Schtasks(c) PROVE TInv'
    <3>1. command[c].cron \in Crons \cup {None}
      BY <1>u DEF CommandRec
    <3>2. /\ unitFile' \in Crons \cup {None} /\ armed' \in Crons \cup {None}
          /\ polled' \in Instants /\ clean' \in BOOLEAN
      BY <2>5, <3>1, <1>t, <1>u DEF Schtasks, Arm
    <3> QED BY <2>5, <3>2, SyncStepTyped DEF Schtasks, CommandPCs
  <2> QED BY <1>3, <2>1, <2>2, <2>3, <2>4, <2>5 DEF SyncStep
<1>4. ASSUME Tick PROVE TInv'
  <2>1. ASSUME TickDue PROVE TInv'
    BY <2>1, <1>t DEF TickDue, settings, unit, history, TInv, TypeOK, TickInv
  <2>2. ASSUME TickRefused PROVE TInv'
    BY <2>2 DEF TickRefused, settings, unit, history, TInv, TypeOK, TickInv
  <2>3. ASSUME TickStarts PROVE TInv'
    BY <2>3, <1>t DEF TickStarts, settings, unit, history, TInv, TypeOK, TickInv
  <2>4. ASSUME TickFails PROVE TInv'
    <3>1. record' \in Instants \cup {None} /\ lost' \in BOOLEAN
      BY <2>4, <1>t, WriteRecordTyped DEF TickFails
    <3> QED BY <2>4, <3>1, <1>t DEF TickFails, settings, unit, TInv, TypeOK, TickInv
  <2>5. ASSUME TickRunEnds PROVE TInv'
    <3>1. record' \in Instants \cup {None} /\ lost' \in BOOLEAN
      BY <2>5, <1>t, WriteRecordTyped DEF TickRunEnds
    <3> QED BY <2>5, <3>1, <1>t DEF TickRunEnds, settings, unit, TInv, TypeOK, TickInv
  <2>6. ASSUME TickPanics PROVE TInv'
    BY <2>6 DEF TickPanics, settings, unit, history, TInv, TypeOK, TickInv
  <2>7. ASSUME TickRecords PROVE TInv'
    <3>1. record' \in Instants \cup {None} /\ lost' \in BOOLEAN
      BY <2>7, <1>t, WriteRecordTyped DEF TickRecords
    <3> QED BY <2>7, <3>1, <1>t DEF TickRecords, settings, unit, TInv, TypeOK, TickInv
  <2> QED BY <1>4, <2>1, <2>2, <2>3, <2>4, <2>5, <2>6, <2>7 DEF Tick
<1>5. ASSUME ManualStarts PROVE TInv'
  BY <1>5 DEF ManualStarts, settings, unit, history, TInv, TypeOK, TickInv
<1>6. ASSUME ManualEnds PROVE TInv'
  <2>1. record' \in Instants \cup {None} /\ lost' \in BOOLEAN
    BY <1>6, <1>t, WriteRecordTyped DEF ManualEnds
  <2> QED BY <1>6, <2>1, <1>t DEF ManualEnds, settings, unit, TInv, TypeOK, TickInv
<1>7. ASSUME UnitFires PROVE TInv'
  BY <1>7, <1>t DEF UnitFires, settings, history, TInv, TypeOK, TickInv
<1>8. ASSUME HeadlessStarts PROVE TInv'
  BY <1>8 DEF HeadlessStarts, settings, unit, history, TInv, TypeOK, TickInv
<1>9. ASSUME HeadlessEnds PROVE TInv'
  <2>1. record' \in Instants \cup {None} /\ lost' \in BOOLEAN
    BY <1>9, <1>t, WriteRecordTyped DEF HeadlessEnds
  <2> QED BY <1>9, <2>1, <1>t DEF HeadlessEnds, settings, unit, TInv, TypeOK, TickInv
<1>10. ASSUME Quit PROVE TInv'
  <2>1. command' \in [Commands -> [pc : CommandPCs, cron : Crons \cup {None}]]
    BY <1>10, IdleTyped DEF Quit, CommandRec
  <2>2. lock' \in {None, "tick", "manual", "headless", "dead"} /\ clean' \in BOOLEAN
    BY <1>10, <1>u DEF Quit, TInv, TypeOK
  <2> QED BY <1>10, <2>1, <2>2 DEF Quit, settings, unit, history, TInv, TypeOK, TickInv
<1>11. ASSUME Launch PROVE TInv'
  BY <1>11 DEF Launch, settings, unit, runs, history, TInv, TypeOK, TickInv
<1>12. ASSUME HeadlessDies PROVE TInv'
  BY <1>12 DEF HeadlessDies, settings, unit, history, TInv, TypeOK, TickInv
<1>13. ASSUME Login PROVE TInv'
  BY <1>13, <1>t DEF Login, Arm, settings, runs, history, TInv, TypeOK, TickInv
<1>14. ASSUME Pass PROVE TInv'
  <2>1. now' \in Instants
    BY <1>14, SchedulerAssumption DEF Pass, Instants, TInv, TypeOK
  <2> QED BY <1>14, <2>1 DEF Pass, settings, unit, runs, history, TInv, TypeOK, TickInv
<1>15. CASE UNCHANGED vars
  BY <1>15 DEF vars, TInv, TypeOK, TickInv
<1> QED BY <1>1, <1>2, <1>3, <1>4, <1>5, <1>6, <1>7, <1>8, <1>9, <1>10, <1>11, <1>12, <1>13,
          <1>14, <1>15 DEF Next

\* Scheduler!TypeOK: settings, unit, record, lock and the histories keep their types; every
\* record is an instant that was lived through.
THEOREM TypeCorrect == Spec => []TypeOK
<1>1. TInv => TypeOK
  BY DEF TInv
<1> QED BY <1>1, TypeInit, TypeStep, PTL DEF Spec

-----------------------------------------------------------------------------
(* The unit follows the configuration *)

\* What a command that reconciles is after: the schedule saved, on the way to an armed unit
\* or to none, with the old one out of its way where the platform needs that.
Pursues(c) ==
    LET pc == command[c].pc
    IN  /\ pc \in {"unload", "write", "load", "create"} => enabled /\ command[c].cron = cron
        /\ pc \in {"bootout", "remove", "delete"} => ~enabled
        /\ platform = "launchd" => pc \in {"unload", "write", "load", "bootout", "remove"}
        /\ platform = "systemd" => pc \in {"write", "load", "bootout", "remove"}
        /\ platform = "task-scheduler" => pc \in {"create", "delete"}
        /\ pc = "remove" => armed = None
        /\ platform = "launchd" /\ pc \in {"write", "load"} => armed = None
        /\ pc = "load" => unitFile = cron

\* What is left behind: nothing is armed but the schedule, and no login arms another.
Resting ==
    /\ armed # None => enabled /\ armed = cron
    /\ platform = "launchd" /\ unitFile # None => enabled /\ unitFile = cron
    /\ platform = "systemd" /\ armed # None => unitFile = cron

Busy == {c \in Commands : command[c].pc # "idle"}

UnitInv ==
    clean => \/ Busy = {} /\ Resting
             \/ \E c \in Commands : Busy = {c} /\ Pursues(c)

LEMMA SettledIsBusyEmpty == Settled <=> Busy = {}
BY DEF Settled, Busy

\* No command outlives the application.
OpenInv == ~open => Busy = {}

LEMMA OpenStep == TInv /\ OpenInv /\ [Next]_vars => OpenInv'
<1> SUFFICES ASSUME TInv, OpenInv, [Next]_vars PROVE OpenInv'
  OBVIOUS
<1>1. ASSUME NEW c \in Commands, SyncStep(c) PROVE OpenInv'
  <2>1. c \in Busy /\ open' = open
    BY <1>1 DEF SyncStep, Unload, WriteUnit, Load, RemoveUnit, Schtasks, At, Then, Busy
  <2> QED BY <2>1 DEF OpenInv
<1>2. ASSUME Quit PROVE OpenInv'
  BY <1>2 DEF Quit, OpenInv, Busy, Idle
<1>3. ASSUME (\E x \in Crons : SetCron(x)) \/ (\E on \in BOOLEAN : SetEnabled(on)) \/ Launch
      PROVE  open'
  BY <1>3 DEF SetCron, SetEnabled, Launch
<1>4. ASSUME UNCHANGED <<open, command>> PROVE OpenInv'
  BY <1>4 DEF OpenInv, Busy
<1>5. Tick => UNCHANGED <<open, command>>
  BY DEF Tick, TickDue, TickRefused, TickStarts, TickFails, TickRunEnds, TickPanics, TickRecords
<1>6. \/ ManualStarts \/ ManualEnds \/ UnitFires \/ HeadlessStarts \/ HeadlessEnds
      \/ HeadlessDies \/ Login \/ Pass \/ UNCHANGED vars
      => UNCHANGED <<open, command>>
  BY DEF ManualStarts, ManualEnds, UnitFires, HeadlessStarts, HeadlessEnds, HeadlessDies, Login,
     Pass, vars
<1> QED BY <1>1, <1>2, <1>3, <1>4, <1>5, <1>6 DEF Next, OpenInv

LEMMA UnitInit == Init => UnitInv
<1> SUFFICES ASSUME Init PROVE UnitInv
  OBVIOUS
<1>1. Busy = {}
  BY DEF Init, Busy, Idle
<1>2. Resting
  BY DEF Init, Resting
<1> QED BY <1>1, <1>2 DEF UnitInv

\* A command that has just saved a schedule, with no other under way.
LEMMA ReconcileTracks ==
    ASSUME TInv, NEW c \in Commands, cron' \in Crons, enabled' \in BOOLEAN,
           Reconcile(c, cron', enabled'), UNCHANGED <<platform, unitFile, armed>>
    PROVE  UnitInv'
<1> DEFINE pc == SyncSystemUnit(cron', enabled')
<1>1. CASE Settled /\ pc # "idle"
  <2>1. command' = [command EXCEPT ![c] = [pc |-> pc, cron |-> cron']]
    BY <1>1 DEF Reconcile
  <2>2. command'[c].pc = pc /\ command'[c].cron = cron'
    BY <2>1 DEF TInv, TypeOK
  <2>3. \A d \in Commands \ {c} : command'[d] = command[d]
    BY <2>1 DEF TInv, TypeOK
  <2>4. Busy' = {c}
    BY <1>1, <2>2, <2>3 DEF Settled, Busy
  <2>5. pc = FirstStep(enabled')
    BY <1>1 DEF SyncSystemUnit
  <2>6. platform \in {"launchd", "systemd", "task-scheduler"}
    BY SchedulerAssumption DEF TInv, TypeOK
  <2>7. Pursues(c)'
    BY <2>2, <2>5, <2>6 DEF Pursues, FirstStep
  <2> QED BY <2>4, <2>7 DEF UnitInv
<1>2. CASE ~(Settled /\ pc # "idle")
  BY <1>2 DEF Reconcile, UnitInv
<1> QED BY <1>1, <1>2

\* One step of the command under way.
LEMMA ThenBusy ==
    ASSUME TInv, NEW c \in Commands, NEW pc \in CommandPCs, Then(c, pc), Busy = {c}
    PROVE  /\ pc = "idle" => Busy' = {}
           /\ pc # "idle" => /\ Busy' = {c} /\ command'[c].pc = pc
                             /\ command'[c].cron = command[c].cron
           /\ UNCHANGED <<platform, cron, enabled>>
<1>1. command \in [Commands -> [pc : CommandPCs, cron : Crons \cup {None}]]
  BY DEF TInv, TypeOK
<1>2. command' = [command EXCEPT ![c] = IF pc = "idle" THEN Idle
                                       ELSE [command[c] EXCEPT !.pc = pc]]
  BY DEF Then
<1>3. \A d \in Commands \ {c} : command'[d] = command[d]
  BY <1>1, <1>2
<1>4. command'[c] = IF pc = "idle" THEN Idle ELSE [command[c] EXCEPT !.pc = pc]
  BY <1>1, <1>2
<1>5. pc = "idle" => command'[c].pc = "idle"
  BY <1>4 DEF Idle
<1>6. pc # "idle" => command'[c].pc = pc /\ command'[c].cron = command[c].cron
  BY <1>1, <1>4
<1> QED BY <1>3, <1>5, <1>6 DEF Busy, Then, settings

LEMMA SyncStepTracks ==
    ASSUME TInv, UnitInv, NEW c \in Commands, SyncStep(c), clean'
    PROVE  UnitInv'
<1>p. platform \in {"launchd", "systemd", "task-scheduler"}
  BY SchedulerAssumption DEF TInv, TypeOK
<1>n. None \notin Crons /\ cron \in Crons
  BY SchedulerAssumption DEF TInv, TypeOK
<1>0. clean /\ Busy = {c} /\ Pursues(c)
  <2>1. c \in Busy
    BY DEF SyncStep, Unload, WriteUnit, Load, RemoveUnit, Schtasks, At, Busy
  <2>2. clean
    BY DEF SyncStep, Unload, WriteUnit, Load, RemoveUnit, Schtasks
  <2> QED BY <2>1, <2>2 DEF UnitInv
<1>1. ASSUME Unload(c) PROVE UnitInv'
  <2>1. armed' = None /\ unitFile' = unitFile
    BY <1>1 DEF Unload, Arm
  <2>2. CASE At(c, "unload") /\ Then(c, "write")
    <3>1. /\ Busy' = {c} /\ command'[c].pc = "write" /\ command'[c].cron = command[c].cron
          /\ UNCHANGED <<platform, cron, enabled>>
      BY <1>0, <2>2, ThenBusy DEF CommandPCs
    <3>2. Pursues(c)'
      BY <1>0, <2>1, <2>2, <3>1 DEF Pursues, At
    <3> QED BY <3>1, <3>2 DEF UnitInv
  <2>3. CASE At(c, "bootout") /\ Then(c, "remove")
    <3>1. /\ Busy' = {c} /\ command'[c].pc = "remove" /\ UNCHANGED <<platform, cron, enabled>>
      BY <1>0, <2>3, ThenBusy DEF CommandPCs
    <3>2. Pursues(c)'
      BY <1>0, <2>1, <2>3, <3>1 DEF Pursues, At
    <3> QED BY <3>1, <3>2 DEF UnitInv
  <2> QED BY <1>1, <2>2, <2>3 DEF Unload
<1>2. ASSUME WriteUnit(c) PROVE UnitInv'
  <2>1. At(c, "write") /\ unitFile' = command[c].cron /\ Then(c, "load") /\ armed' = armed
    BY <1>2 DEF WriteUnit
  <2>2. /\ Busy' = {c} /\ command'[c].pc = "load" /\ command'[c].cron = command[c].cron
        /\ UNCHANGED <<platform, cron, enabled>>
    BY <1>0, <2>1, ThenBusy DEF CommandPCs
  <2>3. Pursues(c)'
    BY <1>0, <2>1, <2>2 DEF Pursues, At
  <2> QED BY <2>2, <2>3 DEF UnitInv
<1>3. ASSUME Load(c) PROVE UnitInv'
  <2>1. At(c, "load") /\ Then(c, "idle") /\ armed' = unitFile /\ unitFile' = unitFile
    BY <1>3 DEF Load, Arm
  <2>2. Busy' = {} /\ UNCHANGED <<platform, cron, enabled>>
    BY <1>0, <2>1, ThenBusy DEF CommandPCs
  <2>3. Resting'
    BY <1>0, <2>1, <2>2 DEF Pursues, Resting, At
  <2> QED BY <2>2, <2>3 DEF UnitInv
<1>4. ASSUME RemoveUnit(c) PROVE UnitInv'
  <2>1. At(c, "remove") /\ Then(c, "idle") /\ armed' = armed /\ unitFile' = None
    BY <1>4 DEF RemoveUnit
  <2>2. Busy' = {} /\ UNCHANGED <<platform, cron, enabled>>
    BY <1>0, <2>1, ThenBusy DEF CommandPCs
  <2>3. Resting'
    BY <1>0, <2>1, <2>2 DEF Pursues, Resting, At
  <2> QED BY <2>2, <2>3 DEF UnitInv
<1>5. ASSUME Schtasks(c) PROVE UnitInv'
  <2>1. /\ Then(c, "idle") /\ unitFile' = unitFile
        /\ \/ At(c, "create") /\ armed' = command[c].cron
           \/ At(c, "delete") /\ armed' = None
    BY <1>5 DEF Schtasks, Arm, At
  <2>2. Busy' = {} /\ UNCHANGED <<platform, cron, enabled>>
    BY <1>0, <2>1, ThenBusy DEF CommandPCs
  <2>3. Resting'
    BY <1>0, <1>p, <2>1, <2>2 DEF Pursues, Resting, At
  <2> QED BY <2>2, <2>3 DEF UnitInv
<1> QED BY <1>1, <1>2, <1>3, <1>4, <1>5 DEF SyncStep

\* A step that touches no unit and no setting.
LEMMA OtherStepTracks ==
    ASSUME UnitInv, UNCHANGED <<settings, unitFile, armed, command, clean>> PROVE UnitInv'
BY DEF UnitInv, settings, Busy, Pursues, Resting

LEMMA UnitStep == TInv /\ OpenInv /\ UnitInv /\ [Next]_vars => UnitInv'
<1> SUFFICES ASSUME TInv, OpenInv, UnitInv, [Next]_vars PROVE UnitInv'
  OBVIOUS
<1>1. ASSUME NEW x \in Crons, SetCron(x) PROVE UnitInv'
  <2>1. "set_cron" \in Commands /\ enabled \in BOOLEAN
    BY DEF Commands, TInv, TypeOK
  <2>2. Reconcile("set_cron", cron', enabled') /\ cron' \in Crons /\ enabled' = enabled
    BY <1>1 DEF SetCron
  <2> QED BY <1>1, <2>1, <2>2, ReconcileTracks DEF SetCron, unit
<1>2. ASSUME NEW on \in BOOLEAN, SetEnabled(on) PROVE UnitInv'
  <2>1. "set_enabled" \in Commands /\ cron \in Crons
    BY DEF Commands, TInv, TypeOK
  <2>2. Reconcile("set_enabled", cron', enabled') /\ cron' = cron /\ enabled' = on
    BY <1>2 DEF SetEnabled
  <2> QED BY <1>2, <2>1, <2>2, ReconcileTracks DEF SetEnabled, unit
<1>3. ASSUME NEW c \in Commands, SyncStep(c) PROVE UnitInv'
  <2>1. CASE clean'
    BY <1>3, <2>1, SyncStepTracks
  <2>2. CASE ~clean'
    BY <2>2 DEF UnitInv
  <2> QED BY <2>1, <2>2
<1>4. ASSUME Tick PROVE UnitInv'
  BY <1>4, OtherStepTracks DEF Tick, TickDue, TickRefused, TickStarts, TickFails, TickRunEnds,
     TickPanics, TickRecords, unit
<1>5. ASSUME ManualStarts \/ ManualEnds \/ HeadlessStarts \/ HeadlessEnds \/ HeadlessDies
      PROVE  UnitInv'
  BY <1>5, OtherStepTracks DEF ManualStarts, ManualEnds, HeadlessStarts, HeadlessEnds,
     HeadlessDies, unit
<1>6. ASSUME UnitFires \/ Launch \/ Pass PROVE UnitInv'
  BY <1>6, OtherStepTracks DEF UnitFires, Launch, Pass, unit
<1>7. ASSUME Quit PROVE UnitInv'
  <2>1. CASE clean /\ Settled
    <3>1. Busy = {} /\ Resting
      BY <2>1, SettledIsBusyEmpty DEF UnitInv
    <3>2. Busy' = {}
      BY <1>7 DEF Quit, Busy, Idle
    <3>3. Resting'
      BY <1>7, <3>1 DEF Quit, settings, unit, Resting
    <3> QED BY <3>2, <3>3 DEF UnitInv
  <2>2. CASE ~(clean /\ Settled)
    BY <1>7, <2>2 DEF Quit, UnitInv
  <2> QED BY <2>1, <2>2
<1>8. ASSUME Login PROVE UnitInv'
  <2>1. /\ UNCHANGED <<settings, unitFile, command, clean>> /\ armed' = unitFile
        /\ platform = "launchd" \/ (platform = "systemd" /\ armed # None)
    BY <1>8 DEF Login, Arm
  <2>2. Resting => Resting'
    BY <2>1 DEF settings, Resting
  <2>3. Busy = {} /\ Busy' = {}
    BY <1>8, <2>1 DEF Login, OpenInv, Busy
  <2> QED BY <2>1, <2>2, <2>3 DEF UnitInv
<1>9. CASE UNCHANGED vars
  BY <1>9, OtherStepTracks DEF vars, settings
<1> QED BY <1>1, <1>2, <1>3, <1>4, <1>5, <1>6, <1>7, <1>8, <1>9 DEF Next

LEMMA OpenInit == Init => OpenInv
BY DEF Init, OpenInv

\* The inductive invariant: a reconciliation that runs alone and without error is always on
\* its way to the schedule saved last, and what it leaves behind no login turns into another.
THEOREM ReconciliationPursues == Spec => [](TInv /\ OpenInv /\ UnitInv)
BY TypeInit, TypeStep, OpenInit, OpenStep, UnitInit, UnitStep, PTL DEF Spec

\* Scheduler!UnitTracksConfig: after a reconciliation that ran alone and without error nothing
\* is armed but the saved schedule, and nothing at all when it is disabled, on every platform.
THEOREM UnitFollowsConfig == Spec => []UnitTracksConfig
<1>1. UnitInv => UnitTracksConfig
  BY SettledIsBusyEmpty DEF UnitInv, UnitTracksConfig, Resting
<1> QED BY <1>1, ReconciliationPursues, PTL

-----------------------------------------------------------------------------
(* The search of cron.rs.  A recursive function is what its equation says    *)
(* once something satisfies the equation; that nothing else does follows by *)
(* looking at the instant nearest to the limit where another one differs.   *)

\* The minutes of a day have its date.
LEMMA SameDay ==
    ASSUME NEW t \in Nat
    PROVE  /\ DayLength \in Nat \ {0}
           /\ NextMidnight(t) \in Nat /\ t < NextMidnight(t)
           /\ \A u \in t .. NextMidnight(t) - 1 : DayOf(u) = DayOf(t)
<1>1. DayLength \in Nat \ {0}
  BY CronAssumption, SMT DEF DayLength
<1> DEFINE L == DayLength
           d == t \div L
<1> HIDE DEF L
<1>2. d \in Nat /\ d * L <= t /\ t < (d + 1) * L /\ (d + 1) * L \in Nat
  BY <1>1, SMT DEF L
<1>3. ASSUME NEW u \in t .. (d + 1) * L - 1 PROVE u \div L = d
  BY <1>1, <1>2, <1>3, SMT DEF L
<1> QED BY <1>1, <1>2, <1>3 DEF DayOf, NextMidnight, L

LEMMA DateIsOfDay ==
    ASSUME NEW c, NEW t, NEW u, DayOf(u) = DayOf(t)
    PROVE  Month(u) = Month(t) /\ (DayMatches(c, u) <=> DayMatches(c, t))
BY DEF Month, DayMatches, DayOfMonth, Weekday

DateMatches(c, t) == Month(t) \in c.months /\ DayMatches(c, t)

\* The first match from t on, if there is one before the limit.
Firsts(c, limit, t) ==
    {u \in t .. limit - 1 : Matches(c, u) /\ \A v \in t .. u - 1 : ~Matches(c, v)}
FirstFrom(c, limit, t) ==
    IF Firsts(c, limit, t) = {} THEN Never ELSE CHOOSE u \in Firsts(c, limit, t) : TRUE

\* One step of the search: over the rest of a day on which nothing matches, or one minute.
StepOf(c, limit, search, t) ==
    IF t >= limit THEN Never
    ELSE IF ~DateMatches(c, t) THEN search[NextMidnight(t)]
    ELSE IF Hour(t) \in c.hours /\ Minute(t) \in c.minutes THEN t
    ELSE search[t + 1]

LEMMA NextRunIs ==
    ASSUME NEW c, NEW from \in Int
    PROVE  NextRun(c, from) =
             (CHOOSE search : search = [t \in Nat |->
                 StepOf(c, from + 1 + MaxSearchDays * DayLength, search, t)])[from + 1]
BY DEF NextRun, StepOf, DateMatches

\* A stretch without a match does not change what comes first.
LEMMA SkipKeepsFirsts ==
    ASSUME NEW c, NEW limit \in Int, NEW t \in Nat, NEW n \in Nat, t < n,
           \A u \in t .. n - 1 : ~Matches(c, u)
    PROVE  Firsts(c, limit, t) = Firsts(c, limit, n)
<1>1. ASSUME NEW u \in Firsts(c, limit, t) PROVE u \in Firsts(c, limit, n)
  <2>1. u \in t .. limit - 1 /\ Matches(c, u) /\ \A v \in t .. u - 1 : ~Matches(c, v)
    BY <1>1 DEF Firsts
  <2>2. u \in n .. limit - 1
    BY <2>1
  <2>3. \A v \in n .. u - 1 : ~Matches(c, v)
    BY <2>1
  <2> QED BY <2>1, <2>2, <2>3 DEF Firsts
<1>2. ASSUME NEW u \in Firsts(c, limit, n) PROVE u \in Firsts(c, limit, t)
  <2>1. u \in n .. limit - 1 /\ Matches(c, u) /\ \A v \in n .. u - 1 : ~Matches(c, v)
    BY <1>2 DEF Firsts
  <2>2. u \in t .. limit - 1
    BY <2>1
  <2>3. \A v \in t .. u - 1 : ~Matches(c, v)
    BY <2>1
  <2> QED BY <2>1, <2>2, <2>3 DEF Firsts
<1> QED BY <1>1, <1>2

\* The first match is what a step of the search makes of the first match further on.
LEMMA FirstFromSteps ==
    ASSUME NEW c, NEW limit \in Int, NEW t \in Nat
    PROVE  FirstFrom(c, limit, t) = StepOf(c, limit, [u \in Nat |-> FirstFrom(c, limit, u)], t)
<1> DEFINE search == [u \in Nat |-> FirstFrom(c, limit, u)]
<1>1. CASE t >= limit
  BY <1>1 DEF FirstFrom, Firsts, StepOf
<1>2. CASE t < limit /\ ~DateMatches(c, t)
  <2>1. NextMidnight(t) \in Nat /\ t < NextMidnight(t)
    BY SameDay
  <2>2. \A u \in t .. NextMidnight(t) - 1 : ~Matches(c, u)
    BY <1>2, SameDay, DateIsOfDay DEF Matches, DateMatches
  <2>3. Firsts(c, limit, t) = Firsts(c, limit, NextMidnight(t))
    BY <2>1, <2>2, SkipKeepsFirsts
  <2>4. FirstFrom(c, limit, t) = search[NextMidnight(t)]
    BY <2>1, <2>3 DEF FirstFrom
  <2> QED BY <1>2, <2>4 DEF StepOf
<1>3. CASE t < limit /\ Matches(c, t)
  <2>1. Firsts(c, limit, t) = {t}
    <3>1. t \in Firsts(c, limit, t)
      BY <1>3 DEF Firsts
    <3>2. ASSUME NEW u \in Firsts(c, limit, t) PROVE u = t
      <4>1. u \in t .. limit - 1 /\ (t < u => t \in t .. u - 1)
        BY <3>2 DEF Firsts
      <4> QED BY <1>3, <3>2, <4>1 DEF Firsts
    <3> QED BY <3>1, <3>2
  <2>2. FirstFrom(c, limit, t) = t
    BY <2>1 DEF FirstFrom
  <2> QED BY <1>3, <2>2 DEF StepOf, Matches, DateMatches
<1>4. CASE t < limit /\ DateMatches(c, t) /\ ~Matches(c, t)
  <2>1. \A u \in t .. (t + 1) - 1 : ~Matches(c, u)
    BY <1>4
  <2>2. Firsts(c, limit, t) = Firsts(c, limit, t + 1)
    BY <2>1, SkipKeepsFirsts
  <2>3. FirstFrom(c, limit, t) = search[t + 1]
    BY <2>2 DEF FirstFrom
  <2> QED BY <1>4, <2>3 DEF StepOf, Matches, DateMatches
<1> QED BY <1>1, <1>2, <1>3, <1>4

\* No other function is what a step makes of it: the equation leaves no choice.
LEMMA SearchIsFirstFrom ==
    ASSUME NEW c, NEW limit \in Int, NEW search,
           search = [t \in Nat |-> StepOf(c, limit, search, t)]
    PROVE  \A t \in Nat : search[t] = FirstFrom(c, limit, t)
<1> DEFINE Wrong == {t \in Nat : search[t] # FirstFrom(c, limit, t)}
           Left == {limit - t : t \in Wrong}
<1>0. \A t \in Nat : search[t] = StepOf(c, limit, search, t)
  OBVIOUS
<1>1. \A t \in Wrong : t \in Nat /\ t < limit
  BY <1>0 DEF StepOf, FirstFrom, Firsts
<1> SUFFICES ASSUME Wrong # {} PROVE FALSE
  OBVIOUS
<1>2. Left \subseteq Nat /\ Left # {}
  <2>1. \A t \in Wrong : limit - t \in Nat
    BY <1>1
  <2> HIDE DEF Wrong
  <2> QED BY <2>1
<1>3. PICK m \in Left : \A k \in Left : m <= k
  BY <1>2, Least
<1>4. PICK t \in Wrong : m = limit - t
  OBVIOUS
<1>5. t \in Nat /\ t < limit
  BY <1>1
<1>6. \A u \in Nat : u > t => search[u] = FirstFrom(c, limit, u)
  <2> SUFFICES ASSUME NEW u \in Nat, u > t, u \in Wrong PROVE FALSE
    OBVIOUS
  <2>1. limit - u \in Left
    OBVIOUS
  <2>2. m <= limit - u
    BY <1>3, <2>1
  <2> HIDE DEF Wrong, Left
  <2> QED BY <1>4, <1>5, <2>2
<1>7. NextMidnight(t) \in Nat /\ NextMidnight(t) > t
  BY <1>5, SameDay
<1>8. t + 1 \in Nat /\ t + 1 > t
  BY <1>5
<1>9. StepOf(c, limit, search, t) = StepOf(c, limit, [u \in Nat |-> FirstFrom(c, limit, u)], t)
  BY <1>6, <1>7, <1>8 DEF StepOf
<1>10. search[t] = FirstFrom(c, limit, t)
  BY <1>0, <1>5, <1>9, FirstFromSteps
<1> QED BY <1>10

\* cron.rs next_run_spec finds the first match within MaxSearchDays, whole days at a time
\* though it searches.
LEMMA NextRunFinds ==
    ASSUME NEW c, NEW from \in Int, from + 1 \in Nat
    PROVE  NextRun(c, from) = FirstFrom(c, from + 1 + MaxSearchDays * DayLength, from + 1)
<1> DEFINE limit == from + 1 + MaxSearchDays * DayLength
           first == [t \in Nat |-> FirstFrom(c, limit, t)]
<1>1. limit \in Int
  BY CronAssumption, SMT DEF DayLength
<1> HIDE DEF limit
<1>2. first = [t \in Nat |-> StepOf(c, limit, first, t)]
  BY <1>1, FirstFromSteps
<1> DEFINE search == CHOOSE f : f = [t \in Nat |-> StepOf(c, limit, f, t)]
<1>3. search = [t \in Nat |-> StepOf(c, limit, search, t)]
  <2> HIDE DEF first
  <2> QED BY <1>2
<1> HIDE DEF search
<1>4. search[from + 1] = FirstFrom(c, limit, from + 1)
  BY <1>1, <1>3, SearchIsFirstFrom
<1> QED BY <1>4, NextRunIs DEF limit, search

\* What the search finds is a match, and the first; it misses none within MaxSearchDays.
LEMMA NextRunIsMatch ==
    ASSUME NEW c, NEW from \in Int, from + 1 \in Nat, NextRun(c, from) # Never
    PROVE  /\ NextRun(c, from) \in Nat /\ NextRun(c, from) > from
           /\ Matches(c, NextRun(c, from))
           /\ \A t \in from + 1 .. NextRun(c, from) - 1 : ~Matches(c, t)
<1> DEFINE limit == from + 1 + MaxSearchDays * DayLength
<1>1. NextRun(c, from) = FirstFrom(c, limit, from + 1)
  BY NextRunFinds
<1>2. NextRun(c, from) \in Firsts(c, limit, from + 1)
  BY <1>1 DEF FirstFrom
<1>3. limit \in Int
  BY CronAssumption, SMT DEF DayLength
<1> HIDE DEF limit
<1>4. NextRun(c, from) \in from + 1 .. limit - 1
  BY <1>2 DEF Firsts
<1> QED BY <1>2, <1>3, <1>4 DEF Firsts

LEMMA NextRunMissesNone ==
    ASSUME NEW c, NEW from \in Int, from + 1 \in Nat, NextRun(c, from) = Never,
           NEW t \in from + 1 .. from + MaxSearchDays * DayLength
    PROVE  ~Matches(c, t)
<1> DEFINE limit == from + 1 + MaxSearchDays * DayLength
<1>1. limit \in Int /\ MaxSearchDays * DayLength \in Nat
  BY CronAssumption, SMT DEF DayLength
<1>2. t \in Nat /\ t \in from + 1 .. limit - 1
  BY <1>1
<1>3. FirstFrom(c, limit, from + 1) = Never
  BY NextRunFinds
<1> HIDE DEF limit
<1> SUFFICES ASSUME Matches(c, t) PROVE FALSE
  OBVIOUS
<1> DEFINE All == {u \in from + 1 .. limit - 1 : Matches(c, u)}
<1>4. All \subseteq Nat /\ All # {}
  BY <1>1, <1>2
<1>5. PICK u \in All : \A v \in All : u <= v
  BY <1>4, Least
<1>6. \A v \in from + 1 .. u - 1 : ~Matches(c, v)
  <2> SUFFICES ASSUME NEW v \in from + 1 .. u - 1, Matches(c, v) PROVE FALSE
    OBVIOUS
  <2>1. u \in from + 1 .. limit - 1
    OBVIOUS
  <2>2. v \in All
    BY <1>1, <2>1
  <2>3. u <= v
    BY <1>5, <2>2
  <2> QED BY <2>1, <2>3
<1>7. u \in Firsts(c, limit, from + 1)
  BY <1>6 DEF Firsts
<1>8. FirstFrom(c, limit, from + 1) \in Firsts(c, limit, from + 1)
  BY <1>7 DEF FirstFrom
<1>9. FirstFrom(c, limit, from + 1) \in Int
  BY <1>1, <1>8 DEF Firsts
<1> QED BY <1>3, <1>9, CronAssumption

-----------------------------------------------------------------------------
(* A week's runs *)

\* What is left of the week after an instant.
LaterRuns(c, end, from) == {u \in from + 1 .. end - 1 : Matches(c, u)}
LaterTimes(c, end, from) == {WeekTime(t) : t \in LaterRuns(c, end, from)}

StepOfWeek(c, end, walk, cursor) ==
    IF NextRun(c, cursor) = Never \/ NextRun(c, cursor) >= end THEN {}
    ELSE {WeekTime(NextRun(c, cursor))} \cup walk[NextRun(c, cursor)]

LEMMA WeeklyTimesIs ==
    ASSUME NEW c
    PROVE  WeeklyTimes(c) =
             (CHOOSE walk : walk = [cursor \in Nat |->
                 StepOfWeek(c, WeekAnchor + 7 * DayLength, walk, cursor)])[WeekAnchor - 1]
BY DEF WeeklyTimes, StepOfWeek

\* The search reaches over the two weeks from the first instant on.
LEMMA WeekIsNear ==
    ASSUME MaxSearchDays >= 14
    PROVE  /\ DayLength \in Nat \ {0} /\ WeekAnchor \in Nat \ {0}
           /\ WeekAnchor + 7 * DayLength <= MaxSearchDays * DayLength
           /\ MaxSearchDays * DayLength \in Nat
<1>1. DayLength \in Nat \ {0}
  BY CronAssumption, SMT DEF DayLength
<1> DEFINE L == DayLength
<1> HIDE DEF L
<1>2. MaxSearchDays \in Nat /\ MaxSearchDays - 14 \in Nat
  BY CronAssumption
<1>3. (MaxSearchDays - 14) * L \in Nat
  BY <1>1, <1>2 DEF L
<1>4. MaxSearchDays * L = 14 * L + (MaxSearchDays - 14) * L
  BY <1>1, <1>2, SMT DEF L
<1> QED BY <1>1, <1>3, <1>4 DEF L, WeekAnchor

LEMMA LaterTimesSteps ==
    ASSUME NEW c, MaxSearchDays >= 14, NEW cursor \in Nat, NEW end \in Nat,
           end <= MaxSearchDays * DayLength
    PROVE  LaterTimes(c, end, cursor)
             = StepOfWeek(c, end, [u \in Nat |-> LaterTimes(c, end, u)], cursor)
<1> DEFINE next == NextRun(c, cursor)
           matching == {u \in cursor + 1 .. end - 1 : Matches(c, u)}
<1>0. cursor \in Int /\ cursor + 1 \in Nat
  OBVIOUS
<1>1. CASE next = Never
  <2>1. \A t \in cursor + 1 .. cursor + MaxSearchDays * DayLength : ~Matches(c, t)
    BY <1>0, <1>1, NextRunMissesNone
  <2>2. matching = {}
    BY <2>1, WeekIsNear
  <2> QED BY <1>1, <2>2 DEF LaterTimes, LaterRuns, StepOfWeek
<1>2. CASE next # Never
  <2>1. /\ next \in Nat /\ next > cursor /\ Matches(c, next)
        /\ \A t \in cursor + 1 .. next - 1 : ~Matches(c, t)
    BY <1>0, <1>2, NextRunIsMatch
  <2> HIDE DEF next
  <2>2. CASE next >= end
    <3>1. matching = {}
      BY <2>1, <2>2
    <3> QED BY <2>2, <3>1 DEF LaterTimes, LaterRuns, StepOfWeek, next
  <2>3. CASE next < end
    <3>1. matching = {next} \cup {u \in next + 1 .. end - 1 : Matches(c, u)}
      BY <2>1, <2>3
    <3>2. LaterTimes(c, end, cursor) = {WeekTime(next)} \cup LaterTimes(c, end, next)
      BY <3>1 DEF LaterTimes, LaterRuns
    <3> QED BY <1>2, <2>1, <2>3, <3>2 DEF StepOfWeek, next
  <2> QED BY <2>1, <2>2, <2>3
<1> QED BY <1>1, <1>2

LEMMA WalkIsLaterTimes ==
    ASSUME NEW c, MaxSearchDays >= 14, NEW end \in Nat, end <= MaxSearchDays * DayLength,
           NEW walk, walk = [cursor \in Nat |-> StepOfWeek(c, end, walk, cursor)]
    PROVE  \A cursor \in Nat : walk[cursor] = LaterTimes(c, end, cursor)
<1> DEFINE Wrong == {t \in Nat : walk[t] # LaterTimes(c, end, t)}
           Left == {end - t : t \in Wrong}
<1>0. \A t \in Nat : walk[t] = StepOfWeek(c, end, walk, t)
  OBVIOUS
<1>a. ASSUME NEW t \in Nat, NextRun(c, t) # Never
      PROVE  NextRun(c, t) \in Nat /\ NextRun(c, t) > t
  BY <1>a, NextRunIsMatch
<1>1. ASSUME NEW t \in Wrong PROVE t \in Nat /\ t < end
  <2> SUFFICES ASSUME t >= end PROVE FALSE
    OBVIOUS
  <2>1. walk[t] = {}
    BY <1>0, <1>a DEF StepOfWeek
  <2>2. LaterTimes(c, end, t) = {}
    BY DEF LaterTimes, LaterRuns
  <2> QED BY <2>1, <2>2
<1> SUFFICES ASSUME Wrong # {} PROVE FALSE
  OBVIOUS
<1>2. Left \subseteq Nat /\ Left # {}
  <2>1. \A t \in Wrong : end - t \in Nat
    BY <1>1
  <2> HIDE DEF Wrong
  <2> QED BY <2>1
<1>3. PICK m \in Left : \A k \in Left : m <= k
  BY <1>2, Least
<1>4. PICK t \in Wrong : m = end - t
  OBVIOUS
<1>5. t \in Nat /\ t < end
  BY <1>1
<1>6. \A u \in Nat : u > t => walk[u] = LaterTimes(c, end, u)
  <2> SUFFICES ASSUME NEW u \in Nat, u > t, u \in Wrong PROVE FALSE
    OBVIOUS
  <2>1. end - u \in Left
    OBVIOUS
  <2>2. m <= end - u
    BY <1>3, <2>1
  <2> HIDE DEF Wrong, Left
  <2> QED BY <1>4, <1>5, <2>2
<1>7. StepOfWeek(c, end, walk, t) = StepOfWeek(c, end, [u \in Nat |-> LaterTimes(c, end, u)], t)
  BY <1>5, <1>6, <1>a DEF StepOfWeek
<1>8. walk[t] = LaterTimes(c, end, t)
  BY <1>0, <1>5, <1>7, LaterTimesSteps
<1> QED BY <1>8

\* install.rs weekly_times: exactly the matches of one week.
LEMMA WeeklyTimesAre ==
    ASSUME NEW c, MaxSearchDays >= 14
    PROVE  WeeklyTimes(c) = LaterTimes(c, WeekAnchor + 7 * DayLength, WeekAnchor - 1)
<1> DEFINE end == WeekAnchor + 7 * DayLength
           later == [t \in Nat |-> LaterTimes(c, end, t)]
<1>1. end \in Nat /\ end <= MaxSearchDays * DayLength /\ WeekAnchor - 1 \in Nat
  BY WeekIsNear
<1> HIDE DEF end
<1>2. later = [t \in Nat |-> StepOfWeek(c, end, later, t)]
  BY <1>1, LaterTimesSteps
<1> DEFINE walk == CHOOSE f : f = [t \in Nat |-> StepOfWeek(c, end, f, t)]
<1>3. walk = [t \in Nat |-> StepOfWeek(c, end, walk, t)]
  <2> HIDE DEF later
  <2> QED BY <1>2
<1> HIDE DEF walk
<1>4. walk[WeekAnchor - 1] = LaterTimes(c, end, WeekAnchor - 1)
  BY <1>1, <1>3, WalkIsLaterTimes
<1> QED BY <1>4, WeeklyTimesIs DEF end, walk

-----------------------------------------------------------------------------
(* The grid of a plan *)

LEMMA FieldsInRange ==
    ASSUME NEW t \in Nat
    PROVE  Weekday(t) \in Weekdays /\ Hour(t) \in Hours /\ Minute(t) \in Minutes
<1>1. DayLength \in Nat \ {0}
  BY CronAssumption, SMT DEF DayLength
<1>2. MinutesPerHour \in Nat \ {0} /\ HoursPerDay \in Nat \ {0}
  BY CronAssumption
<1>3. DayOf(t) \in Nat
  BY <1>1, SMT DEF DayOf
<1>4. t \div MinutesPerHour \in Nat
  BY <1>2, SMT
<1>5. Hour(t) \in 0 .. HoursPerDay - 1
  BY <1>2, <1>4, SMT DEF Hour
<1>6. Minute(t) \in 0 .. MinutesPerHour - 1
  BY <1>2, SMT DEF Minute
<1> QED BY <1>3, <1>5, <1>6, SMT DEF Weekday, Weekdays, Hours, Minutes

LEMMA GridIsFinite ==
    ASSUME NEW A, NEW B, NEW C, IsFiniteSet(A), IsFiniteSet(B), IsFiniteSet(C)
    PROVE  IsFiniteSet(A \X B \X C)
<1> DEFINE pairs == (A \X B) \X C
           f == [p \in pairs |-> <<p[1][1], p[1][2], p[2]>>]
<1>1. IsFiniteSet(pairs)
  BY FS_Product
<1>2. f \in Surjection(pairs, A \X B \X C)
  <2>1. f \in [pairs -> A \X B \X C]
    OBVIOUS
  <2>2. ASSUME NEW x \in A \X B \X C PROVE \E p \in pairs : f[p] = x
    <3>1. <<<<x[1], x[2]>>, x[3]>> \in pairs /\ f[<<<<x[1], x[2]>>, x[3]>>] = x
      OBVIOUS
    <3> QED BY <3>1
  <2> QED BY <2>1, <2>2 DEF Surjection
<1> QED BY <1>1, <1>2, FS_Surjection

Schedule(times) ==
    [weekdays |-> {time[1] : time \in times}, hours |-> {time[2] : time \in times},
     minutes |-> {time[3] : time \in times}]

\* A plan that is not refused is the grid of the expression's times.
LEMMA PlanIsGrid ==
    ASSUME NEW c, MaxSearchDays >= 14, Plan(c) # Never
    PROVE  /\ Plan(c) = Schedule(WeeklyTimes(c))
           /\ GridTimes(Plan(c)) = WeeklyTimes(c)
           /\ Plan(c).weekdays \in SUBSET Weekdays /\ Plan(c).hours \in SUBSET Hours
           /\ Plan(c).minutes \in SUBSET Minutes
           /\ Plan(c).weekdays # {} /\ Plan(c).hours # {} /\ Plan(c).minutes # {}
<1> DEFINE times == WeeklyTimes(c)
           s == Schedule(times)
<1>1. /\ Plan(c) = s /\ times # {} /\ Cardinality(GridTimes(s)) = Cardinality(times)
  BY DEF Plan, Schedule
<1>2. times \subseteq Weekdays \X Hours \X Minutes
  <2>1. times = LaterTimes(c, WeekAnchor + 7 * DayLength, WeekAnchor - 1)
    BY WeeklyTimesAre
  <2> DEFINE week == LaterRuns(c, WeekAnchor + 7 * DayLength, WeekAnchor - 1)
  <2>a. times = {WeekTime(t) : t \in week}
    BY <2>1 DEF LaterTimes
  <2>b. week \subseteq Nat
    BY WeekIsNear DEF LaterRuns
  <2> HIDE DEF times, week
  <2>2. SUFFICES ASSUME NEW time \in times PROVE time \in Weekdays \X Hours \X Minutes
    OBVIOUS
  <2>3. PICK t \in week : time = WeekTime(t)
    BY <2>a
  <2>4. t \in Nat
    BY <2>b
  <2> QED BY <2>3, <2>4, FieldsInRange DEF WeekTime
<1> HIDE DEF times
<1>3. /\ s.weekdays = {time[1] : time \in times} /\ s.hours = {time[2] : time \in times}
      /\ s.minutes = {time[3] : time \in times}
  BY DEF Schedule
<1>4. /\ s.weekdays \subseteq Weekdays /\ s.hours \subseteq Hours /\ s.minutes \subseteq Minutes
  BY <1>2, <1>3
<1>5. /\ s.weekdays # {} /\ s.hours # {} /\ s.minutes # {}
  BY <1>1, <1>3
<1>6. times \subseteq GridTimes(s)
  <2>1. \A time \in times : time = <<time[1], time[2], time[3]>>
    BY <1>2
  <2> QED BY <1>3, <2>1 DEF GridTimes
<1>7. IsFiniteSet(GridTimes(s))
  <2>1. IsFiniteSet(Weekdays) /\ IsFiniteSet(Hours) /\ IsFiniteSet(Minutes)
    <3>1. 6 \in Int /\ HoursPerDay - 1 \in Int /\ MinutesPerHour - 1 \in Int /\ 0 \in Int
      BY CronAssumption
    <3> QED BY <3>1, FS_Interval DEF Weekdays, Hours, Minutes
  <2>2. IsFiniteSet(s.weekdays) /\ IsFiniteSet(s.hours) /\ IsFiniteSet(s.minutes)
    BY <1>4, <2>1, FS_Subset
  <2> QED BY <2>2, GridIsFinite DEF GridTimes
<1>8. GridTimes(s) = times
  BY <1>1, <1>6, <1>7, FS_Subset
<1> QED BY <1>1, <1>4, <1>5, <1>8 DEF times

-----------------------------------------------------------------------------
(* The units *)

\* systemd: ranges and lists are the values they were made of, and Monday is Monday.
LEMMA ExpandOfRanges ==
    ASSUME NEW S, S \subseteq Int
    PROVE  Expand(Ranges(S)) = S
<1>1. ASSUME NEW v \in S PROVE v \in Expand(Ranges(S))
  <2> DEFINE maximal == {p \in S \X S : /\ p[1] <= p[2] /\ p[1] .. p[2] \subseteq S
                                        /\ p[1] - 1 \notin S /\ p[2] + 1 \notin S}
             long == {p \in maximal : p[2] - p[1] >= 2}
             single == {<<w, w>> : w \in S \ UNION {p[1] .. p[2] : p \in long}}
  <2>1. Ranges(S) = long \cup single
    BY DEF Ranges
  <2> HIDE DEF long
  <2>2. CASE v \in UNION {p[1] .. p[2] : p \in long}
    BY <2>1, <2>2 DEF Expand
  <2>3. CASE v \notin UNION {p[1] .. p[2] : p \in long}
    <3>1. <<v, v>> \in Ranges(S)
      BY <2>1, <2>3
    <3>2. v \in v .. v
      BY <1>1
    <3>3. <<v, v>>[1] = v /\ <<v, v>>[2] = v
      OBVIOUS
    <3> QED BY <3>1, <3>2, <3>3 DEF Expand
  <2> QED BY <2>2, <2>3
<1>2. ASSUME NEW p \in Ranges(S) PROVE p[1] .. p[2] \subseteq S
  BY <1>2 DEF Ranges
<1> QED BY <1>1, <1>2 DEF Expand

LEMMA MondayIsMonday ==
    ASSUME NEW D, D \subseteq Weekdays
    PROVE  SundayBased(MondayBased(D)) = D
<1>1. \A d \in Weekdays : (((d + 6) % 7) + 1) % 7 = d
  BY DEF Weekdays
<1> QED BY <1>1 DEF SundayBased, MondayBased

\* The task scheduler: a set of hours with even gaps is an arithmetic progression.
LEMMA Ends ==
    ASSUME NEW H \in SUBSET Hours, H # {}
    PROVE  /\ FirstOf(H) \in H /\ \A k \in H : FirstOf(H) <= k
           /\ LastOf(H) \in H /\ \A k \in H : k <= LastOf(H)
<1>0. H \subseteq Nat /\ HoursPerDay \in Nat \ {0} /\ \A k \in H : k <= HoursPerDay - 1
  BY CronAssumption DEF Hours
<1>1. \E h \in H : \A k \in H : h <= k
  BY <1>0, Least
<1>2. \E h \in H : \A k \in H : k <= h
  <2> DEFINE Left == {HoursPerDay - 1 - k : k \in H}
  <2>0. \A k \in H : HoursPerDay - 1 - k \in Nat
    BY <1>0
  <2>1. Left \subseteq Nat /\ Left # {}
    BY <2>0
  <2>2. PICK m \in Left : \A k \in Left : m <= k
    BY <2>1, Least
  <2>3. PICK h \in H : m = HoursPerDay - 1 - h
    OBVIOUS
  <2>4. ASSUME NEW k \in H PROVE k <= h
    <3>1. m <= HoursPerDay - 1 - k
      BY <2>2
    <3> QED BY <1>0, <2>3, <3>1
  <2> QED BY <2>4
<1> QED BY <1>1, <1>2 DEF FirstOf, LastOf

Neighbours(H) == {p \in H \X H : p[1] < p[2] /\ ~ \E h \in H : p[1] < h /\ h < p[2]}

LEMMA HasNext ==
    ASSUME NEW H \in SUBSET Hours, NEW h \in H, NEW k \in H, h < k
    PROVE  \E n \in H : <<h, n>> \in Neighbours(H)
<1>0. H \subseteq Nat
  BY DEF Hours
<1> DEFINE After == {n \in H : h < n}
<1>1. After \subseteq Nat /\ After # {}
  BY <1>0
<1>2. PICK n \in After : \A m \in After : n <= m
  BY <1>1, Least
<1>3. ~ \E m \in H : h < m /\ m < n
  BY <1>0, <1>2
<1> QED BY <1>2, <1>3 DEF Neighbours

LEMMA HasPrevious ==
    ASSUME NEW H \in SUBSET Hours, NEW h \in H, NEW k \in H, k < h
    PROVE  \E n \in H : <<n, h>> \in Neighbours(H)
<1>0. H \subseteq Nat
  BY DEF Hours
<1> DEFINE Left == {h - n : n \in {m \in H : m < h}}
<1>1. Left \subseteq Nat /\ Left # {}
  BY <1>0
<1>2. PICK d \in Left : \A e \in Left : d <= e
  BY <1>1, Least
<1>3. PICK n \in H : n < h /\ d = h - n
  OBVIOUS
<1>4. ASSUME NEW m \in H, n < m, m < h PROVE FALSE
  <2>1. h - m \in Left
    BY <1>4
  <2>2. d <= h - m
    BY <1>2, <2>1
  <2> QED BY <1>0, <1>3, <1>4, <2>2
<1> QED BY <1>3, <1>4 DEF Neighbours

Gaps(H) == {p[2] - p[1] : p \in Neighbours(H)}

LEMMA HourStepIs ==
    ASSUME NEW H
    PROVE  HourStep(H) = IF Gaps(H) = {} THEN 0
                         ELSE IF Cardinality(Gaps(H)) = 1 THEN CHOOSE g \in Gaps(H) : TRUE
                         ELSE Never
BY DEF HourStep, Gaps, Neighbours

LEMMA ModOfMultiple ==
    ASSUME NEW g \in Nat \ {0}, NEW q \in Nat
    PROVE  (q * g) % g = 0
<1> DEFINE x == q * g
           d == x \div g
           r == x % g
<1>1. x \in Nat
  OBVIOUS
<1> HIDE DEF x
<1>2. d \in Nat /\ r \in 0 .. g - 1 /\ x = d * g + r
  BY <1>1, SMT
<1> HIDE DEF d, r
<1>3. r = (q - d) * g
  BY <1>2, SMT DEF x
<1>4. ~ (q - d >= 1)
  <2> SUFFICES ASSUME q - d >= 1 PROVE FALSE
    OBVIOUS
  <2>1. (q - d) * g >= g
    BY <1>2, SMT
  <2> QED BY <1>2, <1>3, <2>1
<1>5. ~ (q - d <= -1)
  <2> SUFFICES ASSUME q - d <= -1 PROVE FALSE
    OBVIOUS
  <2>1. (q - d) * g <= -g
    BY <1>2, SMT
  <2> QED BY <1>2, <1>3, <2>1
<1>6. q - d = 0
  BY <1>2, <1>4, <1>5
<1> QED BY <1>3, <1>6 DEF r, x

LEMMA ModShift ==
    ASSUME NEW g \in Nat \ {0}, NEW n \in Nat, n % g = 0
    PROVE  (n + g) % g = 0 /\ (n >= g => (n - g) % g = 0)
<1> DEFINE q == n \div g
<1>1. q \in Nat /\ n = q * g
  BY SMT
<1> HIDE DEF q
<1>2. n + g = (q + 1) * g /\ q + 1 \in Nat
  BY <1>1, SMT
<1>3. n - g = (q - 1) * g
  BY <1>1, SMT
<1>4. n >= g => q - 1 \in Nat
  <2>1. q = 0 => ~ (n >= g)
    BY <1>1
  <2> QED BY <1>1, <2>1
<1> QED BY <1>2, <1>3, <1>4, ModOfMultiple

\* With the same gap everywhere the hours are the first one and every step from it.
LEMMA EvenGapsRepeat ==
    ASSUME NEW H \in SUBSET Hours, H # {}, NEW g \in Nat \ {0},
           \A p \in Neighbours(H) : p[2] - p[1] = g
    PROVE  Repeats(H, g) = H
<1> DEFINE F == FirstOf(H)
           E == LastOf(H)
<1>0. H \subseteq Nat
  BY DEF Hours
<1>e. F \in H /\ E \in H /\ \A k \in H : F <= k /\ k <= E
  BY Ends
<1> HIDE DEF F, E
<1>d. ASSUME NEW n \in Nat, n % g = 0 PROVE (n + g) % g = 0 /\ (n >= g => (n - g) % g = 0)
  BY <1>d, ModShift
<1>1. ASSUME NEW h \in H, (h - F) % g # 0 PROVE FALSE
  <2> DEFINE Off == {k \in H : (k - F) % g # 0}
  <2>1. Off \subseteq Nat /\ Off # {}
    BY <1>0, <1>1
  <2>2. PICK k \in Off : \A m \in Off : k <= m
    BY <2>1, Least
  <2>3. k \in H /\ (k - F) % g # 0 /\ F <= k /\ F \in Nat /\ k \in Nat
    BY <1>0, <1>e
  <2>4. k # F
    BY <2>3, SMT
  <2>5. PICK n \in H : <<n, k>> \in Neighbours(H)
    BY <1>0, <1>e, <2>3, <2>4, HasPrevious
  <2>6. k - n = g /\ n \in Nat
    <3>1. <<n, k>>[2] - <<n, k>>[1] = g
      BY <2>5
    <3> QED BY <1>0, <3>1
  <2>7. (n - F) % g = 0
    <3>1. ~ (k <= n)
      BY <2>3, <2>6
    <3>2. n \notin Off
      BY <2>2, <3>1
    <3> QED BY <3>2
  <2>8. n - F \in Nat /\ k - F = (n - F) + g
    BY <1>e, <2>3, <2>6
  <2> QED BY <1>d, <2>3, <2>7, <2>8
<1>2. ASSUME NEW h \in F .. E, (h - F) % g = 0, h \notin H PROVE FALSE
  <2> DEFINE Off == {k \in F .. E : (k - F) % g = 0 /\ k \notin H}
  <2>0. F \in Nat /\ E \in Nat
    BY <1>0, <1>e
  <2>1. Off \subseteq Nat /\ Off # {}
    BY <1>2, <2>0
  <2>2. PICK k \in Off : \A m \in Off : k <= m
    BY <2>1, Least
  <2>3. k \in F .. E /\ (k - F) % g = 0 /\ k \notin H /\ k \in Nat
    BY <2>0
  <2>4. k # F /\ k - F \in Nat \ {0}
    BY <1>e, <2>0, <2>3
  <2>5. k - F >= g
    BY <2>3, <2>4, SMT
  <2>6. k - g \in F .. E /\ (k - g) - F = (k - F) - g
    BY <2>0, <2>3, <2>5
  <2>7. ((k - g) - F) % g = 0
    BY <1>d, <2>3, <2>4, <2>5, <2>6
  <2>8. k - g \in H
    <3>1. ~ (k <= k - g)
      BY <2>3
    <3>2. k - g \notin Off
      BY <2>2, <3>1
    <3> QED BY <2>6, <2>7, <3>2
  <2>9. PICK n \in H : <<k - g, n>> \in Neighbours(H)
    <3>1. k - g < E
      BY <2>0, <2>3
    <3> QED BY <1>e, <2>8, <3>1, HasNext
  <2>10. n - (k - g) = g /\ n \in Nat
    <3>1. <<k - g, n>>[2] - <<k - g, n>>[1] = g
      BY <2>9
    <3> QED BY <1>0, <3>1
  <2>11. n = k
    BY <2>3, <2>10
  <2> QED BY <2>3, <2>11
<1>3. Repeats(H, g) = {h \in F .. E : (h - F) % g = 0}
  BY DEF Repeats, F, E
<1>4. \A h \in H : h \in F .. E
  BY <1>0, <1>e
<1> QED BY <1>1, <1>2, <1>3, <1>4

LEMMA RepeatsAreHours ==
    ASSUME NEW H \in SUBSET Hours, H # {}, HourStep(H) # Never
    PROVE  Repeats(H, HourStep(H)) = H
<1>0. H \subseteq Nat
  BY DEF Hours
<1>1. CASE Gaps(H) = {}
  <2>1. Neighbours(H) = {}
    BY <1>1 DEF Gaps
  <2>2. \A h, k \in H : ~ (h < k)
    BY <2>1, HasNext
  <2>a. FirstOf(H) \in H /\ \A k \in H : FirstOf(H) <= k
    BY Ends
  <2>3. H = {FirstOf(H)}
    <3> DEFINE F == FirstOf(H)
    <3> HIDE DEF F
    <3>1. F \in H /\ \A k \in H : F <= k
      BY <2>a DEF F
    <3>2. \A k \in H : k = F
      <4> SUFFICES ASSUME NEW k \in H PROVE k = F
        OBVIOUS
      <4>1. F \in Nat /\ k \in Nat /\ F <= k /\ ~ (F < k)
        BY <1>0, <2>2, <3>1
      <4> QED BY <4>1
    <3> QED BY <3>1, <3>2 DEF F
  <2> QED BY <1>1, <2>3, HourStepIs DEF Repeats
<1>2. CASE Gaps(H) # {}
  <2>1. HourStep(H) \in Gaps(H) /\ Cardinality(Gaps(H)) = 1
    BY <1>2, HourStepIs
  <2>2. Gaps(H) \subseteq 1 .. HoursPerDay
    <3> SUFFICES ASSUME NEW p \in Neighbours(H) PROVE p[2] - p[1] \in 1 .. HoursPerDay
      BY DEF Gaps
    <3>1. p[1] \in Hours /\ p[2] \in Hours /\ p[1] < p[2] /\ HoursPerDay \in Nat
      BY CronAssumption DEF Neighbours
    <3> DEFINE a == p[1]
               b == p[2]
    <3>2. a \in 0 .. HoursPerDay - 1 /\ b \in 0 .. HoursPerDay - 1 /\ a < b
      BY <3>1 DEF Hours
    <3> HIDE DEF a, b
    <3>3. b - a \in 1 .. HoursPerDay
      BY <3>1, <3>2
    <3> QED BY <3>3 DEF a, b
  <2>3. IsFiniteSet(Gaps(H))
    <3>1. 1 \in Int /\ HoursPerDay \in Int
      BY CronAssumption
    <3> QED BY <2>2, <3>1, FS_Interval, FS_Subset
  <2>4. PICK g : Gaps(H) = {g}
    BY <2>1, <2>3, FS_Singleton
  <2>5. HourStep(H) = g /\ g \in Nat \ {0}
    BY <2>1, <2>2, <2>4
  <2>6. \A p \in Neighbours(H) : p[2] - p[1] = g
    BY <2>4 DEF Gaps
  <2> QED BY <2>5, <2>6, EvenGapsRepeat
<1> QED BY <1>1, <1>2

\* Whatever the platform, what is written fires at the expression's times of the week.
LEMMA UnitTimesAreWeekly ==
    ASSUME NEW c, NEW os \in {"launchd", "systemd", "task-scheduler"}, MaxSearchDays >= 14,
           UnitTimes(os, c) # Never
    PROVE  UnitTimes(os, c) = WeeklyTimes(c)
<1> DEFINE s == Plan(c)
<1>1. s # Never /\ UnitTimes(os, c) = PlatformTimes(os, s)
  BY DEF UnitTimes, UnitTimesOf
<1>2. /\ GridTimes(s) = WeeklyTimes(c)
      /\ s.weekdays \in SUBSET Weekdays /\ s.hours \in SUBSET Hours
      /\ s.minutes \in SUBSET Minutes
      /\ s.weekdays # {} /\ s.hours # {} /\ s.minutes # {}
  BY <1>1, PlanIsGrid
<1> HIDE DEF s
<1>3. CASE os = "launchd"
  BY <1>1, <1>2, <1>3 DEF PlatformTimes
<1>4. CASE os = "systemd"
  <2>1. PlatformTimes(os, s) = TimerTimes(s)
    BY <1>4 DEF PlatformTimes
  <2>2. s.hours \subseteq Int /\ s.minutes \subseteq Int /\ MondayBased(s.weekdays) \subseteq Int
    <3>1. Weekdays \subseteq Int /\ Hours \subseteq Int /\ Minutes \subseteq Int
      BY DEF Weekdays, Hours, Minutes
    <3>2. \A d \in Weekdays : (d + 6) % 7 \in Int
      BY DEF Weekdays
    <3> QED BY <1>2, <3>1, <3>2 DEF MondayBased
  <2>3. TimerTimes(s) = GridTimes(s)
    BY <1>2, <2>2, ExpandOfRanges, MondayIsMonday DEF TimerTimes, GridTimes
  <2> QED BY <1>1, <1>2, <2>1, <2>3
<1>5. CASE os = "task-scheduler"
  <2>1. PlatformTimes(os, s) = TaskTimes(s, HourStep(s.hours))
    BY <1>5 DEF PlatformTimes
  <2>2. HourStep(s.hours) # Never
        /\ TaskTimes(s, HourStep(s.hours))
             = s.weekdays \X Repeats(s.hours, HourStep(s.hours)) \X s.minutes
    BY <1>1, <2>1 DEF TaskTimes
  <2>3. Repeats(s.hours, HourStep(s.hours)) = s.hours
    BY <1>2, <2>2, RepeatsAreHours
  <2> QED BY <1>1, <1>2, <2>1, <2>2, <2>3 DEF GridTimes
<1> QED BY <1>3, <1>4, <1>5

-----------------------------------------------------------------------------
(* The expressions of a run *)

LEMMA NextRunOfIs ==
    ASSUME NEW x \in Crons, NEW t \in Start - 2 .. End
    PROVE  NextRunOf(x, t) = NextRun(Parse[x], t)
<1>1. <<x, t, NextRun(Parse[x], t)>> \in NextRuns
  BY DEF NextRuns
<1>2. \A r \in NextRuns : r[1] = x /\ r[2] = t => r[3] = NextRun(Parse[x], t)
  BY DEF NextRuns
<1> DEFINE found == CHOOSE r \in NextRuns : r[1] = x /\ r[2] = t
<1>3. found \in NextRuns /\ found[1] = x /\ found[2] = t
  BY <1>1
<1> QED BY <1>2, <1>3 DEF NextRunOf

LEMMA UnitIs ==
    ASSUME NEW x \in Crons, platform \in Platforms
    PROVE  Unit(x) = UnitTimes(platform, Parse[x])
<1>1. <<platform, x, UnitTimes(platform, Parse[x])>> \in Units
  BY DEF Units
<1>2. \A u \in Units : u[1] = platform /\ u[2] = x => u[3] = UnitTimes(platform, Parse[x])
  BY DEF Units
<1> DEFINE found == CHOOSE u \in Units : u[1] = platform /\ u[2] = x
<1>3. found \in Units /\ found[1] = platform /\ found[2] = x
  BY <1>1
<1> QED BY <1>2, <1>3 DEF Unit

\* Scheduler!NextRunIsFirst: for any expression and any instant the search of cron.rs, which
\* skips the days whose date is wrong, finds the first instant at which every field matches.
THEOREM FirstRunIsFound == Spec => []NextRunIsFirst
<1>1. ASSUME TInv PROVE NextRunIsFirst
  <2>1. /\ cron \in Crons /\ now \in Start - 2 .. End /\ now \in Int /\ now + 1 \in Nat
    BY <1>1, SchedulerAssumption DEF TInv, TypeOK, Instants
  <2>2. NextRunOf(cron, now) = NextRun(Parse[cron], now)
    BY <2>1, NextRunOfIs
  <2> QED BY <2>1, <2>2, NextRunIsMatch DEF NextRunIsFirst
<1> QED BY <1>1, TypeInit, TypeStep, PTL DEF Spec

-----------------------------------------------------------------------------
(* One run for each boundary *)

\* What was answered is not later than what is on record, unless a record was lost.
AnswerInv ==
    /\ answered <= now
    /\ tick # "idle" => answered <= tickAt /\ tickAt <= now
    /\ ~lost => \/ record = None /\ answered = Start - 1
                \/ record # None /\ answered <= record

LEMMA AnswerTypes ==
    ASSUME TInv
    PROVE  /\ now \in Nat /\ answered \in Int /\ Start \in Nat \ {0}
           /\ record # None => record \in Instants /\ record \in Nat
           /\ tick # "idle" => tickAt \in Instants /\ tickAt \in Nat /\ tickAt # None
           /\ now # None /\ Start <= now
BY SchedulerAssumption DEF TInv, TypeOK, TickInv, Instants

LEMMA AnswerInit == Init => AnswerInv
BY SchedulerAssumption DEF Init, AnswerInv

\* A record that is written and not lost is the one that was meant.
LEMMA RecordedIsMeant ==
    ASSUME NEW at, WriteRecord(at), ~lost'
    PROVE  record' = at /\ ~lost
<1>1. PICK r : record' = r /\ lost' = (lost \/ r # at)
  BY DEF WriteRecord
<1>2. r = at /\ ~lost
  BY <1>1, Zenon
<1> QED BY <1>1, <1>2

LEMMA AnswerStep == TInv /\ AnswerInv /\ [Next]_vars => AnswerInv'
<1> SUFFICES ASSUME TInv, AnswerInv, [Next]_vars PROVE AnswerInv'
  OBVIOUS
<1>t. /\ now \in Nat /\ answered \in Int /\ Start \in Nat \ {0}
      /\ record # None => record \in Instants /\ record \in Nat
      /\ tick # "idle" => tickAt \in Instants /\ tickAt \in Nat /\ tickAt # None
      /\ now # None /\ Start <= now
  BY AnswerTypes
<1>0. ASSUME UNCHANGED <<now, tick, tickAt, record, answered, lost>> PROVE AnswerInv'
  BY <1>0 DEF AnswerInv
<1>1. ASSUME \/ \E x \in Crons : SetCron(x)
             \/ \E on \in BOOLEAN : SetEnabled(on)
             \/ \E c \in Commands : SyncStep(c)
             \/ ManualStarts \/ UnitFires \/ HeadlessStarts \/ HeadlessDies \/ Launch \/ Login
             \/ UNCHANGED vars
      PROVE  AnswerInv'
  BY <1>0, <1>1 DEF SetCron, SetEnabled, SyncStep, Unload, WriteUnit, Load, RemoveUnit, Schtasks,
     Then, ManualStarts, UnitFires, HeadlessStarts, HeadlessDies, Launch, Login, vars, history, runs
<1>2. ASSUME TickDue PROVE AnswerInv'
  BY <1>2, <1>t DEF TickDue, AnswerInv, history
<1>3. ASSUME TickStarts PROVE AnswerInv'
  BY <1>3 DEF TickStarts, AnswerInv, history
<1>4. ASSUME TickRefused \/ TickPanics \/ Quit PROVE AnswerInv'
  BY <1>4 DEF TickRefused, TickPanics, Quit, AnswerInv, history
<1>5. ASSUME TickFails \/ TickRecords PROVE AnswerInv'
  <2>1. /\ WriteRecord(tickAt) /\ answered' = tickAt /\ tick' = "idle" /\ now' = now
        /\ tick # "idle"
    BY <1>5 DEF TickFails, TickRecords
  <2> QED BY <1>t, <2>1, RecordedIsMeant DEF AnswerInv
<1>6. ASSUME TickRunEnds \/ ManualEnds \/ HeadlessEnds PROVE AnswerInv'
  <2>1. /\ WriteRecord(now) /\ answered' = answered /\ now' = now /\ tickAt' = tickAt
        /\ tick' = tick \/ tick # "idle"
    BY <1>6 DEF TickRunEnds, ManualEnds, HeadlessEnds
  <2> QED BY <1>t, <2>1, RecordedIsMeant DEF AnswerInv
<1>7. ASSUME Pass PROVE AnswerInv'
  <2>1. /\ now' \in Int /\ now < now'
        /\ UNCHANGED <<tick, tickAt, record, answered, lost>>
    BY <1>7, <1>t, SchedulerAssumption DEF Pass, runs, history
  <2> QED BY <1>t, <2>1 DEF AnswerInv
<1> QED BY <1>1, <1>2, <1>3, <1>4, <1>5, <1>6, <1>7 DEF Next, Tick

\* A due tick has a boundary of its own.
LEMMA DueStep ==
    ASSUME TInv, AnswerInv, [Next]_vars, tick = "idle", tick' = "due", ~lost
    PROVE  \E b \in answered + 1 .. now : <<cron, b>> \in Boundaries
<1>t. /\ now \in Nat /\ answered \in Int /\ Start \in Nat \ {0}
      /\ record # None => record \in Instants /\ record \in Nat
      /\ now \in Instants /\ cron \in Crons /\ Start <= now
  BY AnswerTypes DEF TInv, TypeOK
<1>1. TickDue
  BY DEF Next, Tick, TickDue, TickRefused, TickStarts, TickFails, TickRunEnds, TickPanics,
     TickRecords, SetCron, SetEnabled, SyncStep, Unload, WriteUnit, Load, RemoveUnit, Schtasks,
     Then, ManualStarts, ManualEnds, UnitFires, HeadlessStarts, HeadlessEnds, HeadlessDies, Quit,
     Launch, Login, Pass, vars, runs
<1> DEFINE from == IF record = None THEN now - 1 ELSE record
           next == NextRunOf(cron, from)
<1>2. next # Never /\ next <= now
  BY <1>1 DEF TickDue, IsDue
<1>3. from \in Int /\ from + 1 \in Nat /\ from \in Start - 2 .. End /\ Start <= from + 1
  <2>1. now \in Start .. End /\ (record # None => record \in Start .. End) /\ End \in Nat
    BY <1>t, SchedulerAssumption DEF Instants
  <2>2. CASE record = None
    BY <1>t, <2>1, <2>2
  <2>3. CASE record # None
    BY <1>t, <2>1, <2>3
  <2> QED BY <2>2, <2>3
<1>4. answered <= from
  BY <1>t DEF AnswerInv
<1> HIDE DEF from
<1>5. next = NextRun(Parse[cron], from)
  BY <1>t, <1>3, NextRunOfIs
<1>6. next \in Nat /\ next > from /\ Matches(Parse[cron], next)
  BY <1>2, <1>3, <1>5, NextRunIsMatch
<1> HIDE DEF next
<1>7. next \in answered + 1 .. now /\ next \in Instants
  <2>1. now \in Start .. End /\ End \in Nat /\ next <= now /\ next >= from + 1
    BY <1>t, <1>2, <1>3, <1>6, SchedulerAssumption DEF Instants
  <2> QED BY <1>t, <1>3, <1>4, <1>6, <2>1 DEF Instants
<1>8. <<cron, next>> \in Boundaries
  BY <1>t, <1>6, <1>7 DEF Boundaries
<1> QED BY <1>7, <1>8

\* Scheduler!InProcessOnce: no tick finds a boundary due that an earlier tick has answered,
\* in whatever order runs end and records are stamped, as long as none is lost.
THEOREM BoundariesAreAnsweredOnce == Spec => InProcessOnce
<1>1. ASSUME TInv, AnswerInv, [Next]_vars
      PROVE  [tick = "idle" /\ tick' = "due" =>
                lost \/ \E b \in answered + 1 .. now : <<cron, b>> \in Boundaries]_vars
  BY <1>1, DueStep
<1> QED BY <1>1, TypeInit, TypeStep, AnswerInit, AnswerStep, PTL DEF Spec, InProcessOnce

-----------------------------------------------------------------------------
(* What is armed fires when the expression says *)

Carried(x) == x # None => x \in Crons /\ Unit(x) # Never

\* Only expressions whose unit could be written are on their way, on disk or armed.
CarriedInv ==
    /\ Carried(unitFile) /\ Carried(armed)
    /\ \A c \in Commands : command[c].pc \in {"unload", "write", "load", "create"} =>
          command[c].cron # None /\ Carried(command[c].cron)

LEMMA CarriedInit == Init => CarriedInv
BY DEF Init, CarriedInv, Carried, Idle

LEMMA CarriedKept ==
    ASSUME UNCHANGED platform, NEW x, Carried(x) PROVE Carried(x)'
BY DEF Carried, Unit

LEMMA ReconcileCarries ==
    ASSUME TInv, CarriedInv, NEW c \in Commands, NEW x \in Crons, NEW on \in BOOLEAN,
           Reconcile(c, x, on), UNCHANGED <<platform, unitFile, armed>>
    PROVE  CarriedInv'
<1> DEFINE pc == SyncSystemUnit(x, on)
<1>1. command' = [command EXCEPT ![c] = IF pc = "idle" THEN Idle ELSE [pc |-> pc, cron |-> x]]
  BY DEF Reconcile
<1>2. pc \in {"unload", "write", "load", "create"} => Unit(x) # Never
  <2>1. platform \in {"launchd", "systemd", "task-scheduler"}
    BY SchedulerAssumption DEF TInv, TypeOK
  <2>2. ~on => pc \in {"delete", "bootout"}
    BY <2>1 DEF SyncSystemUnit, FirstStep
  <2> QED BY <2>2 DEF SyncSystemUnit
<1>3. x # None /\ command \in [Commands -> CommandRec]
  BY SchedulerAssumption DEF TInv, TypeOK, CommandRec
<1>4. Carried(unitFile)' /\ Carried(armed)'
  BY DEF CarriedInv, Carried, Unit
<1> HIDE DEF pc
<1>5. ASSUME NEW d \in Commands, command'[d].pc \in {"unload", "write", "load", "create"}
      PROVE  command'[d].cron # None /\ Carried(command[d].cron)'
  <2>1. CASE d # c
    BY <1>1, <1>3, <1>5, <2>1 DEF CarriedInv, Carried, Unit
  <2>2. CASE d = c
    <3>1. pc \in {"unload", "write", "load", "create"} /\ command'[d].cron = x
      BY <1>1, <1>3, <1>5, <2>2 DEF Idle
    <3>2. Unit(x)' = Unit(x)
      BY DEF Unit
    <3> QED BY <1>2, <1>3, <3>1, <3>2 DEF Carried
  <2> QED BY <2>1, <2>2
<1> QED BY <1>4, <1>5 DEF CarriedInv

LEMMA ThenCarries ==
    ASSUME TInv, CarriedInv, NEW c \in Commands, NEW pc \in CommandPCs, Then(c, pc),
           pc \in {"write", "load"} => command[c].pc \in {"unload", "write"},
           pc \in {"idle", "write", "load", "remove"},
           unitFile' \in {unitFile, None, command[c].cron},
           unitFile' = command[c].cron /\ unitFile' # None =>
               command[c].pc \in {"unload", "write", "load", "create"} \/ unitFile' = unitFile,
           armed' \in {armed, None, unitFile, command[c].cron},
           armed' = command[c].cron /\ armed' # None =>
               \/ command[c].pc \in {"unload", "write", "load", "create"}
               \/ armed' \in {armed, unitFile}
    PROVE  CarriedInv'
<1>1. UNCHANGED platform /\ command \in [Commands -> CommandRec]
  BY DEF Then, settings, TInv, TypeOK, CommandRec
<1>2. command' = [command EXCEPT ![c] = IF pc = "idle" THEN Idle ELSE [command[c] EXCEPT !.pc = pc]]
  BY DEF Then
<1>u. \A x : Unit(x)' = Unit(x)
  BY <1>1 DEF Unit
<1>3. Carried(unitFile)' /\ Carried(armed)'
  BY <1>u DEF CarriedInv, Carried
<1>4. ASSUME NEW d \in Commands, command'[d].pc \in {"unload", "write", "load", "create"}
      PROVE  command'[d].cron # None /\ Carried(command[d].cron)'
  <2>1. CASE d # c
    BY <1>1, <1>2, <1>u, <1>4, <2>1 DEF CarriedInv, Carried
  <2>2. CASE d = c
    <3>1. /\ command'[d].pc = pc /\ command'[d].cron = command[c].cron
          /\ command[c].pc \in {"unload", "write"}
      BY <1>1, <1>2, <1>4, <2>2 DEF Idle, CommandRec
    <3> QED BY <1>u, <3>1 DEF CarriedInv, Carried
  <2> QED BY <2>1, <2>2
<1> QED BY <1>3, <1>4 DEF CarriedInv

LEMMA CarriedStep == TInv /\ CarriedInv /\ [Next]_vars => CarriedInv'
<1> SUFFICES ASSUME TInv, CarriedInv, [Next]_vars PROVE CarriedInv'
  OBVIOUS
<1>0. ASSUME UNCHANGED <<platform, unitFile, armed, command>> PROVE CarriedInv'
  <2>1. \A x : Unit(x)' = Unit(x)
    BY <1>0 DEF Unit
  <2> QED BY <1>0, <2>1 DEF CarriedInv, Carried
<1>1. ASSUME NEW x \in Crons, SetCron(x) PROVE CarriedInv'
  <2>1. "set_cron" \in Commands /\ enabled \in BOOLEAN
    BY DEF Commands, TInv, TypeOK
  <2> QED BY <1>1, <2>1, ReconcileCarries DEF SetCron, unit
<1>2. ASSUME NEW on \in BOOLEAN, SetEnabled(on) PROVE CarriedInv'
  <2>1. "set_enabled" \in Commands /\ cron \in Crons
    BY DEF Commands, TInv, TypeOK
  <2> QED BY <1>2, <2>1, ReconcileCarries DEF SetEnabled, unit
<1>3. ASSUME NEW c \in Commands, SyncStep(c) PROVE CarriedInv'
  <2>1. CASE Unload(c)
    BY <2>1, ThenCarries DEF Unload, At, Arm, CommandPCs
  <2>2. CASE WriteUnit(c)
    BY <2>2, ThenCarries DEF WriteUnit, At, CommandPCs
  <2>3. CASE Load(c)
    BY <2>3, ThenCarries DEF Load, At, Arm, CommandPCs
  <2>4. CASE RemoveUnit(c)
    BY <2>4, ThenCarries DEF RemoveUnit, At, CommandPCs
  <2>5. CASE Schtasks(c)
    BY <2>5, ThenCarries DEF Schtasks, At, Arm, CommandPCs
  <2> QED BY <1>3, <2>1, <2>2, <2>3, <2>4, <2>5 DEF SyncStep
<1>4. ASSUME \/ Tick \/ ManualStarts \/ ManualEnds \/ UnitFires \/ HeadlessStarts \/ HeadlessEnds
             \/ HeadlessDies \/ Launch \/ Pass \/ UNCHANGED vars
      PROVE  CarriedInv'
  BY <1>0, <1>4 DEF Tick, TickDue, TickRefused, TickStarts, TickFails, TickRunEnds, TickPanics,
     TickRecords, ManualStarts, ManualEnds, UnitFires, HeadlessStarts, HeadlessEnds, HeadlessDies,
     Launch, Pass, vars, settings, unit
<1>5. ASSUME Quit PROVE CarriedInv'
  <2>1. UNCHANGED <<platform, unitFile, armed>> /\ command' = [c \in Commands |-> Idle]
    BY <1>5 DEF Quit, settings, unit
  <2>2. \A x : Unit(x)' = Unit(x)
    BY <2>1 DEF Unit
  <2> QED BY <2>1, <2>2 DEF CarriedInv, Carried, Idle
<1>6. ASSUME Login PROVE CarriedInv'
  <2>1. UNCHANGED <<platform, unitFile, command>> /\ armed' = unitFile
    BY <1>6 DEF Login, Arm, settings
  <2>2. \A x : Unit(x)' = Unit(x)
    BY <2>1 DEF Unit
  <2> QED BY <2>1, <2>2 DEF CarriedInv, Carried
<1> QED BY <1>1, <1>2, <1>3, <1>4, <1>5, <1>6 DEF Next

LEMMA FaithfulUnits ==
    ASSUME MaxSearchDays >= 14, TInv, CarriedInv
    PROVE  UnitIsFaithful
<1> SUFFICES ASSUME armed # None PROVE <<armed, Unit(armed)>> \in WeeklyMatches
  BY DEF UnitIsFaithful
<1>1. armed \in Crons /\ Unit(armed) # Never
  BY DEF CarriedInv, Carried
<1>2. platform \in Platforms /\ platform \in {"launchd", "systemd", "task-scheduler"}
  BY SchedulerAssumption DEF TInv, TypeOK
<1>3. Unit(armed) = WeeklyTimes(Parse[armed])
  BY <1>1, <1>2, UnitIs, UnitTimesAreWeekly
<1>4. WeeklyTimes(Parse[armed])
        = {WeekTime(t) : t \in LaterRuns(Parse[armed], WeekAnchor + 7 * DayLength, WeekAnchor - 1)}
  BY WeeklyTimesAre DEF LaterTimes
<1>5. LaterRuns(Parse[armed], WeekAnchor + 7 * DayLength, WeekAnchor - 1)
        = {u \in OneWeek : Matches(Parse[armed], u)}
  <2>1. (WeekAnchor - 1) + 1 .. (WeekAnchor + 7 * DayLength) - 1 = OneWeek
    BY WeekIsNear DEF OneWeek
  <2> QED BY <2>1 DEF LaterRuns
<1> QED BY <1>1, <1>3, <1>4, <1>5 DEF WeeklyMatches

\* Scheduler!UnitIsFaithful: for any expression, on all three platforms, a unit that is armed
\* fires at exactly the times of the week at which the expression matches; an expression it
\* cannot carry is never armed.  A search reaches over two weeks (MAX_SEARCH_DAYS is 1464).
THEOREM ArmedUnitsAreFaithful ==
    ASSUME MaxSearchDays >= 14
    PROVE  Spec => []UnitIsFaithful
<1>1. TInv /\ CarriedInv => UnitIsFaithful
  BY FaithfulUnits
<1> QED BY <1>1, TypeInit, TypeStep, CarriedInit, CarriedStep, PTL DEF Spec

=============================================================================
