---------------------------- MODULE DefaultWeek ----------------------------
(***************************************************************************)
(* DailyRuns under the schedule the application ships with ("0 7-19 * * 1-5" *)
(* in commands/types.rs): a run completes on every business day and none on  *)
(* a weekend, self-heal is on, work is visible on the day it is done, and    *)
(* nothing fails unless Flaky says so.                                      *)
(***************************************************************************)
EXTENDS DailyRuns

VARIABLE lastRun  \* the day of SchedulerStatus.last_run_at

weekVars == <<vars, lastRun>>

WeekInit == Init /\ lastRun = None

ScheduledBegin ==
    /\ ~IsWeekend(today)
    /\ \E rm \in RenderModes : Begin("scheduled", None, rm, TRUE)
    /\ UNCHANGED lastRun

\* record_run is reached by every run that had the lock.
RunStep ==
    /\ Compile
    /\ lastRun' = IF EndRun THEN today ELSE lastRun

WorkDone(w) == DayOf[w] = today /\ Happen(w) /\ UNCHANGED lastRun

\* No run crosses midnight, and no business day goes by without one.
NextDay ==
    /\ pc = "idle"
    /\ IsWeekend(today) \/ lastRun = today
    /\ Midnight
    /\ UNCHANGED lastRun

WeekNext ==
    \/ ScheduledBegin
    \/ RunStep
    \/ \E w \in Work : WorkDone(w)
    \/ NextDay

WeekSpec == WeekInit /\ [][WeekNext]_weekVars

\* dates.rs:16, "Weekend work therefore always lands in some file": once the day named
\* by the filing rule is over, its file reports the work of the weekend before.
WeekendWorkLands ==
    \A w \in happened :
        IsWeekend(DayOf[w]) /\ pc = "idle" /\ today > FilingDate(mode, DayOf[w])
            => \E f \in Files : w \in Items(block[f])

=============================================================================
