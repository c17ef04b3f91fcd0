-------------------------------- MODULE Cron --------------------------------
(***************************************************************************)
(* The cron subset of autostand-scheduler (cron.rs) and its translation     *)
(* into the units of the three platforms (install.rs plan and the writers   *)
(* of a plist, a timer and a task).                                         *)
(*                                                                         *)
(* An instant is a number of minutes.  The length of an hour, a day, a      *)
(* month and a year are parameters, so that a model checker can walk whole  *)
(* weeks; day 0 is a Sunday.  A parsed expression is the sets of values its *)
(* fields expand to, and whether the two date fields were written "*".      *)
(***************************************************************************)
EXTENDS Integers, FiniteSets

CONSTANTS MinutesPerHour, HoursPerDay, DaysPerMonth, MonthsPerYear,
          MaxSearchDays,   \* MAX_SEARCH_DAYS
          MaxWeeklyTimes,  \* MAX_WEEKLY_TIMES
          Never            \* no such instant, no such schedule

ASSUME CronAssumption ==
    /\ {MinutesPerHour, HoursPerDay, DaysPerMonth, MonthsPerYear} \subseteq Nat \ {0}
    /\ MaxSearchDays \in Nat /\ MaxWeeklyTimes \in Nat
    /\ Never \notin Int

Minutes == 0 .. MinutesPerHour - 1
Hours == 0 .. HoursPerDay - 1
Weekdays == 0 .. 6
DaysOfMonth == 1 .. DaysPerMonth
Months == 1 .. MonthsPerYear

CronSpec ==
    [minutes : SUBSET Minutes \ {{}}, hours : SUBSET Hours \ {{}},
     doms : SUBSET DaysOfMonth \ {{}}, months : SUBSET Months \ {{}},
     dows : SUBSET Weekdays \ {{}}, anyDom : BOOLEAN, anyMonth : BOOLEAN]

DayLength == MinutesPerHour * HoursPerDay
DayOf(t) == t \div DayLength
Minute(t) == t % MinutesPerHour
Hour(t) == (t \div MinutesPerHour) % HoursPerDay
Weekday(t) == DayOf(t) % 7
DayOfMonth(t) == (DayOf(t) % DaysPerMonth) + 1
Month(t) == ((DayOf(t) \div DaysPerMonth) % MonthsPerYear) + 1

(***************************************************************************)
(* cron.rs                                                                 *)
(***************************************************************************)

\* The POSIX rule: when both date fields are restricted, either is enough.
DayMatches(c, t) ==
    LET everyDom == c.doms = DaysOfMonth
        everyDow == c.dows = Weekdays
    IN  \/ everyDom /\ everyDow
        \/ ~everyDom /\ DayOfMonth(t) \in c.doms
        \/ ~everyDow /\ Weekday(t) \in c.dows

\* Mutant: the same time of the next day, past the day's earlier runs.
NextDaySameTime(t) == t + DayLength

NextMidnight(t) == (DayOf(t) + 1) * DayLength

\* next_run_spec: from the minute after, whole days at a time while the date is wrong.
NextRun(c, from) ==
    LET limit == from + 1 + MaxSearchDays * DayLength
        search[t \in Nat] ==
            IF t >= limit THEN Never
            ELSE IF ~(Month(t) \in c.months /\ DayMatches(c, t))
                 THEN search[NextMidnight(t)]
            ELSE IF Hour(t) \in c.hours /\ Minute(t) \in c.minutes
                 THEN t
            ELSE search[t + 1]
    IN  search[from + 1]

(***************************************************************************)
(* install.rs: a week's runs, enumerated through NextRun.                   *)
(***************************************************************************)

\* Any Sunday will do; this one leaves room for the minute before it.
WeekAnchor == 7 * DayLength
WeekTime(t) == <<Weekday(t), Hour(t), Minute(t)>>

\* weekly_times
WeeklyTimes(c) ==
    LET end == WeekAnchor + 7 * DayLength
        walk[cursor \in Nat] ==
            LET next == NextRun(c, cursor)
            IN  IF next = Never \/ next >= end THEN {}
                ELSE {WeekTime(next)} \cup walk[next]
    IN  walk[WeekAnchor - 1]

\* A Schedule is a grid: minutes x hours x weekdays.
GridTimes(s) == s.weekdays \X s.hours \X s.minutes

\* plan: Never stands for every refusal.  All seven weekdays is no restriction.
Plan(c) ==
    LET times == WeeklyTimes(c)
        schedule == [weekdays |-> {time[1] : time \in times}, hours |-> {time[2] : time \in times},
                     minutes |-> {time[3] : time \in times}]
    IN  IF /\ c.anyDom /\ c.anyMonth
           /\ times # {} /\ Cardinality(times) <= MaxWeeklyTimes
           /\ Cardinality(GridTimes(schedule)) = Cardinality(times)
        THEN schedule
        ELSE Never

\* compress: a maximal run of three or more values becomes a range, the others stay
\* single; a range is the pair of its ends.
Ranges(values) ==
    LET maximal == {p \in values \X values :
                       /\ p[1] <= p[2] /\ p[1] .. p[2] \subseteq values
                       /\ p[1] - 1 \notin values /\ p[2] + 1 \notin values}
        long == {p \in maximal : p[2] - p[1] >= 2}
    IN  long \cup {<<v, v>> : v \in values \ UNION {p[1] .. p[2] : p \in long}}

Expand(ranges) == UNION {p[1] .. p[2] : p \in ranges}

\* systemd and Windows count weekdays from Monday.
MondayBased(days) == {(d + 6) % 7 : d \in days}
SundayBased(days) == {(d + 1) % 7 : d \in days}

FirstOf(hours) == CHOOSE h \in hours : \A k \in hours : h <= k
LastOf(hours) == CHOOSE h \in hours : \A k \in hours : k <= h

\* Mutant: only the first gap is looked at.
FirstGap(hours) ==
    LET later == hours \ {FirstOf(hours)}
    IN  IF later = {} THEN 0 ELSE FirstOf(later) - FirstOf(hours)

\* hour_step: the gap between consecutive hours, Never when they are uneven.
HourStep(hours) ==
    LET neighbours == {p \in hours \X hours :
                          p[1] < p[2] /\ ~ \E h \in hours : p[1] < h /\ h < p[2]}
        gaps == {p[2] - p[1] : p \in neighbours}
    IN  IF gaps = {} THEN 0
        ELSE IF Cardinality(gaps) = 1 THEN CHOOSE g \in gaps : TRUE
        ELSE Never

\* The lists and ranges of OnCalendar.
TimerTimes(s) ==
    SundayBased(Expand(Ranges(MondayBased(s.weekdays))))
        \X Expand(Ranges(s.hours)) \X Expand(Ranges(s.minutes))

\* /ST with /RI and /DU.
Repeats(hours, step) ==
    IF step = 0 THEN {FirstOf(hours)}
    ELSE {h \in FirstOf(hours) .. LastOf(hours) : (h - FirstOf(hours)) % step = 0}

TaskTimes(s, step) ==
    IF step = Never \/ Cardinality(s.minutes) # 1 THEN Never
    ELSE s.weekdays \X Repeats(s.hours, step) \X s.minutes

\* When a platform's unit fires in a week, Never when none can be written.  The dicts of a
\* plist are the schedule itself.
PlatformTimes(os, s) ==
    CASE os = "launchd" -> GridTimes(s)
      [] os = "systemd" -> TimerTimes(s)
      [] os = "task-scheduler" -> TaskTimes(s, HourStep(s.hours))

UnitTimesOf(os, s) == IF s = Never THEN Never ELSE PlatformTimes(os, s)
UnitTimes(os, c) == UnitTimesOf(os, Plan(c))

(***************************************************************************)
(* What the translation is for.                                            *)
(***************************************************************************)

\* The reference: every instant whose fields all match.
Matches(c, t) ==
    /\ Minute(t) \in c.minutes /\ Hour(t) \in c.hours /\ Month(t) \in c.months
    /\ DayMatches(c, t)

=============================================================================
