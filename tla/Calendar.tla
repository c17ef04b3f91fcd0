----------------------------- MODULE Calendar -----------------------------
(***************************************************************************)
(* Business-day arithmetic (autostand-core dates.rs) and the choice of the  *)
(* files a run compiles (autostand-scheduler selfheal.rs, pipeline_runner). *)
(*                                                                         *)
(* A day is an integer and day 0 is a Monday; holidays do not exist here    *)
(* because they do not exist in the code either.                           *)
(***************************************************************************)
EXTENDS Integers, Sequences

Day == Int

Modes == {"next_business_day", "same_day"}

\* 0 is Monday, 5 is Saturday, 6 is Sunday.
Weekday(d) == d % 7

IsWeekend(d) == Weekday(d) \in {5, 6}

BusinessDay == {d \in Day : ~IsWeekend(d)}

NextBusinessDay(d) ==
    CASE Weekday(d) = 4 -> d + 3
      [] Weekday(d) = 5 -> d + 2
      [] OTHER          -> d + 1

\* The walk back from d stops at the first weekday it meets, three days off at most.
PrevBusinessDayBefore(d) ==
    CHOOSE c \in d - 3 .. d - 1 :
        /\ ~IsWeekend(c)
        /\ \A b \in c + 1 .. d - 1 : IsWeekend(b)

\* The file that work done on day d belongs to.
FilingDate(mode, d) ==
    IF mode = "same_day" /\ ~IsWeekend(d) THEN d ELSE NextBusinessDay(d)

(***************************************************************************)
(* The gather window of the file named f.                                  *)
(***************************************************************************)

\* Mutant: one start for both modes, the previous file's own day claimed twice.
WindowStartUnshifted(mode, f) == PrevBusinessDayBefore(f)

\* The day after the last one that the previous file covers.
WindowStart(mode, f) ==
    IF mode = "same_day" THEN PrevBusinessDayBefore(f) + 1
                         ELSE PrevBusinessDayBefore(f)

LastClaimable(mode, f) == IF mode = "same_day" THEN f ELSE f - 1

\* The days f may ever claim, once the calendar has reached the last of them.
Claims(mode, f) == WindowStart(mode, f) .. LastClaimable(mode, f)

\* Mutant: notes and commits made on a weekend are filtered out of the window.
BusinessWindow(mode, f, today) ==
    {d \in Claims(mode, f) : d <= today /\ ~IsWeekend(d)}

\* The days it claims in a run on day today: the future is clamped away.
Window(mode, f, today) == {d \in Claims(mode, f) : d <= today}

(***************************************************************************)
(* The files of a run.                                                     *)
(***************************************************************************)

TodayFile(mode, today) == FilingDate(mode, today)

\* The file the previous business day's run wrote: walk back from today, then file.
PrevFile(mode, today) == FilingDate(mode, PrevBusinessDayBefore(today))

\* Mutant: self-heal reaches two business days back.
TargetsTwoBack(mode, today) ==
    <<TodayFile(mode, today), PrevFile(mode, today),
      PrevFile(mode, PrevBusinessDayBefore(today))>>

\* The primary file first, and then the self-heal slot when it is another file.
Targets(mode, today) ==
    IF PrevFile(mode, today) = TodayFile(mode, today)
        THEN <<TodayFile(mode, today)>>
        ELSE <<TodayFile(mode, today), PrevFile(mode, today)>>

=============================================================================
