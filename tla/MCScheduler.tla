---------------------------- MODULE MCScheduler ----------------------------
(***************************************************************************)
(* Days of four two-minute hours, months of five days, and a Friday         *)
(* afternoon that runs into the weekend.                                    *)
(***************************************************************************)
EXTENDS Scheduler

CONSTANTS hourly, uneven, eitherDay

\* The shipped schedule in small: on the hour, but not in the first, Monday to Friday.
Hourly == [minutes |-> {0}, hours |-> {1, 2, 3}, doms |-> DaysOfMonth, months |-> Months,
           dows |-> 1 .. 5, anyDom |-> TRUE, anyMonth |-> TRUE]

\* Unevenly spaced hours, every day.
Uneven == [Hourly EXCEPT !.minutes = {1}, !.hours = {0, 1, 3}, !.dows = Weekdays]

\* A day of the month or a weekday: no unit can carry it.
EitherDay == [Hourly EXCEPT !.minutes = {1}, !.doms = {3}, !.dows = {6}, !.anyDom = FALSE]

MCParse == [c \in Crons |-> CASE c = hourly -> Hourly [] c = uneven -> Uneven
                            [] c = eitherDay -> EitherDay]

=============================================================================
