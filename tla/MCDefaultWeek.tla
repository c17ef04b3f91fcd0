--------------------------- MODULE MCDefaultWeek ---------------------------
(***************************************************************************)
(* From a Thursday through the weekend to the Wednesday after: work on the  *)
(* Friday, on both days of the weekend and on the Monday.                   *)
(***************************************************************************)
EXTENDS DefaultWeek

CONSTANTS friday, saturday, sunday, monday

\* Day 0 is a Monday, so 4 is a Friday.
MCDayOf == [w \in Work |-> CASE w = friday   -> 4
                             [] w = saturday -> 5
                             [] w = sunday   -> 6
                             [] w = monday   -> 7]

MCDistinct == {<<w, w>> : w \in Work}

=============================================================================
