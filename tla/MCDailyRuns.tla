---------------------------- MODULE MCDailyRuns ----------------------------
(***************************************************************************)
(* A Friday and a Saturday, with a commit on one and a note on the other.  *)
(***************************************************************************)
EXTENDS CompileText

CONSTANTS friday, saturday

\* Day 0 is a Monday, so 4 is a Friday.
MCDayOf == [w \in Work |-> CASE w = friday -> 4 [] w = saturday -> 5]

\* The words of their bullets: the Saturday's line has half of the Friday's words, and a
\* third of its own in the Friday's.
MCWords == [w \in Work |-> CASE w = friday   -> <<"lock", "stale">>
                             [] w = saturday -> <<"lock", "parser", "tests">>]

\* scrub_notes finds the key FIF-13 in FIF-133.
MCWithin == {<<"FIF-13", "FIF-133">>}

MCSimilar ==
    {<<v, w>> \in Work \X Work : Covered(MCWords[w], <<[bullet |-> TRUE, words |-> MCWords[v]]>>)}

=============================================================================
