---------------------------- MODULE CompileText ----------------------------
(***************************************************************************)
(* The text behind the sets of DailyRuns: what compile_one and compile_file *)
(* do to the lines they gather, render and merge.  A text is no part of the *)
(* state of a run, so what is claimed of every text is claimed at the steps *)
(* that handle one.                                                        *)
(***************************************************************************)
EXTENDS DailyRuns, Bullets, Provenance

\* Provenance, scrub and render: no body names, because a note or the session digest does, a
\* ticket that git says was committed on other days only.
NotesDoNotBackdate == pc = "rendering" => KnownLateIsNotAdded

\* The scrub drops nothing for nothing: what it takes from the notes is told by another
\* source, or was committed on another day only.
NotedIsTold == pc = "rendering" => NotesAreTold

\* accumulate, "accumulate-never-delete": no previous bullet is lost but to a line of the new
\* render that says half of it.
NoBulletLost == pc = "writing" => BulletsAreKept

\* accumulate over and over again: a bullet with a significant word does not multiply.
CopiesDoNotGrow == pc = "writing" => CopiesAreKept

=============================================================================
