--------------------------- MODULE StandupLayout ---------------------------
(***************************************************************************)
(* The lines behind the regions of StandupFile, whose writers edit [auto,   *)
(* peer, manual].  A layout is no part of its state, so what is claimed of  *)
(* every layout is claimed at the step that writes one.                    *)
(***************************************************************************)
EXTENDS StandupFile, StandupText

Editing == \E w \in Writers : pc[w] = "creating"

\* parse, edit and render, of a file that a union merge or a user has left with regions
\* twice, out of order or empty: the edit of one region leaves the others what they show.  (Of
\* two regions of one host that differ, or of two MANUAL ones, one is lost.)
EditsKeepTheRest == Editing => EditsAreLocal

\* An edit that changes nothing writes the same bytes, so that it is not committed for ever.
EditsAreStable == Editing => EditsSettle

=============================================================================
