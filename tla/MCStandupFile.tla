--------------------------- MODULE MCStandupFile ---------------------------
(***************************************************************************)
(* Writers of one standup file.  Inodes are interchangeable, and so are the *)
(* writers of one kind among themselves.                                   *)
(***************************************************************************)
EXTENDS StandupLayout, TLC

Symmetric == Permutations(Compiles) \cup Permutations(Manuals)
             \cup Permutations(Resolutions) \cup Permutations(Inodes)

=============================================================================
