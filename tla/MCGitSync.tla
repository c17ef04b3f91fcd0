----------------------------- MODULE MCGitSync -----------------------------
(***************************************************************************)
(* Machines that share one remote.  They are interchangeable.              *)
(***************************************************************************)
EXTENDS GitSync, TLC

Symmetric == Permutations(Hosts)

=============================================================================
