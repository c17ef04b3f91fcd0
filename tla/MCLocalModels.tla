--------------------------- MODULE MCLocalModels ---------------------------
(***************************************************************************)
(* One model that is downloaded, in two parts, and one that may be there.   *)
(***************************************************************************)
EXTENDS LocalModels

CONSTANTS small, large, c1, c2

=============================================================================
