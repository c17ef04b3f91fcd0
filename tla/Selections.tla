----------------------------- MODULE Selections -----------------------------
(***************************************************************************)
(* The loops that keep some elements of a list in their order, with the     *)
(* places that are kept as a set.                                          *)
(***************************************************************************)
EXTENDS Integers, Sequences

Selected(s, places) ==
    LET upTo[n \in 0 .. Len(s)] ==
            IF n = 0 THEN <<>>
            ELSE IF n \in places THEN Append(upTo[n - 1], s[n])
            ELSE upTo[n - 1]
    IN  upTo[Len(s)]

=============================================================================
