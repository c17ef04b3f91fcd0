--------------------------- MODULE SharedStandup ---------------------------
(***************************************************************************)
(* What the machines that share the dailies repository promise each other:  *)
(* what is published of a machine's block is published by that machine, was *)
(* written by it, is never older than what was there, and has no conflict   *)
(* markers in it.                                                          *)
(***************************************************************************)
EXTENDS Naturals

CONSTANTS Hosts,
          MaxVersion   \* bound: bodies a machine writes

VARIABLES text,     \* the file on the remote
          written   \* the newest body each machine has written

sharedVars == <<text, written>>

SharedInit ==
    /\ text = [ver |-> [h \in Hosts |-> 0], marked |-> FALSE]
    /\ written = [h \in Hosts |-> 0]

Write(h) ==
    /\ written[h] < MaxVersion
    /\ written' = [written EXCEPT ![h] = @ + 1]
    /\ UNCHANGED text

\* Any of the bodies since the one that is there: a push may come after several.
Publish(h) ==
    /\ \E v \in text.ver[h] .. written[h] : text' = [text EXCEPT !.ver[h] = v]
    /\ UNCHANGED written

SharedNext == \E h \in Hosts : Write(h) \/ Publish(h)

SharedSpec == SharedInit /\ [][SharedNext]_sharedVars

=============================================================================
