----------------------------- MODULE MCRunLock -----------------------------
(* RunLock with three runs in two processes: the GUI's manual run and its    *)
(* in-process scheduler share a pid, the headless compile has its own.       *)
EXTENDS RunLock

CONSTANTS manual, cron, headless, gui, cli

MCRuns == {manual, cron, headless}
MCProcs == {gui, cli}
MCProcOf == [r \in MCRuns |-> IF r = headless THEN cli ELSE gui]
MCCrashable == {gui}
=============================================================================
