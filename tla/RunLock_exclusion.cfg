\* The claim that no two runs overlap, when no process dies and no run outlives the timeout.
CONSTANTS
    manual = manual
    cron = cron
    headless = headless
    gui = gui
    cli = cli
    None = None
    StaleAfter = 1
    Runs <- MCRuns
    Procs <- MCProcs
    ProcOf <- MCProcOf
    Crashable = {}
SPECIFICATION PromptSpec
INVARIANT MutualExclusion
