\* The GUI process may die; the headless compile always survives to reclaim.
CONSTANTS
    manual = manual
    cron = cron
    headless = headless
    gui = gui
    cli = cli
    None = None
    StaleAfter = 1
    Runs <- MCRuns
    Procs <- MCProcs
    ProcOf <- MCProcOf
    Crashable <- MCCrashable
SPECIFICATION FairSpec
INVARIANTS
    TypeOK
    OverlapNeedsClobber
    NoOrphanedLock
PROPERTY
    StaleLockReclaimed
