\* Two items, every failure, both filing policies.
CONSTANTS
    friday = friday
    saturday = saturday
    None = None
    Work = {friday, saturday}
    Commits = {friday}
    DayOf <- MCDayOf
    Covers <- MCSimilar
    FirstDay = 4
    LastDay = 5
    OnlyDates = {7}
    ArchiveModes = {"next_business_day", "same_day"}
    RenderModes = {"Det", "Auto", "Llm"}
    Flaky = TRUE
    Misreads = FALSE
    Words = {"lock", "parser"}
    MaxWords = 3
    MaxLines = 2
    Tickets = {"FIF-13", "FIF-133"}
    Within <- MCWithin
    MaxNotes = 2
SPECIFICATION Spec
INVARIANTS
    TypeOK
    NoBackdating
    HashMeansWritten
    NoBulletLost
    CopiesDoNotGrow
    NotesDoNotBackdate
    NotedIsTold
PROPERTIES
    KeepsTheLedger
    FrozenIsFinal
