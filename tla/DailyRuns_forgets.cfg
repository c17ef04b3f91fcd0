\* The claim that accumulate loses no work, with two similarly worded items.
CONSTANTS
    friday = friday
    saturday = saturday
    None = None
    Work = {friday, saturday}
    Commits = {friday}
    DayOf <- MCDayOf
    Covers <- MCSimilar
    FirstDay = 4
    LastDay = 5
    OnlyDates = {}
    ArchiveModes = {"next_business_day", "same_day"}
    RenderModes = {"Det"}
    Flaky = TRUE
    Misreads = FALSE
    Words = {"lock", "parser"}
    MaxWords = 3
    MaxLines = 1
    Tickets = {"FIF-13", "FIF-133"}
    Within <- MCWithin
    MaxNotes = 1
SPECIFICATION Spec
PROPERTY NoWorkLost
