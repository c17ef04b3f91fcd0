\* Weekend work under the default filing policy.
CONSTANTS
    friday = friday
    saturday = saturday
    sunday = sunday
    monday = monday
    None = None
    Work = {friday, saturday, sunday, monday}
    Commits = {friday, saturday}
    DayOf <- MCDayOf
    Covers <- MCDistinct
    FirstDay = 3
    LastDay = 9
    OnlyDates = {}
    ArchiveModes = {"next_business_day"}
    RenderModes = {"Det"}
    Flaky = FALSE
    Misreads = FALSE
SPECIFICATION WeekSpec
INVARIANT WeekendWorkLands
