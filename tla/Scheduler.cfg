CONSTANTS
    MinutesPerHour = 2
    HoursPerDay = 4
    DaysPerMonth = 5
    MonthsPerYear = 2
    MaxSearchDays = 40
    MaxWeeklyTimes = 30
    Never = Never
    None = None
    hourly = hourly
    uneven = uneven
    eitherDay = eitherDay
    Crons = {hourly, uneven, eitherDay}
    Parse <- MCParse
    Platforms = {"launchd", "systemd", "task-scheduler"}
    Offset = 2
    Start = 44
    End = 46
    Leap = 2
    Lossy = FALSE
SPECIFICATION FairSpec
INVARIANTS
    TypeOK
    UnitIsFaithful
    UnitTracksConfig
    NextRunIsFirst
PROPERTIES
    InProcessOnce
    BoundaryServed
