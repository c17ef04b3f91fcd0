CONSTANTS
    small = small
    large = large
    c1 = c1
    c2 = c2
    None = None
    Models = {small, large}
    Wanted = {large}
    Calls = {c1, c2}
    Size = 2
    MaxFaults = 2
SPECIFICATION FairSpec
INVARIANTS
    TypeOK
    InstalledIsVerified
    SelectionAgrees
PROPERTIES
    DeletedStaysDeleted
    DownloadSettles
