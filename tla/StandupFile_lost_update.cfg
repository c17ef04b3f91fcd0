\* The claim that the user's items are never overwritten, with one of each writer.
CONSTANTS
    c1 = c1
    m1 = m1
    i1 = i1
    i2 = i2
    i3 = i3
    i4 = i4
    Blank = Blank
    None = None
    Compiles = {c1}
    Manuals = {m1}
    Resolutions = {}
    Inodes = {i1, i2, i3, i4}
    Faults = FALSE
    Hosts = {"here", "peer"}
    Lines = {"x"}
    MaxBody = 1
    MaxChunks = 1
SPECIFICATION Spec
INVARIANT ManualNeverOverwritten
