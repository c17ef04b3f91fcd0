\* Two compiles, an item that may cross any of their writes, and a regeneration, with faults.
\* Three inodes: the file, the temporary one, and one that was renamed while still open.
CONSTANTS
    c1 = c1
    c2 = c2
    m1 = m1
    r1 = r1
    i1 = i1
    i2 = i2
    i3 = i3
    Blank = Blank
    None = None
    Compiles = {c1, c2}
    Manuals = {m1}
    Resolutions = {r1}
    Inodes = {i1, i2, i3}
    Faults = TRUE
    Hosts = {"here", "peer"}
    Lines = {"x"}
    MaxBody = 2
    MaxChunks = 3
\* Every writer is done in the end.
CHECK_DEADLOCK FALSE
SPECIFICATION Spec
SYMMETRY Symmetric
INVARIANTS
    TypeOK
    NeverTorn
    NoUpdateLost
    EditsKeepTheRest
    EditsAreStable
PROPERTY
    EditsAreAtomic
