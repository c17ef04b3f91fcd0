\* Two machines, two bodies each, with every conflict, timeout and death.
CONSTANTS
    h1 = h1
    h2 = h2
    Hosts = {h1, h2}
    MaxVersion = 2
    Interruptions = TRUE
SPECIFICATION Spec
SYMMETRY Symmetric
INVARIANTS
    TypeOK
    NoMarkersPublished
    LocalFileKept
    ConflictNeverStrands
PROPERTY
    PublishesOwnBlock
