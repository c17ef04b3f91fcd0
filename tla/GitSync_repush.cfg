\* No timeout and no death: only a push that another machine overtook.
CONSTANTS
    h1 = h1
    h2 = h2
    Hosts = {h1, h2}
    MaxVersion = 1
    Interruptions = FALSE
SPECIFICATION Spec
SYMMETRY Symmetric
INVARIANT
    NextRunRepushes
