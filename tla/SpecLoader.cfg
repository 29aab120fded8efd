SPECIFICATION FairSpec
CONSTANTS
    Procs = {p, q}
    Releases = {1, 2}
    MaxVersion = 2
INVARIANTS
    Inv
    ServedSpecIsGenuine
PROPERTIES
    StartupCompletes
