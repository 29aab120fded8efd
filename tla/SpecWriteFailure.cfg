SPECIFICATION Spec
CONSTANTS
    Procs = {p, q}
    Releases = {1, 2}
    MaxVersion = 2
INVARIANTS
    LiveSpecWins
