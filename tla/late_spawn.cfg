SPECIFICATION Spec
CONSTANTS
    c1 = c1
    c2 = c2
    None = None
    Coordinators = {c1}
    Shared = {}
    MaxTurns = 3
    Asking = {1, 2}
    Cap = 2
    NodeMax = 2
    Races = {"lateSpawn"}
INVARIANT DisposeReleasesAll
CHECK_DEADLOCK FALSE
