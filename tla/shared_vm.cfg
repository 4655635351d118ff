SPECIFICATION Spec
CONSTANTS
    c1 = c1
    c2 = c2
    None = None
    Coordinators = {c1, c2}
    Shared = {c1}
    MaxTurns = 3
    Asking = {1, 2}
    Cap = 2
    NodeMax = 2
    Races = {}
INVARIANT OneSharedVm
CHECK_DEADLOCK FALSE
