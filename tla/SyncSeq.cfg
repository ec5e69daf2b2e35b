CONSTANTS
    Bumpers = {c1, c2, c3}
    Users = {u1, u2}
    NoUser = nouser
    Flushers = {f1, f2}
    Margin = 2
    FlushSize = 2
    Rate = 1
    SvcStep = 2
    MaxCalls = 3
    MaxTimers = 3
    MaxFaults = 2
SPECIFICATION SyncSpec
INVARIANT NoLevelIsStranded
PROPERTIES MarginCovers LevelsAreStored
CHECK_DEADLOCK FALSE
