CONSTANTS
    u1 = u1
    Users = {u1}
    Job = job
    Sched = sched
    NoUser = nouser
    MaxSeq = 2
    MaxWire = 1
    Levels = 1
    ScanBatch = 2
    MaxFaults = 1
SPECIFICATION Spec
INVARIANTS TypeOK ClosedIsCovered PendingHasTimer
CHECK_DEADLOCK FALSE
