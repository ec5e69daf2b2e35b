CONSTANTS
    u1 = u1
    Users = {u1}
    Job = job
    Sched = sched
    NoUser = nouser
    MaxSeq = 1
    MaxWire = 2
    Levels = 2
    ScanBatch = 2
    MaxFaults = 2
SPECIFICATION FairSpec
PROPERTIES EveryoneLearns PendingDrains
CHECK_DEADLOCK FALSE
