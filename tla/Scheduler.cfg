CONSTANTS
    Nodes = {n1, n2}
    Shards = {s1}
    NoNode = nonode
    NoJob = nojob
    Windows = 2
    MaxFaults = 2
SPECIFICATION Spec
INVARIANTS NothingDropped RepeatedOnlyUnlocked
PROPERTY EveryShardRunsAgain
