CONSTANTS
    c1 = c1
    c2 = c2
    Callers = {c1, c2}
    f1 = f1
    f2 = f2
    Flushers = {f1, f2}
    s1 = s1
    Shards = {s1}
    i1 = i1
    i2 = i2
    Items <- MCItems
    ShardOf <- MCShardOf
    NoShard = noshard
    FlushSize = 2
    MaxTimers = 3
SPECIFICATION FairSpec
INVARIANTS TypeOK NoMarkIsStranded
PROPERTIES QueueSpec BucketsDrain
