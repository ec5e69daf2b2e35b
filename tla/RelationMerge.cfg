CONSTANTS
    People = {x, y}
    Sessions = {s1, s2}
    Nobody = Nobody
    Users = {u1, u2, u3}
    Founders = {u1, u2}
    Creator = u1
    Picks <- PickOne
    MaxCalls = 4
    Servers = {v1, v2}
    Loaders = {r1}
    NoOne = NoOne
    NoSet = NoSet
SPECIFICATION Spec
PROPERTY OppositeRequestsMerge
CHECK_DEADLOCK FALSE
