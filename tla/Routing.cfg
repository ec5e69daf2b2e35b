CONSTANTS
    Instances = {a, b}
    Devices = {phone, desk}
    Conns = {c1, c2}
    NoConn = noconn
    MaxFaults = 1
SPECIFICATION Spec
INVARIANTS OnlyOverlapsAreLost DrainedOrMissed OfflineMeansOffline
SYMMETRY Alike
CHECK_DEADLOCK FALSE
