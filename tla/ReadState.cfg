CONSTANTS
    Markers = {k1}
    Readers = {r1}
    None = none
    MaxSeq = 2
    MaxFaults = 2
SPECIFICATION ReadSpec
INVARIANTS EachIsBehind OldMetaIsExcused
PROPERTY UnreadClears
CHECK_DEADLOCK FALSE
