CONSTANTS
    a1 = a1
    a2 = a2
    a3 = a3
    Attempts = {a1, a2, a3}
    m1 = m1
    Msgs = {m1}
    i1 = i1
    i2 = i2
    Insts = {i1, i2}
    None = none
    Failed = failed
    MaxFaults = 2
SPECIFICATION FairSpec
INVARIANTS TypeOK AnswersAgree AnswerIsStored OnlyStoredIsPushed
PROPERTIES AnswerGetsStored CallsReturn
CHECK_DEADLOCK FALSE
