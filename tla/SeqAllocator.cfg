CONSTANTS
    c1 = c1
    c2 = c2
    Callers = {c1, c2}
    Refiller = refiller
    Nobody = nobody
    Step = 10
    Batches = {5, 7}
    MaxTries = 2
    MaxID = 20
SPECIFICATION FairSpec
INVARIANTS TypeOK RealTimeOrder
PROPERTIES FreshIds IssuerSpec CallsReturn
