CONSTANTS
    a = a
    b = b
    Instances = {a, b}
    c1 = c1
    c2 = c2
    Callers = {c1, c2}
    r1 = r1
    r2 = r2
    Rpcs = {r1, r2}
    None = none
    Here = a
    Step = 2
    MaxID = 5
SPECIFICATION Spec
INVARIANT TypeOK
PROPERTIES FreshSeqs IssuerSpec
SYMMETRY Symmetry
