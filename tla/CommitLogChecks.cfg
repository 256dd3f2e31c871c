CONSTANTS
    Honest = {h1, h2, h3}
    Faulty = {f1}
    Payloads = {p1, p2}
    MaxSeq = 3
    MaxLen = 2
    h1 = h1
    h2 = h2
    h3 = h3
    f1 = f1
    p1 = p1
    p2 = p2
SPECIFICATION Spec
SYMMETRY Symmetry
INVARIANTS
    TotalOrderMeansPrefixes
    AllChecksMeanSameLog
CHECK_DEADLOCK FALSE
