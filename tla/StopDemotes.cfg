SPECIFICATION Spec
CONSTANTS
    c1 = c1
    c2 = c2
    f1 = f1
    f2 = f2
    Calls = {c1, c2}
    NoCall = NoCall
    Files = {f1, f2}
    MaxWrites = 0
    MaxFaults = 0
INVARIANTS
    StopsDemoteNobody
\* All questions asked: nothing is left to do.
CHECK_DEADLOCK FALSE
