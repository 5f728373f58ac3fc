SPECIFICATION LiveSpec
CONSTANTS
    c1 = c1
    c2 = c2
    f1 = f1
    f2 = f2
    Calls = {c1, c2}
    NoCall = NoCall
    Files = {f1, f2}
    MaxWrites = 1
    MaxFaults = 2
INVARIANTS
    IInv
    SnapshotIsOfOneMoment
    NothingLeftBehind
    StoppingIsClean
PROPERTIES
    EveryCallReturns
\* All questions asked: nothing is left to do.
CHECK_DEADLOCK FALSE
