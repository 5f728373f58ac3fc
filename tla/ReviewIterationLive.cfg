SPECIFICATION LiveSpec
CONSTANTS
    c1 = c1
    c2 = c2
    r1 = r1
    Calls = {c1, c2}
    Remarks = {}
    MaxRevision = 2
    MaxProposal = 1
    MaxOperation = 2
    MaxReplies = 1
PROPERTIES
    IterationsEnd
\* A review that has ended, and a server that crashed, stop.
CHECK_DEADLOCK FALSE
