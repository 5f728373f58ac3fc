SPECIFICATION Spec
CONSTANTS
    c1 = c1
    c2 = c2
    r1 = r1
    Calls = {c1, c2}
    Remarks = {r1}
    MaxRevision = 2
    MaxProposal = 2
    MaxOperation = 1
    MaxReplies = 1
INVARIANTS
    ServerLivesOn
\* A review that has ended, and a server that crashed, stop.
CHECK_DEADLOCK FALSE
