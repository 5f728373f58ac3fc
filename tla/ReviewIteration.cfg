SPECIFICATION Spec
CONSTANTS
    c1 = c1
    c2 = c2
    r1 = r1
    Calls = {c1, c2}
    Remarks = {r1}
    MaxRevision = 2
    MaxProposal = 2
    MaxOperation = 2
    MaxReplies = 0
SYMMETRY Symmetry
INVARIANTS
    IInv
    ProposalIsCurrent
    OneIteration
    OnlyStopCancels
PROPERTIES
    EndedReviewKeeps
\* A review that has ended, and a server that crashed, stop.
CHECK_DEADLOCK FALSE
