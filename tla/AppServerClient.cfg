SPECIFICATION LiveSpec
CONSTANTS
    a1 = a1
    a2 = a2
    Probe = Probe
    NoCall = NoCall
    Asks = {a1, a2}
    MaxPieces = 1
    MaxNonsense = 1
INVARIANTS
    IInv
    AnswersAreOwn
    CanceledTurnsAreOver
PROPERTIES
    UnusableIsSilent
    EveryCallReturns
    UnusableIsStopped
\* All questions asked, or the agent gone: nothing is left to do.
CHECK_DEADLOCK FALSE
