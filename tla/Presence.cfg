SPECIFICATION LiveSpec
CONSTANTS
    t1 = t1
    t2 = t2
    Tabs = {t1, t2}
    MaxTimerID = 8
    MaxReopened = 1
INVARIANTS
    IInv
    OrphanWasAlone
    SendNeverBlocks
PROPERTIES
    LeftAloneEnds
    ConnectionsReleased
\* A review that has ended and whose tabs are gone has nothing left to do.
CHECK_DEADLOCK FALSE
