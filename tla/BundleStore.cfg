SPECIFICATION LiveSpec
CONSTANTS
    p1 = p1
    p2 = p2
    e1 = e1
    e2 = e2
    Procs = {p1, p2}
    Edits = {e1, e2}
    MaxGen = 3
INVARIANTS
    IInv
    SyncedSurvives
    GenerationsConsecutive
    MemoryIsRecorded
    EditsOnlyWhileOpen
    CheckpointPerFinalization
PROPERTIES
    RequestsAnswered
    NoLostUpdate
    LedgerSpec
