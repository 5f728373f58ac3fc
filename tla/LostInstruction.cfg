SPECIFICATION Spec
CONSTANTS
    a = a
    b = b
    Lines = {a, b}
    FirstPlan <- MC_FirstPlan
    Sources <- MC_Sources
    Patches <- MC_Patches
    Letters <- MC_Letters
    TextDocuments <- MC_TextDocuments
    Replacements <- MC_Replacements
    MaxRevision = 3
    MaxThread = 1
    MaxFollowUp = 1
    MaxAnswered = 1
    MaxProposal = 2
    MaxLength = 3
INVARIANTS
    InstructionsDelivered
