\* A session stops when serveOneShot has returned.
CHECK_DEADLOCK FALSE
SPECIFICATION FairSpec
CONSTANTS
    Query = {q1}
    Handoff = {h1}
    Cancel = {c1}
    MaxWorkspaceRequests = 1
    Launching = TRUE
    Faulty = TRUE
INVARIANTS
    PrintedIsWinner
    AcceptedIsPrinted
    PrintedAfterClose
PROPERTIES
    OutcomeEndsSession
