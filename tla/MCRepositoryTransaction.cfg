CONSTANTS
    absent = absent
    old = old
    new = new
    Proc = {p1}
    N <- MCN
    D <- MCD
    Contents <- MCContents
    Absent = absent
    Desired <- MCDesired
    Parents <- MCParents
    Above <- MCAbove
    MaxFaults = 3
    NoPlan = NoPlan
    Nobody = Nobody
    Foreign = Foreign
SPECIFICATION FairSpec
INVARIANTS
    PublicationIsReadable OutcomesTellTheTruth
    DirectoriesAccountedFor ControlStateRecoverable
PROPERTIES
    ResultsAreTrue NoReversal RecoveryCompletes
