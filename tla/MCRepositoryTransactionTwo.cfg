CONSTANTS
    absent = absent
    old = old
    new = new
    Proc = {p1, p2}
    N <- MCN
    D <- MCD
    Contents <- MCContents
    Absent = absent
    Desired <- MCDesired
    Parents <- MCParents
    Above <- MCAbove
    MaxFaults = 1
    NoPlan = NoPlan
    Nobody = Nobody
    Foreign = Foreign
SPECIFICATION Spec
INVARIANT
    StalePlanNeverJournalled
PROPERTY
    AllOrNothing
