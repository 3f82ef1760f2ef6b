CONSTANTS
    Version = {v1, v2}
    Process = {p1, p2}
    Nobody = Nobody
    MaxReviews = 2
    MaxRuns = 3
    MaxTroubles = 2
SPECIFICATION ClientsSpec
SYMMETRY Symmetry
PROPERTIES
    OwnersBytesSurvive
    AnswersAreTrue
    OneSignalIsAnswered
CHECK_DEADLOCK FALSE
