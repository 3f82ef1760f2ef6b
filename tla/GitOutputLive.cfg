CONSTANTS
    Refusing = FALSE
    Stealing = TRUE
SPECIFICATION GitFairSpec
CHECK_DEADLOCK FALSE
PROPERTIES
    GitReturns
    FinishReturnsEventually CancellationAborts
