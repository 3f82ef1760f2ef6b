CONSTANTS
    Refusing = FALSE
    Stealing = TRUE
SPECIFICATION TestFairSpec
\* waitGoTestCommand returns once.
CHECK_DEADLOCK FALSE
INVARIANTS
    PassedIsWhole MalformedIsExplained
PROPERTY
    SuiteReturns
