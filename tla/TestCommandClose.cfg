CONSTANTS
    Refusing = FALSE
    Stealing = TRUE
SPECIFICATION TestSpec
\* waitGoTestCommand returns once.
CHECK_DEADLOCK FALSE
INVARIANT
    OwnCloseIsNoDefect
